------------------------- MODULE LayerExtractProofs -------------------------
(***************************************************************************)
(* Theorems about LayerExtract, for archives of every length and lower     *)
(* roots of every shape.  The image specification speaks of a whole        *)
(* archive; LayerInv is its meaning for the entries read so far: of a      *)
(* layer that lists each path once and goes through no link, what the tree *)
(* holds at each listed path, above it and elsewhere, what created and     *)
(* links record, and what a waiting hard link may find at the end.         *)
(* ModeInv says which mode each listed directory has or waits for.         *)
(* FailInv, with OpenInv and UnmadeInv, says why an extraction may fail.   *)
(***************************************************************************)
EXTENDS LayerExtract, SequenceTheorems, TLAPS

-----------------------------------------------------------------------------
(* Paths.                                                                  *)

LEMMA PathLength ==
    ASSUME NEW p \in Paths
    PROVE  p \in Seq(Names) /\ Len(p) \in Nat \ {0}
BY EmptySeq, LenProperties DEF Paths

LEMMA NonEmptyPath ==
    ASSUME NEW p \in Seq(Names), Len(p) > 0
    PROVE  p \in Paths
BY EmptySeq DEF Paths

LEMMA Cut ==
    ASSUME NEW p \in Seq(Names), NEW m \in 1..(Len(p) + 1), NEW n \in 0..Len(p)
    PROVE  /\ SubSeq(p, m, n) \in Seq(Names)
           /\ Len(SubSeq(p, m, n)) = IF m <= n THEN n - m + 1 ELSE 0
           /\ \A i \in 1..(n - m + 1) : SubSeq(p, m, n)[i] = p[m + i - 1]
<1>1. Len(p) \in Nat
  BY LenProperties
<1>2. \A i \in m..n : p[i] \in Names
  BY <1>1, ElementOfSeq
<1> QED BY <1>1, <1>2, SubSeqProperties

\* The paths above p are its proper beginnings.
LEMMA AboveDef ==
    ASSUME NEW p \in Seq(Names), NEW q \in Seq(Names)
    PROVE  q \in Above(p) <=> /\ Len(q) \in 1..(Len(p) - 1)
                              /\ \A i \in 1..Len(q) : q[i] = p[i]
<1>1. Len(p) \in Nat /\ Len(q) \in Nat
  BY LenProperties
<1>2. ASSUME q \in Above(p)
      PROVE  /\ Len(q) \in 1..(Len(p) - 1)
             /\ \A i \in 1..Len(q) : q[i] = p[i]
  <2>1. PICK n \in 1..(Len(p) - 1) : q = SubSeq(p, 1, n)
    BY <1>2 DEF Above
  <2> QED BY <1>1, <2>1, Cut
<1>3. ASSUME Len(q) \in 1..(Len(p) - 1), \A i \in 1..Len(q) : q[i] = p[i]
      PROVE  q \in Above(p)
  <2>1. /\ SubSeq(p, 1, Len(q)) \in Seq(Names)
        /\ Len(SubSeq(p, 1, Len(q))) = Len(q)
        /\ \A i \in 1..Len(q) : SubSeq(p, 1, Len(q))[i] = p[i]
    BY <1>1, <1>3, Cut
  <2>2. q = SubSeq(p, 1, Len(q))
    BY <1>3, <2>1, SeqEqual
  <2> QED BY <1>3, <2>2 DEF Above
<1> QED BY <1>2, <1>3

LEMMA AbovePath ==
    ASSUME NEW p \in Seq(Names), NEW q \in Above(p)
    PROVE  q \in Paths /\ Len(q) < Len(p) /\ p \in Paths
<1>1. Len(p) \in Nat
  BY LenProperties
<1>2. PICK n \in 1..(Len(p) - 1) : q = SubSeq(p, 1, n)
  BY DEF Above
<1>3. n \in Int /\ 1 \in 1..(Len(p) + 1) /\ n \in 0..Len(p) /\ 1 <= n
  BY <1>1, <1>2
<1>4. q \in Seq(Names) /\ Len(q) = n
  BY <1>1, <1>2, <1>3, Cut
<1>5. Len(q) > 0 /\ Len(p) > 0 /\ Len(q) < Len(p)
  BY <1>1, <1>2, <1>4
<1>6. q \in Paths
  BY <1>4, <1>5, NonEmptyPath
<1>7. p \in Paths
  BY <1>5, NonEmptyPath
<1> QED BY <1>5, <1>6, <1>7

LEMMA AboveOrder ==
    ASSUME NEW p \in Seq(Names), NEW q \in Above(p)
    PROVE  /\ p \notin Above(q) /\ p # q
           /\ \A r \in Above(q) : r \in Above(p)
           /\ \A r \in Above(p) : r = q \/ r \in Above(q) \/ q \in Above(r)
<1>1. /\ q \in Paths /\ q \in Seq(Names)
      /\ Len(p) \in Nat /\ Len(q) \in Nat /\ Len(q) < Len(p)
  BY AbovePath, LenProperties DEF Paths
<1>2. p \notin Above(q) /\ p # q
  BY <1>1, AbovePath
<1>3. ASSUME NEW r \in Above(q) PROVE r \in Above(p)
  <2>1. r \in Seq(Names)
    BY <1>1, <1>3, AbovePath, PathLength
  <2> QED BY <1>1, <1>3, <2>1, AboveDef, LenProperties
<1>4. ASSUME NEW r \in Above(p) PROVE r = q \/ r \in Above(q) \/ q \in Above(r)
  <2>1. r \in Seq(Names) /\ Len(r) \in Nat \ {0} /\ Len(q) \in Nat \ {0}
    BY <1>1, <1>4, AbovePath, PathLength
  <2>2. /\ \A i \in 1..Len(r) : r[i] = p[i]
        /\ \A i \in 1..Len(q) : q[i] = p[i]
    BY <1>1, <1>4, <2>1, AboveDef
  <2>3. CASE Len(r) = Len(q)
    BY <1>1, <2>1, <2>2, <2>3, SeqEqual
  <2>4. CASE Len(r) < Len(q)
    BY SMTT(30), <1>1, <2>1, <2>2, <2>4, AboveDef
  <2>5. CASE Len(q) < Len(r)
    BY <1>1, <2>1, <2>2, <2>5, AboveDef
  <2> QED BY <2>1, <2>3, <2>4, <2>5
<1> QED BY <1>2, <1>3, <1>4

\* The directory a path is in.
LEMMA FrontDef ==
    ASSUME NEW p \in Paths
    PROVE  /\ Front(p) \in Seq(Names) /\ Len(Front(p)) = Len(p) - 1
           /\ \A i \in 1..(Len(p) - 1) : Front(p)[i] = p[i]
<1>1. p \in Seq(Names) /\ Len(p) \in Nat \ {0}
  BY PathLength
<1>2. 1 \in 1..(Len(p) + 1) /\ Len(p) - 1 \in 0..Len(p)
  BY <1>1
<1>3. PICK f : f = SubSeq(p, 1, Len(p) - 1)
  OBVIOUS
<1>4. /\ f \in Seq(Names)
      /\ Len(f) = IF 1 <= Len(p) - 1 THEN Len(p) - 1 - 1 + 1 ELSE 0
      /\ \A i \in 1..(Len(p) - 1 - 1 + 1) : f[i] = p[1 + i - 1]
  BY <1>1, <1>2, <1>3, Cut
<1>5. Len(f) = Len(p) - 1
  <2>1. PICK n \in Nat : Len(p) = n + 1
    BY <1>1
  <2>2. Len(f) = IF 1 <= n THEN n ELSE 0
    BY <1>4, <2>1
  <2> QED BY <2>1, <2>2
<1>6. ASSUME NEW i \in 1..(Len(p) - 1)
      PROVE  f[i] = p[i]
  <2>1. i \in 1..(Len(p) - 1 - 1 + 1) /\ 1 + i - 1 = i
    BY <1>1
  <2> QED BY <1>4, <2>1
<1> QED BY <1>3, <1>4, <1>5, <1>6 DEF Front

LEMMA FrontAbove ==
    ASSUME NEW p \in Paths
    PROVE  /\ Front(p) = <<>> \/ Front(p) \in Above(p)
           /\ \A q \in Above(p) : q = Front(p) \/ q \in Above(Front(p))
           /\ \A q \in Above(Front(p)) : q \in Above(p)
<1>1. /\ Front(p) \in Seq(Names) /\ Len(Front(p)) = Len(p) - 1
      /\ \A i \in 1..(Len(p) - 1) : Front(p)[i] = p[i]
      /\ p \in Seq(Names) /\ Len(p) \in Nat \ {0}
  BY FrontDef, PathLength
<1>2. Front(p) = <<>> \/ Front(p) \in Above(p)
  BY <1>1, AboveDef, EmptySeq
<1>3. ASSUME NEW q \in Above(p) PROVE q = Front(p) \/ q \in Above(Front(p))
  <2>1. q \in Seq(Names) /\ Len(q) \in 1..(Len(p) - 1) /\ \A i \in 1..Len(q) : q[i] = p[i]
    BY <1>1, AbovePath, PathLength, AboveDef
  <2>2. CASE Len(q) = Len(p) - 1
    BY <1>1, <2>1, <2>2, SeqEqual
  <2>3. CASE Len(q) < Len(p) - 1
    <3>1. Len(q) \in 1..(Len(Front(p)) - 1) /\ \A i \in 1..Len(q) : q[i] = Front(p)[i]
      BY <1>1, <2>1, <2>3
    <3> QED BY <1>1, <2>1, <3>1, AboveDef
  <2> QED BY <1>1, <2>1, <2>2, <2>3
<1>4. ASSUME NEW q \in Above(Front(p)) PROVE q \in Above(p)
  <2>1. Front(p) \in Above(p) \/ Above(Front(p)) = {}
    BY <1>1, <1>2, EmptySeq DEF Above
  <2> QED BY <1>1, <2>1, AboveOrder
<1> QED BY <1>2, <1>3, <1>4

\* Prefixes, in terms of the paths above.
LEMMA PrefixDef ==
    ASSUME NEW p \in Paths, NEW q \in Seq(Names)
    PROVE  /\ IsPrefix(p, q) <=> p = q \/ p \in Above(q)
           /\ IsStrictPrefix(p, q) <=> p \in Above(q)
<1>1. p \in Seq(Names) /\ Len(p) \in Nat \ {0} /\ Len(q) \in Nat
  BY PathLength, LenProperties
<1>2. SubSeq(p, 1, Len(p)) = p
  BY <1>1, SubSeqFull
<1>3. ASSUME Len(p) <= Len(q)
      PROVE  SubSeq(q, 1, Len(p)) = p <=> \A i \in 1..Len(p) : p[i] = q[i]
  <2>1. /\ SubSeq(q, 1, Len(p)) \in Seq(Names)
        /\ Len(SubSeq(q, 1, Len(p))) = Len(p)
        /\ \A i \in 1..Len(p) : SubSeq(q, 1, Len(p))[i] = q[i]
    BY <1>1, <1>3, Cut
  <2> QED BY <1>1, <2>1, SeqEqual
<1>4. IsPrefix(p, q) <=> Len(p) <= Len(q) /\ \A i \in 1..Len(p) : p[i] = q[i]
  BY <1>2, <1>3 DEF IsPrefix
<1>5. p \in Above(q) => Len(p) < Len(q) /\ \A i \in 1..Len(p) : p[i] = q[i]
  BY <1>1, AboveDef
<1>6. ASSUME Len(p) <= Len(q), \A i \in 1..Len(p) : p[i] = q[i]
      PROVE  p = q \/ p \in Above(q)
  <2>1. CASE Len(p) = Len(q)
    BY <1>1, <1>6, <2>1, SeqEqual
  <2>2. CASE Len(p) < Len(q)
    BY <1>1, <1>6, <2>2, AboveDef
  <2> QED BY <1>1, <1>6, <2>1, <2>2
<1>7. IsPrefix(p, q) <=> p = q \/ p \in Above(q)
  BY <1>1, <1>4, <1>5, <1>6
<1> QED BY <1>1, <1>5, <1>7 DEF IsStrictPrefix
-----------------------------------------------------------------------------
(* File systems.                                                           *)

LEMMA KindCases ==
    ASSUME NEW t, IsFileSystem(t), NEW p
    PROVE  /\ p \in DOMAIN t => p \in Paths /\ t[p] \in Nodes /\ Kind(t, p) = t[p].kind
           /\ Kind(t, p) \in {"file", "link"} => p \in DOMAIN t
           /\ Kind(t, p) = "dir" => p = <<>> \/ p \in DOMAIN t
           /\ p \notin DOMAIN t /\ p # <<>> => Kind(t, p) = "none"
BY DEF IsFileSystem, Kind, Exists, Nodes, Paths

LEMMA HopPath ==
    ASSUME NEW t, IsFileSystem(t), NEW p \in Seq(Names)
    PROVE  Hop(t, p) \in Seq(Names) /\ (p \in Paths => Hop(t, p) \in Paths)
<1> DEFINE first == {q \in Above(p) : IsLink(t, q) /\ \A r \in Above(q) : ~IsLink(t, r)}
<1>1. CASE first = {}
  BY <1>1 DEF Hop
<1>2. CASE first # {}
  <2>1. PICK q : q = CHOOSE x \in first : TRUE
    OBVIOUS
  <2>2. q \in Above(p) /\ IsLink(t, q)
    BY <1>2, <2>1
  <2>3. /\ q \in Seq(Names) /\ Len(q) \in Nat \ {0} /\ Len(p) \in Nat /\ Len(q) < Len(p)
    BY <2>2, AbovePath, PathLength, LenProperties
  <2>4. q \in DOMAIN t /\ t[q].to \in Seq(Names)
    BY <2>2, KindCases DEF IsLink, Nodes
  <2>5. Len(q) + 1 \in 1..(Len(p) + 1) /\ Len(p) \in 0..Len(p) /\ Len(q) + 1 <= Len(p)
    BY <2>3
  <2>6. PICK rest : rest = SubSeq(p, Len(q) + 1, Len(p))
    OBVIOUS
  <2>7. rest \in Seq(Names) /\ Len(rest) = Len(p) - (Len(q) + 1) + 1
    BY <2>5, <2>6, Cut
  <2>8. Len(rest) > 0
    BY <2>3, <2>7
  <2>9. t[q].to \o rest \in Seq(Names) /\ Len(t[q].to \o rest) = Len(t[q].to) + Len(rest)
    BY <2>4, <2>7, ConcatProperties
  <2>10. Len(t[q].to) \in Nat /\ Len(rest) \in Nat
    BY <2>4, <2>7, LenProperties
  <2>11. Len(t[q].to \o rest) > 0
    BY <2>8, <2>9, <2>10
  <2>12. Hop(t, p) = t[q].to \o rest
    BY <1>2, <2>1, <2>6 DEF Hop
  <2> QED BY <2>9, <2>11, <2>12, NonEmptyPath
<1> QED BY <1>1, <1>2

LEMMA RealPath ==
    ASSUME NEW t, IsFileSystem(t), NEW p \in Seq(Names)
    PROVE  Real(t, p) \in Seq(Names) /\ (p \in Paths => Real(t, p) \in Paths)
BY HopPath DEF Real, Paths

\* Where no link is on the way a path is what it says.
LEMMA Straight ==
    ASSUME NEW t, NEW p, \A q \in Above(p) : ~IsLink(t, q)
    PROVE  Real(t, p) = p
BY DEF Real, Hop

LEMMA StraightBelowDirs ==
    ASSUME NEW t, NEW p, \A q \in Above(p) : Kind(t, q) \in {"dir", "none"}
    PROVE  Real(t, p) = p /\ ~Stray(t, p) /\ ~Dangling(t, p)
<1>1. \A q \in Above(p) : ~IsLink(t, q)
  BY DEF IsLink
<1> QED BY <1>1, Straight DEF Stray, Dangling

\* What is below an existing path makes directories of all above it.
LEMMA DirsAbove ==
    ASSUME NEW t, IsFileSystem(t), NEW p \in DOMAIN t
    PROVE  \A q \in Above(p) : q \in DOMAIN t /\ t[q].kind = "dir"
<1> TAKE q \in Above(p)
<1>1. p \in Seq(Names) /\ q \in Paths
  BY KindCases, PathLength, AbovePath
<1>2. Kind(t, q) = "dir"
  BY DEF IsFileSystem
<1> QED BY <1>1, <1>2, KindCases DEF Paths

LEMMA UnderDef ==
    ASSUME NEW t, IsFileSystem(t), NEW p \in Paths, NEW q
    PROVE  q \in Under(t, p) <=> q \in DOMAIN t /\ (q = p \/ p \in Above(q))
BY KindCases, PathLength, PrefixDef DEF Under

\* Removing what is below whatever is removed leaves a file system.
LEMMA WithoutKeeps ==
    ASSUME NEW t, IsFileSystem(t), NEW gone,
           \A q \in gone, r \in DOMAIN t : q \in Above(r) => r \in gone
    PROVE  /\ IsFileSystem(Without(t, gone))
           /\ DOMAIN Without(t, gone) = DOMAIN t \ gone
           /\ \A q \in DOMAIN t \ gone : Without(t, gone)[q] = t[q]
<1>1. PICK u : u = Without(t, gone)
  OBVIOUS
<1>2. DOMAIN u = DOMAIN t \ gone /\ \A q \in DOMAIN u : u[q] = t[q]
  BY <1>1 DEF Without
<1>3. u \in [DOMAIN u -> Nodes] /\ DOMAIN u \subseteq Paths
  BY <1>1, <1>2 DEF Without, IsFileSystem
<1>4. ASSUME NEW p \in DOMAIN u, NEW q \in Above(p)
      PROVE  Kind(u, q) = "dir"
  <2>1. q \in DOMAIN t /\ t[q].kind = "dir"
    BY <1>2, <1>4, DirsAbove
  <2>2. q \notin gone
    BY <1>2, <1>4
  <2> QED BY <1>2, <2>1, <2>2 DEF Kind, Exists
<1> QED BY <1>1, <1>2, <1>3, <1>4 DEF IsFileSystem

LEMMA RemovedKeeps ==
    ASSUME NEW t, IsFileSystem(t), NEW p \in Paths
    PROVE  /\ IsFileSystem(Removed(t, p))
           /\ DOMAIN Removed(t, p) = {q \in DOMAIN t : q # p /\ p \notin Above(q)}
           /\ \A q \in DOMAIN Removed(t, p) : Removed(t, p)[q] = t[q]
<1>1. ASSUME NEW q \in Under(t, p), NEW r \in DOMAIN t, q \in Above(r)
      PROVE  r \in Under(t, p)
  <2>1. r \in Seq(Names)
    BY KindCases, PathLength
  <2> QED BY <1>1, <2>1, UnderDef, AboveOrder
<1>2. DOMAIN t \ Under(t, p) = {q \in DOMAIN t : q # p /\ p \notin Above(q)}
  BY UnderDef
<1> QED BY <1>1, <1>2, WithoutKeeps DEF Removed

\* Making the directories above a path leaves a file system ...
LEMMA MadeAboveKeeps ==
    ASSUME NEW t, IsFileSystem(t), NEW p \in Paths,
           \A q \in Above(p) : Kind(t, q) \in {"dir", "none"}
    PROVE  /\ IsFileSystem(MadeAbove(t, p))
           /\ DOMAIN MadeAbove(t, p) = DOMAIN t \cup Above(p)
           /\ \A q \in DOMAIN MadeAbove(t, p) :
                MadeAbove(t, p)[q] = IF q \in DOMAIN t THEN t[q] ELSE Dir(TRUE)
<1>1. PICK u : u = MadeAbove(t, p)
  OBVIOUS
<1>2. /\ DOMAIN u = DOMAIN t \cup Above(p)
      /\ \A q \in DOMAIN u : u[q] = IF q \in DOMAIN t THEN t[q] ELSE Dir(TRUE)
  BY <1>1 DEF MadeAbove, MissingAbove, Exists
<1>3. Dir(TRUE) \in Nodes
  BY EmptySeq DEF Dir, Nodes
<1>4. \A q \in Above(p) : q \in Paths
  BY PathLength, AbovePath
<1>5. u \in [DOMAIN u -> Nodes]
  BY <1>1, <1>2, <1>3 DEF MadeAbove, MissingAbove, Exists, IsFileSystem
<1>6. ASSUME NEW r \in DOMAIN u, NEW q \in Above(r)
      PROVE  Kind(u, q) = "dir"
  <2>1. CASE r \in DOMAIN t
    <3>1. q \in DOMAIN t /\ t[q].kind = "dir"
      BY <1>6, <2>1, DirsAbove
    <3> QED BY <1>2, <3>1 DEF Kind, Exists
  <2>2. CASE r \in Above(p)
    <3>1. q \in Above(p) /\ q \in Paths
      BY <1>4, <1>6, <2>2, PathLength, AboveOrder
    <3>2. q \in DOMAIN t => t[q].kind = "dir"
      BY <3>1, KindCases DEF Nodes
    <3> QED BY <1>2, <3>1, <3>2 DEF Kind, Exists, Dir
  <2> QED BY <1>2, <1>6, <2>1, <2>2
<1>7. DOMAIN u \subseteq Paths
  BY <1>2, <1>4 DEF IsFileSystem
<1> QED BY <1>1, <1>2, <1>5, <1>6, <1>7 DEF IsFileSystem

\* ... and so does putting something where its directory is.
Added(base, p, node, u) ==
    /\ DOMAIN u = DOMAIN base \cup {p}
    /\ \A q \in DOMAIN u : u[q] = IF q = p THEN node ELSE base[q]

LEMMA WithKeeps ==
    ASSUME NEW t, IsFileSystem(t), NEW p \in Paths, NEW node \in Nodes,
           \A q \in Above(p) : Kind(t, q) = "dir",
           node.kind = "dir" \/ \A r \in DOMAIN t : p \notin Above(r)
    PROVE  IsFileSystem(With(t, p, node)) /\ Added(t, p, node, With(t, p, node))
<1>1. PICK u : u = With(t, p, node)
  OBVIOUS
<1>2. /\ DOMAIN u = DOMAIN t \cup {p}
      /\ \A q \in DOMAIN u : u[q] = IF q = p THEN node ELSE t[q]
  BY <1>1 DEF With
<1>3. u \in [DOMAIN u -> Nodes] /\ DOMAIN u \subseteq Paths
  BY <1>1, <1>2 DEF With, IsFileSystem
<1>4. ASSUME NEW r \in DOMAIN u, NEW q \in Above(r)
      PROVE  Kind(u, q) = "dir"
  <2>0. q \in Paths
    BY <1>3, <1>4, PathLength, AbovePath
  <2>1. CASE q = p
    <3>1. r \in DOMAIN t
      BY <1>2, <1>4, <2>1, PathLength, AboveOrder
    <3> QED BY <1>2, <1>4, <2>1, <3>1 DEF Kind, Exists
  <2>2. CASE q # p /\ r \in DOMAIN t
    <3>1. q \in DOMAIN t /\ t[q].kind = "dir"
      BY <1>4, <2>2, DirsAbove
    <3> QED BY <1>2, <2>2, <3>1 DEF Kind, Exists
  <2>3. CASE q # p /\ r = p
    <3>1. q \in DOMAIN t /\ t[q].kind = "dir"
      BY <1>4, <2>0, <2>3, KindCases DEF Paths
    <3> QED BY <1>2, <2>3, <3>1 DEF Kind, Exists
  <2> QED BY <1>2, <1>4, <2>1, <2>2, <2>3
<1>5. Added(t, p, node, u)
  BY <1>2 DEF Added
<1>6. IsFileSystem(u)
  BY <1>3, <1>4 DEF IsFileSystem
<1> QED BY <1>1, <1>5, <1>6

\* The tree once the parents of a path are made and the path is free.
Based(t, p, base) ==
    /\ \A q \in Above(p) : Kind(t, q) \in {"dir", "none"}
    /\ DOMAIN base = {q \in DOMAIN t : q # p /\ p \notin Above(q)} \cup Above(p)
    /\ \A q \in DOMAIN base : base[q] = IF q \in DOMAIN t THEN t[q] ELSE Dir(TRUE)

\* What an entry that replaces leaves: nothing below it, and directories above.
LEMMA Placing ==
    ASSUME NEW t, IsFileSystem(t), NEW p \in Paths,
           \A q \in Above(p) : Kind(t, q) \in {"dir", "none"}
    PROVE  LET made == MadeAbove(Removed(t, p), p)
           IN  /\ IsFileSystem(made) /\ Based(t, p, made)
               /\ \A node \in Nodes :
                    /\ IsFileSystem(With(made, p, node))
                    /\ DOMAIN With(made, p, node) = DOMAIN made \cup {p}
                    /\ \A q \in DOMAIN With(made, p, node) :
                         With(made, p, node)[q] = IF q = p THEN node ELSE made[q]
<1>0. /\ p \in Seq(Names) /\ p # <<>> /\ p \notin Above(p)
      /\ \A q \in Above(p) : q \in Paths /\ q # p /\ q # <<>> /\ p \notin Above(q)
  BY PathLength, AbovePath, AboveOrder DEF Paths
<1>1. PICK base : base = Removed(t, p)
  OBVIOUS
<1>2. /\ IsFileSystem(base)
      /\ DOMAIN base = {q \in DOMAIN t : q # p /\ p \notin Above(q)}
      /\ \A q \in DOMAIN base : base[q] = t[q]
  BY <1>1, RemovedKeeps
<1>3. \A q \in Above(p) : Kind(base, q) \in {"dir", "none"}
  BY <1>0, <1>2 DEF Kind, Exists
<1>4. PICK made : made = MadeAbove(base, p)
  OBVIOUS
<1>5. /\ IsFileSystem(made)
      /\ DOMAIN made = DOMAIN base \cup Above(p)
      /\ \A q \in DOMAIN made : made[q] = IF q \in DOMAIN base THEN base[q] ELSE Dir(TRUE)
  <2>1. IsFileSystem(base)
    BY <1>2
  <2>2. /\ IsFileSystem(MadeAbove(base, p))
        /\ DOMAIN MadeAbove(base, p) = DOMAIN base \cup Above(p)
        /\ \A q \in DOMAIN MadeAbove(base, p) :
             MadeAbove(base, p)[q] = IF q \in DOMAIN base THEN base[q] ELSE Dir(TRUE)
    BY <1>3, <2>1, MadeAboveKeeps
  <2> QED BY <1>4, <2>2
<1>6. \A q \in DOMAIN made : made[q] = IF q \in DOMAIN t THEN t[q] ELSE Dir(TRUE)
  BY <1>0, <1>2, <1>5
<1>7. \A q \in Above(p) : Kind(made, q) = "dir"
  <2> TAKE q \in Above(p)
  <2>1. q \in DOMAIN base => base[q].kind = "dir"
    BY <1>2, <1>3, KindCases DEF Nodes
  <2> QED BY <1>0, <1>5, <2>1 DEF Kind, Exists, Dir
<1>8. \A r \in DOMAIN made : p \notin Above(r)
  BY <1>0, <1>2, <1>5
<1>9. ASSUME NEW node \in Nodes
      PROVE  /\ IsFileSystem(With(made, p, node))
             /\ DOMAIN With(made, p, node) = DOMAIN made \cup {p}
             /\ \A q \in DOMAIN With(made, p, node) :
                  With(made, p, node)[q] = IF q = p THEN node ELSE made[q]
  <2>1. IsFileSystem(With(made, p, node)) /\ Added(made, p, node, With(made, p, node))
    BY <1>5, <1>7, <1>8, WithKeeps
  <2>2. PICK u : u = With(made, p, node)
    OBVIOUS
  <2>3. Added(made, p, node, u)
    BY <2>1, <2>2
  <2> QED BY <2>1, <2>2, <2>3 DEF Added
<1>10. Based(t, p, made)
  BY <1>2, <1>5, <1>6 DEF Based
<1> QED BY <1>1, <1>4, <1>5, <1>9, <1>10

-----------------------------------------------------------------------------
(* Types.                                                                  *)

LEMMA EntryType ==
    ASSUME NEW e \in Entries
    PROVE  /\ e.path \in Seq(Names) /\ e.to \in Seq(Names) /\ Opens(e.mode) \in BOOLEAN
           /\ e.kind \in Kinds /\ (e.kind # "opaque" => e.path \in Paths)
BY EntriesAssumption DEF Paths, Opens

LEMMA NodeType ==
    /\ \A open \in BOOLEAN : Dir(open) \in Nodes
    /\ File("new") \in Nodes
    /\ \A to \in Seq(Names) : Link(to) \in Nodes
BY EmptySeq DEF Dir, File, Link, Nodes

LEMMA NotBlocked ==
    ASSUME NEW e, ~Blocked(e)
    PROVE  \A q \in Above(Real(tree, e.path)) : Kind(tree, q) \in {"dir", "none"}
BY DEF Blocked, Stray

\* Below a directory that keeps its name the archive's spelling keeps the order.
LEMMA SpelledAbove ==
    ASSUME IsFileSystem(tree), NEW p \in Paths,
           NEW q \in Under(tree, Real(tree, p))
    PROVE  /\ Spelled(p, q) \in Paths
           /\ \A r \in DOMAIN tree : q \in Above(r) => Spelled(p, q) \in Above(Spelled(p, r))
<1>1. PICK R \in Paths : R = Real(tree, p)
  BY PathLength, RealPath
<1>2. /\ p \in Seq(Names) /\ Len(p) \in Nat \ {0}
      /\ R \in Seq(Names) /\ Len(R) \in Nat \ {0}
  BY <1>1, PathLength
<1>3. q \in DOMAIN tree /\ (q = R \/ R \in Above(q))
  BY <1>1, UnderDef
<1>4. ASSUME NEW r \in DOMAIN tree, r = R \/ R \in Above(r)
      PROVE  /\ Spelled(p, r) \in Seq(Names) /\ r \in Seq(Names) /\ Len(r) \in Nat
             /\ Len(R) <= Len(r)
             /\ Len(Spelled(p, r)) = Len(p) + Len(r) - Len(R)
             /\ \A i \in 1..Len(p) : Spelled(p, r)[i] = p[i]
             /\ \A i \in Len(p) + 1..Len(p) + Len(r) - Len(R) :
                  Spelled(p, r)[i] = r[i - Len(p) + Len(R)]
  <2>1. r \in Seq(Names) /\ Len(r) \in Nat \ {0} /\ Len(R) <= Len(r)
    BY <1>2, <1>4, KindCases, PathLength, AbovePath
  <2>2. PICK rest : rest = SubSeq(r, Len(R) + 1, Len(r))
    OBVIOUS
  <2>3. Len(R) + 1 \in 1..(Len(r) + 1) /\ Len(r) \in 0..Len(r)
    BY <1>2, <2>1
  <2>4. /\ rest \in Seq(Names)
        /\ Len(rest) = IF Len(R) + 1 <= Len(r) THEN Len(r) - (Len(R) + 1) + 1 ELSE 0
        /\ \A i \in 1..(Len(r) - (Len(R) + 1) + 1) : rest[i] = r[Len(R) + 1 + i - 1]
    BY <2>1, <2>2, <2>3, Cut
  <2>5. Len(rest) = Len(r) - Len(R)
    BY <1>2, <2>1, <2>4
  <2>6. /\ p \o rest \in Seq(Names)
        /\ Len(p \o rest) = Len(p) + Len(rest)
        /\ \A i \in 1..Len(p) + Len(rest) :
             (p \o rest)[i] = IF i <= Len(p) THEN p[i] ELSE rest[i - Len(p)]
    BY <1>2, <2>4, ConcatProperties
  <2>7. Spelled(p, r) = p \o rest
    BY <1>1, <2>2 DEF Spelled
  <2>8. ASSUME NEW i \in Len(p) + 1..Len(p) + Len(r) - Len(R)
        PROVE  (p \o rest)[i] = r[i - Len(p) + Len(R)]
    <3>1. (p \o rest)[i] = rest[i - Len(p)]
      BY <1>2, <2>1, <2>5, <2>6
    <3>2. i - Len(p) \in 1..(Len(r) - (Len(R) + 1) + 1)
      BY <1>2, <2>1
    <3>3. rest[i - Len(p)] = r[Len(R) + 1 + (i - Len(p)) - 1]
      BY <2>4, <3>2
    <3>4. Len(R) + 1 + (i - Len(p)) - 1 = i - Len(p) + Len(R)
      BY <1>2
    <3> QED BY <3>1, <3>3, <3>4
  <2>9. PICK s : s = p \o rest
    OBVIOUS
  <2>10. /\ s \in Seq(Names) /\ Len(s) = Len(p) + Len(r) - Len(R)
         /\ \A i \in 1..Len(p) : s[i] = p[i]
    BY <1>2, <2>1, <2>5, <2>6, <2>9
  <2>11. \A i \in Len(p) + 1..Len(p) + Len(r) - Len(R) : s[i] = r[i - Len(p) + Len(R)]
    BY <2>8, <2>9
  <2> QED BY <2>1, <2>7, <2>9, <2>10, <2>11
<1>5. Spelled(p, q) \in Paths
  BY <1>2, <1>3, <1>4, NonEmptyPath
<1>6. ASSUME NEW r \in DOMAIN tree, q \in Above(r)
      PROVE  Spelled(p, q) \in Above(Spelled(p, r))
  <2>1. /\ r \in Seq(Names) /\ q \in Seq(Names)
        /\ r = R \/ R \in Above(r)
    BY <1>3, <1>6, KindCases, PathLength, AboveOrder
  <2>2. Len(q) \in 1..(Len(r) - 1) /\ \A i \in 1..Len(q) : q[i] = r[i]
    BY <1>6, <2>1, AboveDef
  <2>3. PICK a, b : a = Spelled(p, q) /\ b = Spelled(p, r)
    OBVIOUS
  <2>4. /\ a \in Seq(Names) /\ Len(a) = Len(p) + Len(q) - Len(R) /\ Len(R) <= Len(q)
        /\ \A i \in 1..Len(p) : a[i] = p[i]
        /\ \A i \in Len(p) + 1..Len(p) + Len(q) - Len(R) : a[i] = q[i - Len(p) + Len(R)]
    BY <1>3, <1>4, <2>3
  <2>5. /\ b \in Seq(Names) /\ Len(b) = Len(p) + Len(r) - Len(R)
        /\ \A i \in 1..Len(p) : b[i] = p[i]
        /\ \A i \in Len(p) + 1..Len(p) + Len(r) - Len(R) : b[i] = r[i - Len(p) + Len(R)]
    BY <1>4, <2>1, <2>3
  <2>6. Len(r) \in Nat /\ Len(q) \in Nat
    BY <2>1, LenProperties
  <2>7. ASSUME NEW i \in 1..Len(a) PROVE a[i] = b[i]
    <3>1. CASE i <= Len(p)
      BY <1>2, <2>4, <2>5, <3>1
    <3>2. CASE i > Len(p)
      <4>1. /\ i \in Len(p) + 1..Len(p) + Len(q) - Len(R)
            /\ i \in Len(p) + 1..Len(p) + Len(r) - Len(R)
            /\ i - Len(p) + Len(R) \in 1..Len(q)
        BY <1>2, <2>2, <2>4, <2>6, <3>2
      <4> QED BY <2>2, <2>4, <2>5, <4>1
    <3> QED BY <1>2, <3>1, <3>2
  <2>8. Len(a) \in 1..(Len(b) - 1)
    BY <1>2, <2>2, <2>4, <2>5, <2>6
  <2> QED BY <2>3, <2>4, <2>5, <2>7, <2>8, AboveDef
<1> QED BY <1>5, <1>6

\* A whiteout removes all that is below what it removes.
LEMMA LowerPartClosed ==
    ASSUME IsFileSystem(tree), created \subseteq Paths, NEW p \in Paths,
           NEW q \in LowerPart(p), NEW r \in DOMAIN tree, q \in Above(r)
    PROVE  r \in LowerPart(p)
<1>1. PICK R \in Paths : R = Real(tree, p)
  BY PathLength, RealPath
<1>2. q \in Under(tree, R) /\ q \in DOMAIN tree /\ (q = R \/ R \in Above(q))
  BY <1>1, UnderDef DEF LowerPart
<1>3. r \in Seq(Names) /\ r \in Under(tree, R)
  <2>1. r \in Seq(Names) BY KindCases, PathLength
  <2> QED BY <1>1, <1>2, <2>1, UnderDef, AboveOrder
<1>4. Kind(tree, q) = "dir"
  BY DEF IsFileSystem
<1>5. PICK a, b : a = Spelled(p, q) /\ b = Spelled(p, r)
  OBVIOUS
<1>6. a \in Paths /\ b \in Paths /\ a \in Above(b)
  BY <1>1, <1>2, <1>3, <1>5, SpelledAbove
<1>7. \A c \in created : a \notin Above(c)
  BY <1>4, <1>5, <1>6, PrefixDef, PathLength DEF LowerPart
<1>8. b \notin created
  BY <1>6, <1>7
<1>9. \A c \in created : ~IsStrictPrefix(b, c)
  <2> TAKE c \in created
  <2>1. c \in Seq(Names) BY PathLength
  <2>2. b \notin Above(c)
    BY <1>6, <1>7, <2>1, AboveOrder
  <2> QED BY <1>6, <2>1, <2>2, PrefixDef
<1> QED BY <1>1, <1>3, <1>5, <1>8, <1>9 DEF LowerPart

Waiting(made) == {e \in Entries : e.kind = "hardlink" /\ e.path \in made}

LEMMA ReadsType ==
    ASSUME TypeOK, NEW e \in Entries, Reads(e)
    PROVE  /\ lower' = lower /\ status = "reading" /\ through' \in BOOLEAN
           /\ archive' = Append(archive, e) /\ archive' \in Seq(Entries)
BY AppendProperties DEF Reads, TypeOK

LEMMA FailType ==
    ASSUME TypeOK, NEW e \in Entries, Reads(e), Fail
    PROVE  TypeOK'
<1>1. /\ lower' \in Lowers /\ through' \in BOOLEAN /\ archive' \in Seq(Entries)
  BY ReadsType DEF TypeOK
<1>2. UNCHANGED <<tree, created, links, modes>> /\ status' = "failed"
  BY DEF Fail
<1>3. IsFileSystem(tree') /\ created' \subseteq Paths
  BY <1>2 DEF TypeOK
<1>4. links' \in Seq({x \in Entries : x.kind = "hardlink" /\ x.path \in created'})
  BY <1>2 DEF TypeOK
<1>5. modes' \subseteq [path : created', open : BOOLEAN]
  BY <1>2 DEF TypeOK
<1> QED BY <1>1, <1>2, <1>3, <1>4, <1>5 DEF TypeOK

\* What an entry that is extracted does to the other variables.
LEMMA CreateType ==
    ASSUME TypeOK, NEW e \in Entries, e.kind # "opaque", Reads(e),
           created' = created \cup {e.path}, IsFileSystem(tree'), status' = status,
           links' = links \/ (e.kind = "hardlink" /\ links' = Append(links, e)),
           modes' = modes \/ modes' = modes \cup {[path |-> e.path, open |-> Opens(e.mode)]}
    PROVE  TypeOK'
<1>1. /\ lower' \in Lowers /\ through' \in BOOLEAN /\ archive' \in Seq(Entries)
      /\ e.path \in Paths /\ Opens(e.mode) \in BOOLEAN
  BY ReadsType, EntryType DEF TypeOK
<1>2. created' \subseteq Paths
  BY <1>1 DEF TypeOK
<1>3. links \in Seq(Waiting(created'))
  <2>1. links \in Seq(Waiting(created))
    BY DEF TypeOK, Waiting
  <2>2. Waiting(created) \subseteq Waiting(created')
    BY DEF Waiting
  <2> QED BY <2>1, <2>2, SeqMonotonic
<1>4. links' \in Seq(Waiting(created'))
  <2>1. CASE links' = links
    BY <1>3, <2>1
  <2>2. CASE e.kind = "hardlink" /\ links' = Append(links, e)
    <3>1. e \in Waiting(created')
      BY <2>2 DEF Waiting
    <3> QED BY <1>3, <2>2, <3>1, AppendProperties
  <2> QED BY <2>1, <2>2
<1>5. modes' \subseteq [path : created', open : BOOLEAN]
  <2>1. modes \subseteq [path : created', open : BOOLEAN]
    BY DEF TypeOK
  <2>2. [path |-> e.path, open |-> Opens(e.mode)] \in [path : created', open : BOOLEAN]
    BY <1>1
  <2> QED BY <2>1, <2>2
<1>6. links' \in Seq({x \in Entries : x.kind = "hardlink" /\ x.path \in created'})
  BY <1>4 DEF Waiting
<1> QED BY <1>1, <1>2, <1>5, <1>6 DEF TypeOK

LEMMA DirType ==
    ASSUME TypeOK, NEW e \in Entries, ExtractDir(e)
    PROVE  TypeOK'
<1> DEFINE p == Real(tree, e.path)
           kept == Kind(tree, p) = "dir"
           base == IF kept THEN tree ELSE Removed(tree, p)
           ok == ~Blocked(e) /\ (kept \/ (Removable(tree, p) /\ CanPut(base, p)))
<1>1. Reads(e) /\ e.kind = "dir" /\ IsFileSystem(tree)
  BY DEF ExtractDir, TypeOK
<1>2. CASE Fail
  BY <1>1, <1>2, FailType
<1>3. CASE /\ ok
           /\ tree' = IF kept THEN tree ELSE With(MadeAbove(base, p), p, Dir(TRUE))
           /\ modes' = modes \cup {[path |-> e.path, open |-> Opens(e.mode)]}
           /\ created' = created \cup {e.path}
           /\ UNCHANGED <<links, status>>
  <2>1. IsFileSystem(tree')
    <3>1. CASE kept
      BY <1>1, <1>3, <3>1
    <3>2. CASE ~kept
      <4>1. e.path \in Paths /\ e.path \in Seq(Names)
        BY <1>1, EntryType
      <4>2. PICK r \in Paths : r = p
        BY <1>1, <4>1, RealPath
      <4>3. tree' = With(MadeAbove(Removed(tree, r), r), r, Dir(TRUE))
        BY <1>3, <3>2, <4>2
      <4>4. \A q \in Above(r) : Kind(tree, q) \in {"dir", "none"}
        BY <1>3, <4>2, NotBlocked
      <4>5. IsFileSystem(With(MadeAbove(Removed(tree, r), r), r, Dir(TRUE)))
        BY <1>1, <4>4, Placing, NodeType
      <4> QED BY <4>3, <4>5
    <3> QED BY <3>1, <3>2
  <2> QED BY <1>1, <1>3, <2>1, CreateType
<1> QED BY <1>2, <1>3 DEF ExtractDir

LEMMA ReplacesType ==
    ASSUME TypeOK, NEW e \in Entries, e.kind # "opaque", Reads(e),
           NEW node \in Nodes, Replaces(e, node)
    PROVE  TypeOK'
<1> DEFINE p == Real(tree, e.path)
           base == Removed(tree, p)
           ok == ~Blocked(e) /\ Removable(tree, p) /\ CanPut(base, p)
<1>1. CASE Fail
  BY <1>1, FailType
<1>2. CASE /\ ok
           /\ tree' = With(MadeAbove(base, p), p, node)
           /\ created' = created \cup {e.path}
           /\ UNCHANGED <<links, modes, status>>
  <2>1. e.path \in Paths /\ e.path \in Seq(Names) /\ IsFileSystem(tree)
    BY EntryType DEF TypeOK
  <2>2. PICK r \in Paths : r = p
    BY <2>1, RealPath
  <2>3. \A q \in Above(r) : Kind(tree, q) \in {"dir", "none"}
    BY <1>2, <2>2, NotBlocked
  <2>4. IsFileSystem(With(MadeAbove(Removed(tree, r), r), r, node))
    BY <2>1, <2>3, Placing
  <2>5. IsFileSystem(tree')
    BY <1>2, <2>2, <2>4
  <2> QED BY <1>2, <2>5, CreateType
<1> QED BY <1>1, <1>2 DEF Replaces

LEMMA HardlinkType ==
    ASSUME TypeOK, NEW e \in Entries, ExtractHardlink(e)
    PROVE  TypeOK'
<1> DEFINE p == Real(tree, e.path)
           base == MadeAbove(Removed(tree, p), p)
           from == Real(base, e.to)
           ok == /\ ~Blocked(e) /\ Removable(tree, p) /\ CanPut(Removed(tree, p), p)
                 /\ ~Stray(base, e.to) /\ Kind(base, from) # "dir"
<1>1. Reads(e) /\ e.kind = "hardlink" /\ IsFileSystem(tree)
  BY DEF ExtractHardlink, TypeOK
<1>2. CASE Fail
  BY <1>1, <1>2, FailType
<1>3. CASE /\ ok
           /\ created' = created \cup {e.path}
           /\ IF Exists(base, from)
                THEN tree' = With(base, p, base[from]) /\ UNCHANGED links
                ELSE tree' = base /\ links' = Append(links, e)
           /\ UNCHANGED <<modes, status>>
  <2>1. e.path \in Paths /\ e.path \in Seq(Names)
    BY <1>1, EntryType
  <2>2. PICK r \in Paths : r = p
    BY <1>1, <2>1, RealPath
  <2>3. \A q \in Above(r) : Kind(tree, q) \in {"dir", "none"}
    BY <1>3, <2>2, NotBlocked
  <2>4. PICK made : made = MadeAbove(Removed(tree, r), r)
    OBVIOUS
  <2>5. /\ IsFileSystem(made)
        /\ \A node \in Nodes : IsFileSystem(With(made, r, node))
    BY <1>1, <2>3, <2>4, Placing
  <2>6. base = made
    BY <2>2, <2>4
  <2>7. IsFileSystem(tree')
    <3>1. CASE Exists(base, from)
      <4>1. base[from] \in Nodes
        BY <2>5, <2>6, <3>1, KindCases DEF Exists
      <4> QED BY <1>3, <2>2, <2>5, <2>6, <3>1, <4>1
    <3>2. CASE ~Exists(base, from)
      BY <1>3, <2>5, <2>6, <3>2
    <3> QED BY <3>1, <3>2
  <2> QED BY <1>1, <1>3, <2>7, CreateType
<1> QED BY <1>2, <1>3 DEF ExtractHardlink

LEMMA HidesType ==
    ASSUME TypeOK, NEW e \in Entries, Reads(e), NEW ps \in SUBSET Paths, Hides(e, ps)
    PROVE  TypeOK'
<1> DEFINE gone == UNION {LowerPart(p) : p \in ps}
           ok == ~Stray(tree, e.path) /\ \A q \in gone : Writable(tree, q)
<1>1. CASE Fail
  BY <1>1, FailType
<1>2. CASE /\ ok /\ tree' = Without(tree, gone)
           /\ UNCHANGED <<created, links, modes, status>>
  <2>1. IsFileSystem(tree) /\ created \subseteq Paths
    BY DEF TypeOK
  <2>2. \A q \in gone, r \in DOMAIN tree : q \in Above(r) => r \in gone
    BY <2>1, LowerPartClosed
  <2>3. IsFileSystem(tree')
    BY <1>2, <2>1, <2>2, WithoutKeeps
  <2>4. /\ lower' \in Lowers /\ through' \in BOOLEAN /\ archive' \in Seq(Entries)
    BY ReadsType DEF TypeOK
  <2>5. links' \in Seq({x \in Entries : x.kind = "hardlink" /\ x.path \in created'})
    BY <1>2 DEF TypeOK
  <2> QED BY <1>2, <2>3, <2>4, <2>5 DEF TypeOK
<1> QED BY <1>1, <1>2 DEF Hides

\* The names an opaque whiteout hides are in its directory.
LEMMA OpaqueNames ==
    ASSUME IsFileSystem(tree), NEW parent \in Seq(Names), NEW at,
           NEW q \in Children(tree, at)
    PROVE  /\ q \in Paths /\ Last(q) \in Names /\ Append(parent, Last(q)) \in Paths
           /\ Front(q) = at /\ q = Append(at, Last(q))
<1>1. /\ q \in Paths /\ q \in Seq(Names) /\ Len(q) \in Nat \ {0} /\ Front(q) = at
  BY KindCases, PathLength DEF Children
<1>2. Last(q) \in Names
  BY <1>1, ElementOfSeq DEF Last
<1>3. Append(parent, Last(q)) \in Paths
  BY <1>2, AppendProperties DEF Paths
<1>4. q = Append(at, Last(q))
  <2>1. at \in Seq(Names) /\ Len(at) = Len(q) - 1 /\ \A i \in 1..(Len(q) - 1) : at[i] = q[i]
    BY <1>1, FrontDef
  <2>2. PICK x \in Names : x = q[Len(q)]
    BY <1>2 DEF Last
  <2>3. PICK a : a = Append(at, x)
    OBVIOUS
  <2>4. /\ a \in Seq(Names) /\ Len(a) = Len(at) + 1
        /\ \A i \in 1..Len(at) : a[i] = at[i]
        /\ a[Len(at) + 1] = x
    BY <2>1, <2>2, <2>3, AppendProperties
  <2>5. Len(a) = Len(q) /\ \A i \in 1..Len(a) : a[i] = q[i]
    BY <1>1, <2>1, <2>2, <2>4
  <2>6. a = q
    BY <1>1, <2>4, <2>5, SeqEqual
  <2> QED BY <2>2, <2>3, <2>6 DEF Last
<1> QED BY <1>1, <1>2, <1>3, <1>4

LEMMA EntryStepType ==
    ASSUME TypeOK, NEW e \in Entries, Extract(e)
    PROVE  TypeOK'
<1>1. CASE ExtractDir(e)
  BY <1>1, DirType
<1>2. CASE ExtractFile(e)
  BY <1>2, ReplacesType, NodeType DEF ExtractFile
<1>3. CASE ExtractSymlink(e)
  BY <1>3, ReplacesType, NodeType, EntryType DEF ExtractSymlink
<1>4. CASE ExtractHardlink(e)
  BY <1>4, HardlinkType
<1>5. CASE Whiteout(e)
  <2>1. {e.path} \in SUBSET Paths
    BY <1>5, EntryType DEF Whiteout
  <2> QED BY <1>5, <2>1, HidesType DEF Whiteout
<1>6. CASE Opaque(e)
  <2>1. CASE Fail
    BY <1>6, <2>1, FailType DEF Opaque
  <2>2. CASE Hides(e, {Append(e.path, Last(q)) : q \in Children(tree, Final(tree, e.path))})
    <3>1. PICK ps : ps = {Append(e.path, Last(q)) : q \in Children(tree, Final(tree, e.path))}
      OBVIOUS
    <3>2. PICK at : at = Final(tree, e.path)
      OBVIOUS
    <3>3. IsFileSystem(tree) /\ e.path \in Seq(Names)
      BY EntryType DEF TypeOK
    <3>4. ASSUME NEW q \in Children(tree, at)
          PROVE  Append(e.path, Last(q)) \in Paths
      BY <3>3, OpaqueNames
    <3>5. ps \in SUBSET Paths
      BY <3>1, <3>2, <3>4
    <3> QED BY <1>6, <2>2, <3>1, <3>5, HidesType DEF Opaque
  <2> QED BY <1>6, <2>1, <2>2 DEF Opaque
<1>7. CASE Special(e)
  <2>1. CASE Fail
    BY <1>7, <2>1, FailType DEF Special
  <2>2. CASE UNCHANGED <<tree, created, links, modes, status>>
    <3>1. /\ lower' \in Lowers /\ through' \in BOOLEAN /\ archive' \in Seq(Entries)
      BY <1>7, ReadsType DEF TypeOK, Special
    <3>2. links' \in Seq({x \in Entries : x.kind = "hardlink" /\ x.path \in created'})
      BY <2>2 DEF TypeOK
    <3> QED BY <2>2, <3>1, <3>2 DEF TypeOK
  <2> QED BY <1>7, <2>1, <2>2 DEF Special
<1> QED BY <1>1, <1>2, <1>3, <1>4, <1>5, <1>6, <1>7 DEF Extract

\* Entries that wait for the end have a path and a target that is no directory.
LEMMA LinkType ==
    ASSUME TypeOK, links # <<>>
    PROVE  /\ Head(links) \in Entries /\ Head(links).kind = "hardlink"
           /\ Head(links).path \in created
           /\ Tail(links) \in Seq(Waiting(created))
<1>1. links \in Seq(Waiting(created))
  BY DEF TypeOK, Waiting
<1>2. Head(links) \in Waiting(created) /\ Tail(links) \in Seq(Waiting(created))
  BY <1>1, HeadTailProperties
<1> QED BY <1>2 DEF Waiting

LEMMA MakeLinkTree ==
    ASSUME TypeOK, MakeLink, CanLink(tree, Head(links))
    PROVE  LET r == Real(tree, Head(links).path)
               from == Real(tree, Head(links).to)
           IN  /\ r \in Paths /\ r \notin DOMAIN tree /\ from \in DOMAIN tree
               /\ tree[from] \in Nodes /\ tree[from].kind \in {"file", "link"}
               /\ \A q \in Above(r) : Kind(tree, q) = "dir"
               /\ IsFileSystem(tree') /\ DOMAIN tree' = DOMAIN tree \cup {r}
               /\ \A q \in DOMAIN tree' : tree'[q] = IF q = r THEN tree[from] ELSE tree[q]
<1>1. PICK e \in Entries : e = Head(links) /\ e.kind = "hardlink"
  BY LinkType DEF MakeLink
<1>2. IsFileSystem(tree) /\ e.path \in Paths /\ e.path \in Seq(Names)
  BY <1>1, EntryType DEF TypeOK
<1>3. PICK r \in Paths : r = Real(tree, e.path)
  BY <1>2, RealPath
<1>4. PICK from : from = Real(tree, e.to)
  OBVIOUS
<1>5. /\ r \notin DOMAIN tree /\ from \in DOMAIN tree /\ Kind(tree, Front(r)) = "dir"
      /\ Kind(tree, from) # "dir"
  BY <1>1, <1>3, <1>4 DEF CanLink, Exists
<1>6. tree[from] \in Nodes /\ tree[from].kind \in {"file", "link"}
  BY <1>2, <1>5, KindCases DEF Nodes
<1>7. ASSUME NEW q \in Above(r)
      PROVE  Kind(tree, q) = "dir"
  <2>1. CASE q = Front(r)
    BY <1>5, <2>1
  <2>2. CASE q \in Above(Front(r))
    <3>1. Front(r) \in DOMAIN tree
      <4>1. q # <<>> /\ Front(r) # <<>>
        BY <2>2, FrontDef, AbovePath DEF Paths
      <4> QED BY <1>2, <1>5, <4>1, KindCases
    <3> QED BY <1>2, <2>2, <3>1 DEF IsFileSystem
  <2> QED BY <1>7, <2>1, <2>2, FrontAbove
<1>8. \A x \in DOMAIN tree : r \notin Above(x)
  BY <1>2, <1>5, DirsAbove
<1>9. tree' = With(tree, r, tree[from])
  BY <1>1, <1>3, <1>4 DEF MakeLink
<1>10. /\ IsFileSystem(tree') /\ DOMAIN tree' = DOMAIN tree \cup {r}
       /\ \A q \in DOMAIN tree' : tree'[q] = IF q = r THEN tree[from] ELSE tree[q]
  <2>1. PICK node \in Nodes : node = tree[from]
    BY <1>6
  <2>2. IsFileSystem(With(tree, r, node)) /\ Added(tree, r, node, With(tree, r, node))
    <3>1. IsFileSystem(tree)
      BY <1>2
    <3>2. \A q \in Above(r) : Kind(tree, q) = "dir"
      BY <1>7
    <3>3. node.kind = "dir" \/ \A x \in DOMAIN tree : r \notin Above(x)
      BY <1>8
    <3> QED BY <1>3, <3>1, <3>2, <3>3, WithKeeps
  <2>3. Added(tree, r, node, tree')
    BY <1>9, <2>1, <2>2
  <2> QED BY <1>9, <2>1, <2>2, <2>3 DEF Added
<1> QED BY <1>1, <1>3, <1>4, <1>5, <1>6, <1>7, <1>10

LEMMA ModeTree ==
    ASSUME IsFileSystem(tree), NEW p \in DOMAIN tree, NEW open \in BOOLEAN,
           tree' = IF Kind(tree, p) = "dir" THEN [tree EXCEPT ![p].open = open] ELSE tree
    PROVE  /\ IsFileSystem(tree') /\ DOMAIN tree' = DOMAIN tree
           /\ \A q \in DOMAIN tree :
                /\ q # p => tree'[q] = tree[q]
                /\ tree'[q].kind = tree[q].kind /\ tree'[q].data = tree[q].data
                /\ tree'[q].to = tree[q].to
           /\ tree[p].kind = "dir" => tree'[p].open = open
<1>1. tree[p] \in Nodes /\ p # <<>> /\ Kind(tree, p) = tree[p].kind
  BY KindCases DEF Paths
<1>2. PICK u : u = tree'
  OBVIOUS
<1>3. /\ DOMAIN u = DOMAIN tree
      /\ \A q \in DOMAIN tree :
           /\ q # p => u[q] = tree[q]
           /\ u[q].kind = tree[q].kind /\ u[q].data = tree[q].data
           /\ u[q].to = tree[q].to /\ u[q] \in Nodes
      /\ tree[p].kind = "dir" => u[p].open = open
  BY <1>1, <1>2 DEF IsFileSystem, Nodes
<1>4. u \in [DOMAIN u -> Nodes]
  <2>1. CASE Kind(tree, p) = "dir"
    <3>1. u = [tree EXCEPT ![p].open = open]
      BY <1>2, <2>1
    <3>2. u = [q \in DOMAIN tree |-> u[q]]
      BY <3>1 DEF IsFileSystem
    <3> QED BY <1>3, <3>2
  <2>2. CASE Kind(tree, p) # "dir"
    BY <1>2, <2>2 DEF IsFileSystem
  <2> QED BY <2>1, <2>2
<1>5. \A q : Kind(u, q) = Kind(tree, q)
  BY <1>3 DEF Kind, Exists
<1>6. IsFileSystem(u)
  BY <1>3, <1>4, <1>5 DEF IsFileSystem
<1> QED BY <1>2, <1>3, <1>6

LEMMA NextType ==
    ASSUME TypeOK, [Next]_vars
    PROVE  TypeOK'
<1>1. ASSUME NEW e \in Entries, Extract(e) PROVE TypeOK'
  BY <1>1, EntryStepType
<1>2. ASSUME NEW e \in Entries, Unread(e) PROVE TypeOK'
  <2>1. archive' \in Seq(Entries)
    BY <1>2, AppendProperties DEF Unread, TypeOK
  <2>2. UNCHANGED <<lower, tree, created, links, modes, through, status>>
    BY <1>2 DEF Unread
  <2> QED BY <2>1, <2>2 DEF TypeOK
<1>3. CASE EndOfArchive \/ Finish \/ Validate
  <2>1. UNCHANGED <<lower, tree, archive, created, links, modes, through>>
    BY <1>3 DEF EndOfArchive, Finish, Validate
  <2>2. status' \in {"ending", "read", "usable", "unusable"}
    BY <1>3 DEF EndOfArchive, Finish, Validate
  <2> QED BY <2>1, <2>2 DEF TypeOK
<1>4. CASE MakeLink
  <2>1. UNCHANGED <<lower, archive, created, modes>> /\ through' \in BOOLEAN
    BY <1>4 DEF MakeLink, TypeOK
  <2>2. CASE ~CanLink(tree, Head(links))
    <3>1. UNCHANGED <<tree, links>> /\ status' = "unfinished"
      BY <1>4, <2>2 DEF MakeLink
    <3> QED BY <2>1, <3>1 DEF TypeOK
  <2>3. CASE CanLink(tree, Head(links))
    <3>1. IsFileSystem(tree')
      BY <1>4, <2>3, MakeLinkTree
    <3>2. status' = status /\ links' = Tail(links)
      BY <1>4, <2>3 DEF MakeLink
    <3>3. links' \in Seq({e \in Entries : e.kind = "hardlink" /\ e.path \in created'})
      BY <1>4, <2>1, <3>2, LinkType DEF MakeLink, Waiting
    <3> QED BY <2>1, <3>1, <3>2, <3>3 DEF TypeOK
  <2> QED BY <2>2, <2>3
<1>5. ASSUME NEW m \in modes, ApplyMode(m) PROVE TypeOK'
  <2>1. UNCHANGED <<lower, archive, created, links, through>>
    BY <1>5 DEF ApplyMode
  <2>2. /\ status' \in {status, "unfinished"} /\ modes' \in {modes, modes \ {m}}
        /\ status = "ending"
    BY <1>5 DEF ApplyMode
  <2>3. IsFileSystem(tree')
    <3>1. CASE Exists(tree, Final(tree, m.path))
      <4>1. PICK p : p = Final(tree, m.path)
        OBVIOUS
      <4>2. p \in DOMAIN tree /\ m.open \in BOOLEAN /\ IsFileSystem(tree)
        BY <3>1, <4>1 DEF Exists, TypeOK
      <4>3. tree' = IF Kind(tree, p) = "dir" THEN [tree EXCEPT ![p].open = m.open] ELSE tree
        BY <1>5, <3>1, <4>1 DEF ApplyMode
      <4> QED BY <4>2, <4>3, ModeTree
    <3>2. CASE ~Exists(tree, Final(tree, m.path))
      BY <1>5, <3>2 DEF ApplyMode, TypeOK
    <3> QED BY <3>1, <3>2
  <2> QED BY <2>1, <2>2, <2>3 DEF TypeOK
<1>6. CASE UNCHANGED vars
  BY <1>6 DEF vars, TypeOK
<1> QED BY <1>1, <1>2, <1>3, <1>4, <1>5, <1>6 DEF Next

\* The variables keep their types, and what applyLayer leaves is at every step a
\* tree: all that exists is in directories.
THEOREM TypeCorrect == Spec => []TypeOK
<1>1. Init => TypeOK
  BY LowersAssumption, EmptySeq DEF Init, TypeOK
<1>2. TypeOK /\ [Next]_vars => TypeOK'
  BY NextType
<1> QED BY <1>1, <1>2, PTL DEF Spec

-----------------------------------------------------------------------------
(* The invariant: what the tree holds, told from the archive so far.  It is *)
(* stated for a root l, a tree t, an archive a and waiting links k.         *)

\* Nodes that differ in nothing but their modes.
Same(m, n)     == m.kind = n.kind /\ m.data = n.data /\ m.to = n.to
Holds(t, p, n) == p \in DOMAIN t /\ Same(t[p], n)

Pending(k, p) == \E n \in DOMAIN k : k[n].path = p

\* A hard link waits in vain: something is at its path, or what it would be in
\* is listed as something else than a directory.
Doomed(t, a, k) == \E n \in DOMAIN k : Exists(t, k[n].path) \/ Buried(a, k[n].path)

\* created and links tell what was listed, and a link waits once.
Recorded(a, c, k) ==
    /\ c = {a[i].path : i \in Listed(a)}
    /\ \A n \in DOMAIN k : \E i \in Listed(a) : a[i] = k[n]
    /\ \A m, n \in DOMAIN k : k[m].path = k[n].path => m = n

\* What nothing later replaces is there: entries that need no target, ...
PlainThere(l, t, a) ==
    \A i \in Listed(a) : a[i].kind # "hardlink" /\ ~Replaced(a, a[i].path, i) =>
        Holds(t, a[i].path, Placed(l, a, a[i]))

\* ... the directories above an entry, ...
MadeThere(t, a) ==
    \A i \in Listed(a) : \A p \in Above(a[i].path) :
        For(a, p) = {} /\ ~Replaced(a, p, i) => Kind(t, p) = "dir"

\* ... what the whiteouts leave of the lower layers, ...
LowerThere(l, t, a) ==
    \A p \in DOMAIN Visible(l, a) : For(a, p) = {} /\ ~Buried(a, p) =>
        p \in DOMAIN t /\ (Holding(a, p) = {} => Same(t[p], l[p]))

\* ... and nothing else.
Accounted(l, t, a) ==
    \A p \in DOMAIN t :
        \/ \E i \in For(a, p) \cup Holding(a, p) : ~Replaced(a, p, i)
        \/ p \in DOMAIN Visible(l, a) /\ For(a, p) = {} /\ ~Buried(a, p)

\* What is listed as no directory is one, waits to be made, or went with
\* something above it of which that is true.
Stump(t, k, p) == Pending(k, p) \/ Kind(t, p) \in {"file", "link"}
Stumps(t, a, k) ==
    \A i \in Listed(a) : a[i].kind # "dir" =>
        \E j \in Listed(a) :
            /\ a[j].kind # "dir" /\ Stump(t, k, a[j].path)
            /\ a[j].path \in Above(a[i].path) \cup {a[i].path}

\* So an entry below what is listed before and is no directory dooms a link.
Below(a) ==
    \E i, j \in Listed(a) : i < j /\ a[i].kind # "dir" /\ a[i].path \in Above(a[j].path)
BelowDooms(t, a, k) == Below(a) => Doomed(t, a, k)

\* The targets of hard links, as Grounded tells them.
FromEarlier(a, i) ==
    ~Buried(a, a[i].to) /\ \E j \in For(a, a[i].to) : j < i /\ a[j].kind = "file"
FromLower(l, a, i) ==
    /\ ~Buried(a, a[i].to) /\ For(a, a[i].to) = {}
    /\ Kind(Visible(l, a), a[i].to) = "file"
FromLater(l, a, i) ==
    /\ ~Buried(a, a[i].to) /\ ~Exists(l, a[i].to) /\ Clean(l, a[i].to)
    /\ \A j \in For(a, a[i].to) : j > i /\ a[j].kind = "file"

\* The hard link of entry i is what it should be, while entries may come and
\* after.
HardIs(l, t, a, k, reading, i) ==
    /\ FromEarlier(a, i) => Holds(t, a[i].path, File("new"))
    /\ FromLower(l, a, i) => Holds(t, a[i].path, l[a[i].to])
    /\ FromLater(l, a, i) =>
        \/ Pending(k, a[i].path)
        \/ ~reading /\ (For(a, a[i].to) = {} \/ Holds(t, a[i].path, File("new")))
HardThere(l, t, a, k, reading) ==
    \A i \in Listed(a) : a[i].kind = "hardlink" /\ ~Replaced(a, a[i].path, i) =>
        HardIs(l, t, a, k, reading, i)

Layering(l, t, a, c, k, reading) ==
    /\ Recorded(a, c, k)
    /\ PlainThere(l, t, a) /\ MadeThere(t, a) /\ LowerThere(l, t, a)
    /\ (~reading /\ Doomed(t, a, k)) \/ Accounted(l, t, a)
    /\ Stumps(t, a, k) /\ BelowDooms(t, a, k) /\ HardThere(l, t, a, k, reading)

\* The states the properties are about.
Regular  == status \in {"reading", "ending", "read"} /\ ~through /\ Once(archive)
LayerInv ==
    /\ Regular /\ status = "reading" => Layering(lower, tree, archive, created, links, TRUE)
    /\ Regular /\ status # "reading" => Layering(lower, tree, archive, created, links, FALSE)
    /\ status = "read" => links = <<>> /\ modes = {}

-----------------------------------------------------------------------------
(* An archive with one more entry.                                         *)

Grows(a, e, b) == b = Append(a, e)
Lists(e) == e.kind \in ListedKinds

LEMMA Appended ==
    ASSUME NEW a \in Seq(Entries), NEW e \in Entries, NEW b \in Seq(Entries),
           Grows(a, e, b)
    PROVE  /\ Len(b) \in Nat
           /\ DOMAIN b = DOMAIN a \cup {Len(b)} /\ b[Len(b)] = e
           /\ \A i \in DOMAIN a : i \in Nat /\ i < Len(b) /\ b[i] = a[i] /\ a[i] \in Entries
<1>0. b = Append(a, e)
  BY DEF Grows
<1>1. Len(a) \in Nat /\ DOMAIN a = 1..Len(a)
  BY <1>0, LenProperties
<1>2. /\ b \in Seq(Entries) /\ Len(b) = Len(a) + 1 /\ b[Len(a) + 1] = e
      /\ \A i \in 1..Len(a) : b[i] = a[i]
  BY <1>0, AppendProperties
<1>3. DOMAIN b = 1..(Len(a) + 1)
  BY <1>2, LenProperties
<1>4. \A i \in DOMAIN a : a[i] \in Entries
  BY <1>0, <1>1, ElementOfSeq
<1> QED BY <1>0, <1>1, <1>2, <1>3, <1>4

LEMMA ListedType ==
    ASSUME NEW a \in Seq(Entries), NEW i \in Listed(a)
    PROVE  /\ i \in Nat /\ i > 0 /\ a[i] \in Entries /\ a[i].path \in Paths
           /\ a[i].path \in Seq(Names) /\ a[i].to \in Seq(Names)
           /\ a[i].kind \in ListedKinds
<1>1. i \in 1..Len(a) /\ Len(a) \in Nat
  BY LenProperties DEF Listed
<1>2. a[i] \in Entries /\ a[i].kind \in ListedKinds
  BY <1>1, ElementOfSeq DEF Listed
<1>3. a[i].kind # "opaque"
  BY <1>2 DEF ListedKinds
<1> QED BY <1>1, <1>2, <1>3, EntryType

\* An entry that lists a path ...
LEMMA ListedMore ==
    ASSUME NEW a \in Seq(Entries), NEW e \in Entries, NEW b \in Seq(Entries),
           Grows(a, e, b), Lists(e), NEW n, n = Len(b)
    PROVE  /\ n \in Nat /\ b[n] = e /\ n \notin Listed(a)
           /\ Listed(b) = Listed(a) \cup {n}
           /\ \A i \in Listed(a) : i < n /\ b[i] = a[i]
           /\ \A p : /\ For(b, p) = For(a, p) \cup {i \in {n} : e.path = p}
                     /\ Holding(b, p) = Holding(a, p) \cup {i \in {n} : p \in Above(e.path)}
                     /\ Buried(b, p) <=> \/ Buried(a, p)
                                         \/ e.kind # "dir" /\ e.path \in Above(p)
                     /\ \A i \in Listed(a) :
                          Replaced(b, p, i) <=> \/ Replaced(a, p, i)
                                                \/ e.kind # "dir" /\ e.path \in Above(p)
                     /\ ~Replaced(b, p, n)
<1>0. /\ n \in Nat /\ DOMAIN b = DOMAIN a \cup {n} /\ b[n] = e
      /\ \A i \in DOMAIN a : i \in Nat /\ i < n /\ b[i] = a[i]
  BY ZenonT(30), Appended
<1>1. /\ n \in Nat /\ n \notin DOMAIN a /\ DOMAIN b = DOMAIN a \cup {n} /\ b[n] = e
      /\ \A i \in DOMAIN a : i \in Nat /\ i < n /\ b[i] = a[i]
  BY <1>0
<1>2. Listed(b) = Listed(a) \cup {n} /\ Listed(a) \subseteq DOMAIN a
  BY <1>1 DEF Listed, Lists
<1>3. \A i \in Listed(a) : i \in Nat /\ i < n /\ b[i] = a[i]
  BY <1>1, <1>2
<1>4. ASSUME NEW p
      PROVE  Burying(b, p) = Burying(a, p) \cup
                                {i \in {n} : e.kind # "dir" /\ e.path \in Above(p)}
  BY <1>1, <1>2, <1>3 DEF Burying
<1>5. ASSUME NEW p
      PROVE  /\ For(b, p) = For(a, p) \cup {i \in {n} : e.path = p}
             /\ Holding(b, p) = Holding(a, p) \cup {i \in {n} : p \in Above(e.path)}
  BY <1>1, <1>2, <1>3 DEF For, Holding
<1>6. ASSUME NEW p
      PROVE  Buried(b, p) <=> Buried(a, p) \/ (e.kind # "dir" /\ e.path \in Above(p))
  BY <1>4 DEF Buried
<1>7. \A p : Burying(a, p) \subseteq Listed(a)
  BY DEF Burying
<1>8. ASSUME NEW p
      PROVE  /\ \A i \in Listed(a) :
                  Replaced(b, p, i) <=> \/ Replaced(a, p, i)
                                        \/ e.kind # "dir" /\ e.path \in Above(p)
             /\ ~Replaced(b, p, n)
  <2>1. \A j \in Burying(b, p) : j \in Nat /\ (j < n \/ j = n)
    BY <1>1, <1>3, <1>4, <1>7
  <2>2. \A i \in Listed(a) : i < n
    BY <1>3
  <2>3. ~Replaced(b, p, n)
    BY <1>1, <2>1 DEF Replaced
  <2>4. ASSUME NEW i \in Listed(a)
        PROVE  Replaced(b, p, i) <=> \/ Replaced(a, p, i)
                                     \/ e.kind # "dir" /\ e.path \in Above(p)
    <3>1. i \in Nat /\ n > i
      BY <1>1, <1>3
    <3> QED BY <1>4, <3>1 DEF Replaced
  <2> QED BY <2>3, <2>4
<1> QED BY <1>1, <1>2, <1>3, <1>5, <1>6, <1>8

\* ... and one that lists none.
LEMMA ListedSame ==
    ASSUME NEW a \in Seq(Entries), NEW e \in Entries, NEW b \in Seq(Entries),
           Grows(a, e, b), ~Lists(e)
    PROVE  /\ Listed(b) = Listed(a)
           /\ \A i \in Listed(a) : b[i] = a[i]
           /\ \A p : /\ For(b, p) = For(a, p) /\ Holding(b, p) = Holding(a, p)
                     /\ Buried(b, p) <=> Buried(a, p)
                     /\ \A i : Replaced(b, p, i) <=> Replaced(a, p, i)
<1>1. /\ DOMAIN b = DOMAIN a \cup {Len(b)} /\ b[Len(b)] = e
      /\ \A i \in DOMAIN a : b[i] = a[i]
  BY ZenonT(30), Appended
<1>2. Listed(b) = Listed(a) /\ Listed(a) \subseteq DOMAIN a
  BY <1>1 DEF Listed, Lists
<1>3. \A i \in Listed(a) : b[i] = a[i]
  BY <1>1, <1>2
<1>4. \A p : Burying(b, p) = Burying(a, p)
  BY <1>2, <1>3 DEF Burying
<1>5. \A p : For(b, p) = For(a, p) /\ Holding(b, p) = Holding(a, p)
  BY <1>2, <1>3 DEF For, Holding
<1> QED BY <1>2, <1>3, <1>4, <1>5 DEF Buried, Replaced

\* What a whiteout hides.
HiddenBy(e, p) ==
    \/ e.kind = "whiteout" /\ IsPrefix(e.path, p)
    \/ e.kind = "opaque" /\ IsPrefix(e.path, p) /\ p # e.path

LEMMA VisibleDef ==
    ASSUME NEW l, NEW a
    PROVE  /\ \A p : p \in DOMAIN Visible(l, a) <=>
                        p \in DOMAIN l /\ \A i \in DOMAIN a : ~HiddenBy(a[i], p)
           /\ \A p \in DOMAIN Visible(l, a) : Visible(l, a)[p] = l[p]
<1>1. PICK gone, w, o :
        /\ w = {Under(l, e.path) : e \in Of(a, "whiteout")}
        /\ o = {Under(l, e.path) \ {e.path} : e \in Of(a, "opaque")}
        /\ gone = (UNION w) \cup (UNION o)
  OBVIOUS
<1>2. ASSUME NEW p \in DOMAIN l
      PROVE  p \in gone <=> \E i \in DOMAIN a : HiddenBy(a[i], p)
  <2>1. ASSUME NEW x \in w, p \in x PROVE \E i \in DOMAIN a : HiddenBy(a[i], p)
    <3>1. PICK e \in Of(a, "whiteout") : x = Under(l, e.path)
      BY <1>1
    <3>2. PICK i \in DOMAIN a : a[i] = e /\ e.kind = "whiteout"
      BY <3>1 DEF Of
    <3> QED BY <2>1, <3>1, <3>2 DEF Under, HiddenBy
  <2>2. ASSUME NEW x \in o, p \in x PROVE \E i \in DOMAIN a : HiddenBy(a[i], p)
    <3>1. PICK e \in Of(a, "opaque") : x = Under(l, e.path) \ {e.path}
      BY <1>1
    <3>2. PICK i \in DOMAIN a : a[i] = e /\ e.kind = "opaque"
      BY <3>1 DEF Of
    <3> QED BY <2>2, <3>1, <3>2 DEF Under, HiddenBy
  <2>3. ASSUME NEW i \in DOMAIN a, HiddenBy(a[i], p) PROVE p \in gone
    <3>1. PICK e : e = a[i]
      OBVIOUS
    <3>2. e \in Of(a, e.kind)
      BY <3>1 DEF Of
    <3>3. CASE e.kind = "whiteout" /\ IsPrefix(e.path, p)
      <4>1. Under(l, e.path) \in w
        BY <1>1, <3>2, <3>3
      <4>2. p \in Under(l, e.path)
        BY <3>3 DEF Under
      <4>3. p \in UNION w
        BY <4>1, <4>2
      <4> QED BY <1>1, <4>3
    <3>4. CASE e.kind = "opaque" /\ IsPrefix(e.path, p) /\ p # e.path
      <4>1. Under(l, e.path) \ {e.path} \in o
        BY <1>1, <3>2, <3>4
      <4>2. PICK x : x = Under(l, e.path) \ {e.path}
        OBVIOUS
      <4>3. p \in x
        BY <3>4, <4>2 DEF Under
      <4>4. x \in o
        BY <4>1, <4>2
      <4>5. p \in UNION o
        BY <4>3, <4>4
      <4>6. gone = (UNION w) \cup (UNION o)
        BY <1>1
      <4> QED BY <4>5, <4>6
    <3> QED BY <2>3, <3>1, <3>3, <3>4 DEF HiddenBy
  <2>4. ASSUME p \in gone
        PROVE  \E x \in w \cup o : p \in x
    <3>1. gone = (UNION w) \cup (UNION o)
      BY <1>1
    <3> QED BY <2>4, <3>1
  <2> QED BY <2>1, <2>2, <2>3, <2>4
<1>3. Visible(l, a) = Without(l, gone)
  BY <1>1 DEF Visible
<1> QED BY <1>2, <1>3 DEF Without

LEMMA VisibleLess ==
    ASSUME NEW l, NEW a \in Seq(Entries), NEW e \in Entries, NEW b \in Seq(Entries),
           Grows(a, e, b)
    PROVE  /\ \A p : p \in DOMAIN Visible(l, b) <=>
                        p \in DOMAIN Visible(l, a) /\ ~HiddenBy(e, p)
           /\ \A p : Kind(Visible(l, b), p) # "none" =>
                        Kind(Visible(l, b), p) = Kind(Visible(l, a), p)
<1>1. /\ DOMAIN b = DOMAIN a \cup {Len(b)} /\ b[Len(b)] = e
      /\ \A i \in DOMAIN a : b[i] = a[i]
  BY ZenonT(30), Appended
<1>2. ASSUME NEW p
      PROVE  p \in DOMAIN Visible(l, b) <=>
                p \in DOMAIN Visible(l, a) /\ ~HiddenBy(e, p)
  <2>1. p \in DOMAIN Visible(l, b) <=>
            p \in DOMAIN l /\ \A i \in DOMAIN b : ~HiddenBy(b[i], p)
    BY VisibleDef
  <2>2. p \in DOMAIN Visible(l, a) <=>
            p \in DOMAIN l /\ \A i \in DOMAIN a : ~HiddenBy(a[i], p)
    BY VisibleDef
  <2> QED BY <1>1, <2>1, <2>2
<1> QED BY <1>2, VisibleDef DEF Kind, Exists

LEMMA OnceBefore ==
    ASSUME NEW a \in Seq(Entries), NEW e \in Entries, NEW b \in Seq(Entries),
           Grows(a, e, b), Once(b)
    PROVE  Once(a) /\ (Lists(e) => \A i \in Listed(a) : a[i].path # e.path)
<1>1. CASE Lists(e)
  <2>1. PICK n : n = Len(b)
    OBVIOUS
  <2>2. /\ b[n] = e /\ n \notin Listed(a) /\ Listed(b) = Listed(a) \cup {n}
        /\ \A i \in Listed(a) : b[i] = a[i]
    BY <1>1, <2>1, ListedMore
  <2> QED BY <2>2 DEF Once
<1>2. CASE ~Lists(e)
  <2>1. Listed(b) = Listed(a) /\ \A i \in Listed(a) : b[i] = a[i]
    BY <1>2, ListedSame
  <2> QED BY <1>2, <2>1 DEF Once
<1> QED BY <1>1, <1>2

-----------------------------------------------------------------------------
(* An entry that lists a path.                                             *)

\* What extracting it does to the tree: directories above it, nothing below it
\* unless it is a directory, and the rest as it was.
Put(t, u, e, waits) ==
    /\ \A q \in Above(e.path) :
        Kind(t, q) \in {"dir", "none"} /\ q \in DOMAIN u /\ Kind(u, q) = "dir"
    /\ \A q \in DOMAIN t : q # e.path /\ (e.path \in Above(q) => e.kind = "dir") =>
        q \in DOMAIN u /\ u[q] = t[q]
    /\ \A q \in DOMAIN u : q # e.path /\ q \notin Above(e.path) =>
        q \in DOMAIN t /\ (e.path \in Above(q) => e.kind = "dir")
    /\ e.kind = "dir" => Kind(u, e.path) = "dir"
    /\ e.kind = "file" => Holds(u, e.path, File("new"))
    /\ e.kind = "symlink" => Holds(u, e.path, Link(e.to))
    /\ e.kind = "hardlink" => Kind(u, e.path) \in (IF waits THEN {"none"} ELSE {"file", "link"})

LEMMA SameNode ==
    ASSUME NEW t, IsFileSystem(t), NEW p \in Paths
    PROVE  /\ Kind(t, p) = "dir" => \A open : Holds(t, p, Dir(open))
           /\ Kind(t, p) # "none" <=> p \in DOMAIN t
           /\ \A n : Holds(t, p, n) => p \in DOMAIN t /\ Kind(t, p) = n.kind
<1>1. p # <<>>
  BY DEF Paths
<1>2. p \in DOMAIN t => /\ Kind(t, p) = t[p].kind /\ t[p].kind # "none"
                        /\ t[p].kind = "dir" => t[p].data = "none" /\ t[p].to = <<>>
  BY KindCases DEF Nodes
<1>3. p \notin DOMAIN t => Kind(t, p) = "none"
  BY <1>1, KindCases
<1> QED BY <1>2, <1>3 DEF Holds, Same, Dir

LEMMA PutPlain ==
    ASSUME NEW l, NEW t, NEW u, NEW waits, IsFileSystem(t), IsFileSystem(u),
           NEW a \in Seq(Entries), NEW e \in Entries, NEW b \in Seq(Entries),
           Grows(a, e, b), Lists(e), Once(b), Put(t, u, e, waits), PlainThere(l, t, a)
    PROVE  PlainThere(l, u, b)
<1>1. PICK n : n = Len(b)
  OBVIOUS
<1>2. /\ b[n] = e /\ Listed(b) = Listed(a) \cup {n}
      /\ \A i \in Listed(a) : b[i] = a[i]
      /\ \A p : \A i \in Listed(a) :
           Replaced(b, p, i) <=> Replaced(a, p, i) \/ (e.kind # "dir" /\ e.path \in Above(p))
  BY <1>1, ListedMore
<1>3. \A i \in Listed(a) : a[i].path # e.path
  BY OnceBefore
<1>4. e.path \in Paths
  BY EntryType DEF Lists, ListedKinds
<1> SUFFICES ASSUME NEW i \in Listed(b), b[i].kind # "hardlink",
                    ~Replaced(b, b[i].path, i)
             PROVE  Holds(u, b[i].path, Placed(l, b, b[i]))
  BY DEF PlainThere
<1>5. CASE i = n
  <2>1. CASE e.kind = "dir"
    <3>1. Holds(u, e.path, Dir(TRUE))
      BY <1>4, <2>1, SameNode DEF Put
    <3>2. Placed(l, b, e) = Dir(TRUE)
      BY <2>1 DEF Placed
    <3> QED BY <1>2, <1>5, <3>1, <3>2
  <2>2. CASE e.kind = "file"
    <3>1. Placed(l, b, e) = File("new")
      BY <2>2 DEF Placed
    <3> QED BY <1>2, <1>5, <2>2, <3>1 DEF Put
  <2>3. CASE e.kind = "symlink"
    <3>1. Placed(l, b, e) = Link(e.to)
      BY <2>3 DEF Placed
    <3> QED BY <1>2, <1>5, <2>3, <3>1 DEF Put
  <2>4. e.kind \in {"dir", "file", "symlink"}
    BY <1>2, <1>5 DEF Lists, ListedKinds
  <2> QED BY <2>1, <2>2, <2>3, <2>4
<1>6. CASE i \in Listed(a)
  <2>1. PICK x : x = a[i] /\ x = b[i]
    BY <1>2, <1>6
  <2>2. PICK p : p = x.path
    OBVIOUS
  <2>3. ~Replaced(a, p, i) /\ (e.path \in Above(p) => e.kind = "dir") /\ p # e.path
    BY <1>2, <1>3, <1>6, <2>1, <2>2
  <2>4. Holds(t, p, Placed(l, a, x))
    BY <1>6, <2>1, <2>2, <2>3 DEF PlainThere
  <2>5. p \in DOMAIN u /\ u[p] = t[p]
    BY <2>3, <2>4 DEF Put, Holds
  <2>6. Placed(l, b, x) = Placed(l, a, x)
    BY <1>6, <2>1, ListedType DEF Placed, ListedKinds
  <2> QED BY <2>1, <2>2, <2>4, <2>5, <2>6 DEF Holds
<1> QED BY <1>2, <1>5, <1>6

LEMMA PutMade ==
    ASSUME NEW t, NEW u, NEW waits, IsFileSystem(t), IsFileSystem(u),
           NEW a \in Seq(Entries), NEW e \in Entries, NEW b \in Seq(Entries),
           Grows(a, e, b), Lists(e), Put(t, u, e, waits), MadeThere(t, a)
    PROVE  MadeThere(u, b)
<1>1. PICK n : n = Len(b)
  OBVIOUS
<1>2. /\ b[n] = e /\ Listed(b) = Listed(a) \cup {n}
      /\ \A i \in Listed(a) : b[i] = a[i]
      /\ \A p : For(b, p) = For(a, p) \cup {i \in {n} : e.path = p}
      /\ \A p : \A i \in Listed(a) :
           Replaced(b, p, i) <=> Replaced(a, p, i) \/ (e.kind # "dir" /\ e.path \in Above(p))
  BY <1>1, ListedMore
<1> SUFFICES ASSUME NEW i \in Listed(b), NEW p \in Above(b[i].path),
                    For(b, p) = {}, ~Replaced(b, p, i)
             PROVE  Kind(u, p) = "dir"
  BY DEF MadeThere
<1>3. CASE i = n
  BY <1>2, <1>3 DEF Put
<1>4. CASE i \in Listed(a)
  <2>1. /\ p \in Above(a[i].path) /\ For(a, p) = {} /\ ~Replaced(a, p, i)
        /\ p # e.path /\ (e.path \in Above(p) => e.kind = "dir")
    BY <1>2, <1>4
  <2>2. Kind(t, p) = "dir"
    BY <1>4, <2>1 DEF MadeThere
  <2>3. p \in Paths
    BY <1>4, <2>1, ListedType, AbovePath
  <2>4. p \in DOMAIN t
    BY <2>2, <2>3, SameNode
  <2>5. p \in DOMAIN u /\ u[p] = t[p]
    BY <2>1, <2>4 DEF Put
  <2> QED BY <2>2, <2>4, <2>5 DEF Kind, Exists
<1> QED BY <1>2, <1>3, <1>4

LEMMA PutLower ==
    ASSUME NEW l, NEW t, NEW u, NEW waits,
           NEW a \in Seq(Entries), NEW e \in Entries, NEW b \in Seq(Entries),
           Grows(a, e, b), Lists(e), Put(t, u, e, waits), LowerThere(l, t, a)
    PROVE  LowerThere(l, u, b)
<1>1. PICK n : n = Len(b)
  OBVIOUS
<1>2. /\ \A p : For(b, p) = For(a, p) \cup {i \in {n} : e.path = p}
      /\ \A p : Holding(b, p) = Holding(a, p) \cup {i \in {n} : p \in Above(e.path)}
      /\ \A p : Buried(b, p) <=> Buried(a, p) \/ (e.kind # "dir" /\ e.path \in Above(p))
  BY <1>1, ListedMore
<1> SUFFICES ASSUME NEW p \in DOMAIN Visible(l, b), For(b, p) = {}, ~Buried(b, p)
             PROVE  p \in DOMAIN u /\ (Holding(b, p) = {} => Same(u[p], l[p]))
  BY DEF LowerThere
<1>3. p \in DOMAIN Visible(l, a)
  BY VisibleLess
<1>4. /\ For(a, p) = {} /\ ~Buried(a, p) /\ p # e.path
      /\ e.path \in Above(p) => e.kind = "dir"
      /\ Holding(b, p) = {} => Holding(a, p) = {}
  BY <1>2
<1>5. p \in DOMAIN t /\ (Holding(a, p) = {} => Same(t[p], l[p]))
  BY <1>3, <1>4 DEF LowerThere
<1>6. p \in DOMAIN u /\ u[p] = t[p]
  BY <1>4, <1>5 DEF Put
<1> QED BY <1>4, <1>5, <1>6

LEMMA PutAccounted ==
    ASSUME NEW l, NEW t, NEW u, NEW waits,
           NEW a \in Seq(Entries), NEW e \in Entries, NEW b \in Seq(Entries),
           Grows(a, e, b), Lists(e), Put(t, u, e, waits), Accounted(l, t, a)
    PROVE  Accounted(l, u, b)
<1>1. PICK n : n = Len(b)
  OBVIOUS
<1>2. \A p : /\ For(b, p) = For(a, p) \cup {i \in {n} : e.path = p}
             /\ Holding(b, p) = Holding(a, p) \cup {i \in {n} : p \in Above(e.path)}
             /\ Buried(b, p) <=> Buried(a, p) \/ (e.kind # "dir" /\ e.path \in Above(p))
             /\ \A i \in Listed(a) : Replaced(b, p, i) <=>
                    Replaced(a, p, i) \/ (e.kind # "dir" /\ e.path \in Above(p))
             /\ ~Replaced(b, p, n)
  BY <1>1, ListedMore
<1> SUFFICES ASSUME NEW p \in DOMAIN u
             PROVE  \/ \E i \in For(b, p) \cup Holding(b, p) : ~Replaced(b, p, i)
                    \/ p \in DOMAIN Visible(l, b) /\ For(b, p) = {} /\ ~Buried(b, p)
  BY DEF Accounted
<1>3. CASE p = e.path \/ p \in Above(e.path)
  BY <1>2, <1>3
<1>4. CASE p # e.path /\ p \notin Above(e.path)
  <2>1. p \in DOMAIN t /\ (e.path \in Above(p) => e.kind = "dir")
    BY <1>4 DEF Put
  <2>2. CASE \E i \in For(a, p) \cup Holding(a, p) : ~Replaced(a, p, i)
    <3>1. PICK i \in For(a, p) \cup Holding(a, p) : ~Replaced(a, p, i)
      BY <2>2
    <3>2. i \in Listed(a)
      BY <3>1 DEF For, Holding
    <3> QED BY <1>2, <2>1, <3>1, <3>2
  <2>3. CASE p \in DOMAIN Visible(l, a) /\ For(a, p) = {} /\ ~Buried(a, p)
    <3>1. p \in DOMAIN Visible(l, b)
      <4>1. ~HiddenBy(e, p)
        BY DEF HiddenBy, Lists, ListedKinds
      <4> QED BY <2>3, <4>1, VisibleLess
    <3>2. For(b, p) = {} /\ ~Buried(b, p)
      BY <1>2, <1>4, <2>1, <2>3
    <3> QED BY <3>1, <3>2
  <2> QED BY <2>1, <2>2, <2>3 DEF Accounted
<1> QED BY <1>3, <1>4

\* The links that wait: what the archive lists, none of them twice.
Waits(k, m, e, waits) == m = IF waits THEN Append(k, e) ELSE k

LEMMA WaitsMore ==
    ASSUME NEW k \in Seq(Entries), NEW e \in Entries, NEW waits, NEW m, Waits(k, m, e, waits)
    PROVE  /\ \A x \in DOMAIN k : x \in DOMAIN m /\ m[x] = k[x]
           /\ \A x \in DOMAIN m : (x \in DOMAIN k /\ m[x] = k[x]) \/ (waits /\ m[x] = e)
           /\ \A x, y \in DOMAIN m : x \notin DOMAIN k /\ y \notin DOMAIN k => x = y
           /\ waits => \E x \in DOMAIN m : m[x] = e
           /\ \A p : Pending(k, p) => Pending(m, p)
           /\ waits => Pending(m, e.path)
<1>1. CASE ~waits
  BY <1>1 DEF Waits
<1>2. CASE waits
  <2>1. m = Append(k, e) /\ Len(k) \in Nat /\ DOMAIN k = 1..Len(k)
    BY <1>2, LenProperties DEF Waits
  <2>2. /\ m \in Seq(Entries) /\ Len(m) = Len(k) + 1 /\ m[Len(k) + 1] = e
        /\ \A i \in 1..Len(k) : m[i] = k[i]
    BY <2>1, AppendProperties
  <2>3. DOMAIN m = 1..(Len(k) + 1)
    BY <2>2, LenProperties
  <2>4. /\ \A x \in DOMAIN k : x \in DOMAIN m /\ m[x] = k[x]
        /\ \A x \in DOMAIN m : x \in DOMAIN k \/ x = Len(k) + 1
        /\ Len(k) + 1 \in DOMAIN m
    BY <2>1, <2>2, <2>3
  <2>5. \A x \in DOMAIN m : (x \in DOMAIN k /\ m[x] = k[x]) \/ (waits /\ m[x] = e)
    BY <1>2, <2>2, <2>4
  <2>6. \A x, y \in DOMAIN m : x \notin DOMAIN k /\ y \notin DOMAIN k => x = y
    BY <2>4
  <2>7. \E x \in DOMAIN m : m[x] = e
    BY <2>2, <2>4
  <2>8. \A p : Pending(k, p) => Pending(m, p)
    BY <2>4 DEF Pending
  <2>9. Pending(m, e.path)
    BY <2>7 DEF Pending
  <2> QED BY <2>4, <2>5, <2>6, <2>7, <2>8, <2>9
<1> QED BY <1>1, <1>2

LEMMA PutRecorded ==
    ASSUME NEW waits, NEW c, NEW k \in Seq(Entries), NEW m,
           NEW a \in Seq(Entries), NEW e \in Entries, NEW b \in Seq(Entries),
           Grows(a, e, b), Lists(e), Once(b), Recorded(a, c, k), Waits(k, m, e, waits)
    PROVE  Recorded(b, c \cup {e.path}, m)
<1>1. PICK n : n = Len(b)
  OBVIOUS
<1>2. /\ b[n] = e /\ n \in Listed(b) /\ Listed(b) = Listed(a) \cup {n}
      /\ \A i \in Listed(a) : b[i] = a[i]
  BY <1>1, ListedMore
<1>3. \A i \in Listed(a) : a[i].path # e.path
  BY OnceBefore
<1>4. /\ c = {a[i].path : i \in Listed(a)}
      /\ \A x \in DOMAIN k : \E i \in Listed(a) : a[i] = k[x]
      /\ \A x, y \in DOMAIN k : k[x].path = k[y].path => x = y
  BY DEF Recorded
<1>5. c \cup {e.path} = {b[i].path : i \in Listed(b)}
  <2>1. ASSUME NEW p \in c \cup {e.path} PROVE \E i \in Listed(b) : b[i].path = p
    BY <1>2, <1>4
  <2>2. ASSUME NEW i \in Listed(b) PROVE b[i].path \in c \cup {e.path}
    BY <1>2, <1>4
  <2> QED BY <2>1, <2>2
<1>6. /\ \A x \in DOMAIN m : (x \in DOMAIN k /\ m[x] = k[x]) \/ m[x] = e
      /\ \A x, y \in DOMAIN m : x \notin DOMAIN k /\ y \notin DOMAIN k => x = y
      /\ \A x \in DOMAIN k : x \in DOMAIN m /\ m[x] = k[x]
  BY WaitsMore
<1>7. ASSUME NEW x \in DOMAIN m PROVE \E i \in Listed(b) : b[i] = m[x]
  <2>1. CASE x \in DOMAIN k /\ m[x] = k[x]
    <3>1. PICK i \in Listed(a) : a[i] = k[x]
      BY <1>4, <2>1
    <3> QED BY <1>2, <2>1, <3>1
  <2> QED BY <1>2, <1>6, <2>1
<1>8. ASSUME NEW x \in DOMAIN m, NEW y \in DOMAIN m, m[x].path = m[y].path
      PROVE  x = y
  <2>1. ASSUME NEW z \in DOMAIN k PROVE k[z].path # e.path
    BY <1>3, <1>4
  <2>2. CASE x \in DOMAIN k /\ y \in DOMAIN k
    BY <1>4, <1>6, <1>8, <2>2
  <2>3. CASE x \in DOMAIN k /\ y \notin DOMAIN k
    BY <1>6, <1>8, <2>1, <2>3
  <2>4. CASE x \notin DOMAIN k /\ y \in DOMAIN k
    BY <1>6, <1>8, <2>1, <2>4
  <2>5. CASE x \notin DOMAIN k /\ y \notin DOMAIN k
    BY <1>6, <2>5
  <2> QED BY <2>2, <2>3, <2>4, <2>5
<1> QED BY <1>5, <1>7, <1>8 DEF Recorded

\* A stump stays one, or the entry is above it and is one.
LEMMA PutStumps ==
    ASSUME NEW t, NEW u, NEW waits, IsFileSystem(t), IsFileSystem(u),
           NEW k \in Seq(Entries), NEW m, NEW e \in Entries, Waits(k, m, e, waits),
           NEW a \in Seq(Entries), NEW b \in Seq(Entries), Grows(a, e, b), Lists(e), Once(b), Put(t, u, e, waits), Stumps(t, a, k)
    PROVE  Stumps(u, b, m)
<1>1. PICK n : n = Len(b)
  OBVIOUS
<1>2. /\ b[n] = e /\ n \in Listed(b) /\ Listed(b) = Listed(a) \cup {n}
      /\ \A i \in Listed(a) : b[i] = a[i]
  BY <1>1, ListedMore
<1>3. \A i \in Listed(a) : a[i].path # e.path
  BY OnceBefore
<1>4. e.kind # "dir" => Stump(u, m, e.path)
  <2>1. CASE e.kind = "hardlink" /\ waits
    BY <2>1, WaitsMore DEF Stump
  <2>2. CASE e.kind = "hardlink" /\ ~waits
    BY <2>2 DEF Put, Stump
  <2>3. CASE e.kind \in {"file", "symlink"}
    <3>1. e.path \in Paths
      BY EntryType DEF Lists, ListedKinds
    <3>2. Kind(u, e.path) \in {"file", "link"}
      BY <2>3, <3>1, SameNode DEF Put, File, Link
    <3> QED BY <3>2 DEF Stump
  <2> QED BY <2>1, <2>2, <2>3 DEF Lists, ListedKinds
<1> SUFFICES ASSUME NEW i \in Listed(b), b[i].kind # "dir"
             PROVE  \E j \in Listed(b) :
                      /\ b[j].kind # "dir" /\ Stump(u, m, b[j].path)
                      /\ b[j].path \in Above(b[i].path) \cup {b[i].path}
  BY DEF Stumps
<1>5. CASE i = n
  BY <1>2, <1>4, <1>5
<1>6. CASE i \in Listed(a)
  <2>1. PICK p \in Seq(Names) : p = a[i].path /\ p = b[i].path
    BY <1>2, <1>6, ListedType
  <2>2. PICK j \in Listed(a) : /\ a[j].kind # "dir" /\ Stump(t, k, a[j].path)
                               /\ a[j].path \in Above(p) \cup {p}
    BY <1>2, <1>6, <2>1 DEF Stumps
  <2>3. PICK s \in Paths : s = a[j].path /\ s = b[j].path
    BY <1>2, <2>2, ListedType
  <2>4. s # e.path /\ j \in Listed(b) /\ b[j].kind # "dir" /\ s \in Above(p) \cup {p}
    BY <1>2, <1>3, <2>2, <2>3
  <2>5. CASE Pending(k, s)
    <3>1. Stump(u, m, s)
      BY <2>5, WaitsMore DEF Stump
    <3> QED BY <2>1, <2>3, <2>4, <3>1
  <2>6. CASE Kind(t, s) \in {"file", "link"}
    <3>1. s \in DOMAIN t
      BY <2>6, SameNode
    <3>2. CASE e.path \in Above(s) => e.kind = "dir"
      <4>1. s \in DOMAIN u /\ u[s] = t[s]
        BY <2>4, <3>1, <3>2 DEF Put
      <4>2. Stump(u, m, s)
        BY <2>6, <3>1, <4>1 DEF Stump, Kind, Exists
      <4> QED BY <2>1, <2>3, <2>4, <4>2
    <3>3. CASE e.path \in Above(s) /\ e.kind # "dir"
      <4>1. e.path \in Above(p)
        BY <2>1, <2>4, <3>3, AboveOrder
      <4> QED BY <1>2, <1>4, <2>1, <3>3, <4>1
    <3> QED BY <3>2, <3>3
  <2> QED BY <2>2, <2>3, <2>5, <2>6 DEF Stump
<1> QED BY <1>2, <1>5, <1>6

\* What dooms a link dooms it for good, and an entry below a stump dooms one.
LEMMA PutBelow ==
    ASSUME NEW t, NEW u, NEW waits, NEW c, IsFileSystem(t), IsFileSystem(u),
           NEW k \in Seq(Entries), NEW m, NEW e \in Entries, Waits(k, m, e, waits),
           NEW a \in Seq(Entries), NEW b \in Seq(Entries), Grows(a, e, b), Lists(e), Once(b), Put(t, u, e, waits),
           Recorded(a, c, k), Stumps(t, a, k), BelowDooms(t, a, k)
    PROVE  BelowDooms(u, b, m)
<1>1. PICK n : n = Len(b)
  OBVIOUS
<1>2. /\ b[n] = e /\ n \in Nat /\ Listed(b) = Listed(a) \cup {n}
      /\ \A i \in Listed(a) : i < n /\ b[i] = a[i]
      /\ \A p : Buried(b, p) <=> Buried(a, p) \/ (e.kind # "dir" /\ e.path \in Above(p))
  BY <1>1, ListedMore
<1>3. \A i \in Listed(a) : a[i].path # e.path
  BY OnceBefore
<1>4. \A x \in DOMAIN k : x \in DOMAIN m /\ m[x] = k[x]
  BY WaitsMore
<1> SUFFICES ASSUME NEW i \in Listed(b), NEW j \in Listed(b), i < j, b[i].kind # "dir",
                    b[i].path \in Above(b[j].path)
             PROVE  Doomed(u, b, m)
  BY DEF BelowDooms, Below
<1>5. i \in Listed(a)
  BY <1>2, ListedType
<1>6. CASE j \in Listed(a)
  <2>1. Below(a)
    BY <1>2, <1>5, <1>6 DEF Below
  <2>2. PICK x \in DOMAIN k : Exists(t, k[x].path) \/ Buried(a, k[x].path)
    BY <2>1 DEF BelowDooms, Doomed
  <2>3. PICK p : p = k[x].path
    OBVIOUS
  <2>4. p # e.path
    BY <1>3, <2>3 DEF Recorded
  <2>5. CASE Buried(a, p) \/ (e.kind # "dir" /\ e.path \in Above(p))
    <3>1. Buried(b, p)
      BY <1>2, <2>5
    <3> QED BY <1>4, <2>3, <3>1 DEF Doomed
  <2>6. CASE p \in DOMAIN t /\ (e.path \in Above(p) => e.kind = "dir")
    <3>1. Exists(u, p)
      BY <2>4, <2>6 DEF Put, Exists
    <3> QED BY <1>4, <2>3, <3>1 DEF Doomed
  <2> QED BY <2>2, <2>3, <2>5, <2>6 DEF Exists
<1>7. CASE j = n
  <2>1. a[i].kind # "dir" /\ a[i].path \in Above(e.path)
    BY <1>2, <1>5, <1>7
  <2>2. PICK h \in Listed(a) : /\ Stump(t, k, a[h].path)
                               /\ a[h].path \in Above(a[i].path) \cup {a[i].path}
    BY <1>5, <2>1 DEF Stumps
  <2>3. PICK s \in Paths : s = a[h].path
    BY <2>2, ListedType
  <2>4. s \in Above(e.path)
    <3>1. PICK q : q = a[i].path
      OBVIOUS
    <3>2. q \in Above(e.path) /\ e.path \in Seq(Names) /\ (s = q \/ s \in Above(q))
      BY <2>1, <2>2, <2>3, <3>1, EntryType
    <3> QED BY <3>2, AboveOrder
  <2>5. Kind(t, s) \in {"dir", "none"} /\ s \in DOMAIN u
    BY <2>4 DEF Put
  <2>6. Pending(k, s)
    BY <2>2, <2>3, <2>5 DEF Stump
  <2>7. PICK x \in DOMAIN k : k[x].path = s
    BY <2>6 DEF Pending
  <2>8. x \in DOMAIN m /\ m[x].path = s /\ Exists(u, s)
    BY <1>4, <2>5, <2>7 DEF Exists
  <2> QED BY <2>8 DEF Doomed
<1> QED BY <1>2, <1>6, <1>7

\* Where the target of a link comes from is not changed by a later entry.
LEMMA TargetsBefore ==
    ASSUME NEW l, NEW a \in Seq(Entries), NEW e \in Entries, NEW b \in Seq(Entries),
           Grows(a, e, b), NEW i \in Listed(a), i \in Listed(b)
    PROVE  /\ b[i] = a[i]
           /\ FromEarlier(b, i) => FromEarlier(a, i)
           /\ FromLower(l, b, i) => FromLower(l, a, i)
           /\ FromLater(l, b, i) => FromLater(l, a, i)
<1>1. CASE Lists(e)
  <2>1. PICK n : n = Len(b)
    OBVIOUS
  <2>2. /\ Listed(b) = Listed(a) \cup {n} /\ n \in Nat
        /\ \A j \in Listed(a) : j < n /\ b[j] = a[j]
        /\ \A p : For(b, p) = For(a, p) \cup {j \in {n} : e.path = p}
        /\ \A p : Buried(b, p) <=> Buried(a, p) \/ (e.kind # "dir" /\ e.path \in Above(p))
    BY <1>1, <2>1, ListedMore
  <2>3. PICK to : to = a[i].to /\ to = b[i].to
    BY <2>2
  <2>4. /\ For(a, to) \subseteq For(b, to) /\ For(a, to) \subseteq Listed(a)
        /\ \A j \in For(b, to) : j \in For(a, to) \/ j = n
        /\ ~Buried(b, to) => ~Buried(a, to)
    BY <2>2 DEF For
  <2>5. i < n /\ i \in Nat
    BY <2>2, ListedType
  <2>6. FromEarlier(b, i) => FromEarlier(a, i)
    <3> SUFFICES ASSUME FromEarlier(b, i) PROVE FromEarlier(a, i)
      OBVIOUS
    <3>1. PICK j \in For(b, to) : j < i /\ b[j].kind = "file"
      BY <2>3 DEF FromEarlier
    <3>2. j \in For(a, to) /\ j \in Listed(a)
      BY <2>2, <2>4, <2>5, <3>1
    <3>3. a[j].kind = "file"
      BY <2>2, <3>1, <3>2
    <3>4. ~Buried(a, to)
      BY <2>3, <2>4 DEF FromEarlier
    <3> QED BY <2>3, <3>1, <3>2, <3>3, <3>4 DEF FromEarlier
  <2>7. FromLower(l, b, i) => FromLower(l, a, i)
    <3>1. Kind(Visible(l, b), to) = "file" => Kind(Visible(l, a), to) = "file"
      BY VisibleLess
    <3> QED BY <2>3, <2>4, <3>1 DEF FromLower
  <2>8. FromLater(l, b, i) => FromLater(l, a, i)
    BY <2>2, <2>3, <2>4 DEF FromLater
  <2> QED BY <2>2, <2>6, <2>7, <2>8
<1>2. CASE ~Lists(e)
  <2>1. /\ \A j \in Listed(a) : b[j] = a[j]
        /\ \A p : For(b, p) = For(a, p) /\ (Buried(b, p) <=> Buried(a, p))
        /\ \A p : For(a, p) \subseteq Listed(a)
    BY <1>2, ListedSame DEF For
  <2>2. PICK to : to = a[i].to /\ to = b[i].to
    BY <2>1
  <2>3. Kind(Visible(l, b), to) = "file" => Kind(Visible(l, a), to) = "file"
    BY VisibleLess
  <2>4. FromEarlier(b, i) => FromEarlier(a, i)
    BY <2>1, <2>2 DEF FromEarlier
  <2>5. FromLower(l, b, i) => FromLower(l, a, i)
    BY <2>1, <2>2, <2>3 DEF FromLower
  <2>6. FromLater(l, b, i) => FromLater(l, a, i)
    BY <2>1, <2>2 DEF FromLater
  <2> QED BY <2>1, <2>4, <2>5, <2>6
<1> QED BY <1>1, <1>2

\* So a hard link that is what it should be stays that when its path is kept.
LEMMA HardKept ==
    ASSUME NEW l, NEW t, NEW u, NEW a \in Seq(Entries), NEW e \in Entries,
           NEW b \in Seq(Entries), Grows(a, e, b), NEW k, NEW m,
           \A p : Pending(k, p) => Pending(m, p),
           NEW i \in Listed(a), i \in Listed(b),
           HardIs(l, t, a, k, TRUE, i),
           a[i].path \in DOMAIN t => a[i].path \in DOMAIN u /\ u[a[i].path] = t[a[i].path]
    PROVE  HardIs(l, u, b, m, TRUE, i)
<1>1. PICK p : p = a[i].path
  OBVIOUS
<1>2. /\ b[i] = a[i]
      /\ FromEarlier(b, i) => FromEarlier(a, i)
      /\ FromLower(l, b, i) => FromLower(l, a, i)
      /\ FromLater(l, b, i) => FromLater(l, a, i)
  BY TargetsBefore
<1>3. \A n : Holds(t, p, n) => Holds(u, p, n)
  BY <1>1 DEF Holds
<1>4. FromEarlier(b, i) => Holds(u, p, File("new"))
  BY <1>1, <1>2, <1>3 DEF HardIs
<1>5. PICK to : to = a[i].to /\ to = b[i].to
  BY <1>2
<1>6. FromLower(l, b, i) => Holds(u, p, l[to])
  BY <1>1, <1>2, <1>3, <1>5 DEF HardIs
<1>7. FromLater(l, b, i) => Pending(m, p)
  BY <1>1, <1>2 DEF HardIs
<1>8. p = b[i].path
  BY <1>1, <1>2
<1> QED BY <1>4, <1>5, <1>6, <1>7, <1>8 DEF HardIs

LEMMA PutHard ==
    ASSUME NEW l, NEW t, NEW u, NEW waits,
           NEW k \in Seq(Entries), NEW m, NEW e \in Entries, Waits(k, m, e, waits),
           NEW a \in Seq(Entries), NEW b \in Seq(Entries), Grows(a, e, b),
           Lists(e), Once(b), Put(t, u, e, waits), HardThere(l, t, a, k, TRUE),
           e.kind = "hardlink" => HardIs(l, u, b, m, TRUE, Len(b))
    PROVE  HardThere(l, u, b, m, TRUE)
<1>1. PICK n : n = Len(b)
  OBVIOUS
<1>2. /\ b[n] = e /\ Listed(b) = Listed(a) \cup {n}
      /\ \A i \in Listed(a) : b[i] = a[i]
      /\ \A p : \A i \in Listed(a) :
           Replaced(b, p, i) <=> Replaced(a, p, i) \/ (e.kind # "dir" /\ e.path \in Above(p))
  BY <1>1, ListedMore
<1>3. \A i \in Listed(a) : a[i].path # e.path
  BY OnceBefore
<1> SUFFICES ASSUME NEW i \in Listed(b), b[i].kind = "hardlink",
                    ~Replaced(b, b[i].path, i)
             PROVE  HardIs(l, u, b, m, TRUE, i)
  BY DEF HardThere
<1>4. CASE i = n
  BY <1>1, <1>2, <1>4
<1>5. CASE i \in Listed(a)
  <2>1. PICK p : p = a[i].path /\ p = b[i].path
    BY <1>2, <1>5
  <2>2. /\ a[i].kind = "hardlink" /\ ~Replaced(a, p, i) /\ p # e.path
        /\ e.path \in Above(p) => e.kind = "dir"
    BY <1>2, <1>3, <1>5, <2>1
  <2>3. HardIs(l, t, a, k, TRUE, i)
    BY <1>5, <2>1, <2>2 DEF HardThere
  <2>4. p \in DOMAIN t => p \in DOMAIN u /\ u[p] = t[p]
    BY <2>2 DEF Put
  <2>5. \A q : Pending(k, q) => Pending(m, q)
    BY WaitsMore
  <2>6. a[i].path \in DOMAIN t => a[i].path \in DOMAIN u /\ u[a[i].path] = t[a[i].path]
    BY <2>1, <2>4
  <2>7. i \in Listed(a) /\ i \in Listed(b) /\ a \in Seq(Entries) /\ b \in Seq(Entries)
    BY <1>5
  <2> QED BY <2>3, <2>5, <2>6, <2>7, HardKept
<1> QED BY <1>2, <1>4, <1>5

\* Where lower directories or nothing were, and no other than directories are
\* listed, there are directories or nothing still.
LEMMA CleanWay ==
    ASSUME NEW l, NEW t, IsFileSystem(l), IsFileSystem(t), NEW a \in Seq(Entries),
           PlainThere(l, t, a), MadeThere(t, a), LowerThere(l, t, a), Accounted(l, t, a),
           NEW p \in Seq(Names), ~Buried(a, p), NEW q \in Above(p),
           Kind(l, q) \in {"dir", "none"}
    PROVE  Kind(t, q) \in {"dir", "none"}
<1>0. q \in Paths
  BY AbovePath
<1>1. \A i \in Listed(a) : a[i].path \in Above(p) => a[i].kind = "dir"
  BY DEF Buried, Burying
<1>2. \A r \in Above(q) : r \in Above(p)
  BY AboveOrder
<1>3. ~Buried(a, q) /\ \A i : ~Replaced(a, q, i)
  BY <1>1, <1>2 DEF Buried, Burying, Replaced
<1>4. CASE For(a, q) # {}
  <2>1. PICK i \in Listed(a) : a[i].path = q
    BY <1>4 DEF For
  <2>2. a[i].kind = "dir"
    BY <1>1, <2>1
  <2>3. Holds(t, q, Placed(l, a, a[i]))
    BY <1>3, <2>1, <2>2 DEF PlainThere
  <2>4. Placed(l, a, a[i]) = Dir(TRUE)
    BY <2>2 DEF Placed
  <2>5. Kind(t, q) = "dir"
    BY <1>0, <2>3, <2>4, SameNode DEF Dir
  <2> QED BY <2>5
<1>5. CASE For(a, q) = {} /\ Holding(a, q) # {}
  <2>1. PICK i \in Listed(a) : q \in Above(a[i].path)
    BY <1>5 DEF Holding
  <2> QED BY <1>3, <1>5, <2>1 DEF MadeThere
<1>6. CASE For(a, q) = {} /\ Holding(a, q) = {}
  <2>1. CASE q \in DOMAIN t
    <3>1. q \in DOMAIN Visible(l, a)
      BY <1>6, <2>1 DEF Accounted
    <3>2. Same(t[q], l[q]) /\ q \in DOMAIN l
      BY <1>3, <1>6, <3>1, VisibleDef DEF LowerThere
    <3>3. t[q].kind = l[q].kind
      BY <3>2 DEF Same
    <3> QED BY <1>0, <2>1, <3>2, <3>3, KindCases
  <2>2. CASE q \notin DOMAIN t
    BY <1>0, <2>2, SameNode
  <2> QED BY <2>1, <2>2
<1> QED BY <1>4, <1>5, <1>6

LEMMA BasedKinds ==
    ASSUME NEW t, IsFileSystem(t), NEW p \in Paths, NEW base, Based(t, p, base)
    PROVE  /\ \A q \in Above(p) : Kind(base, q) = "dir"
           /\ \A q \in Paths : Kind(t, q) \in {"dir", "none"} => Kind(base, q) \in {"dir", "none"}
           /\ \A q \in DOMAIN t : q # p /\ p \notin Above(q) =>
                q \in DOMAIN base /\ base[q] = t[q]
<1>1. \A q \in Above(p) : q \in Paths
  BY PathLength, AbovePath
<1>2. \A q \in DOMAIN t : q # p /\ p \notin Above(q) => q \in DOMAIN base /\ base[q] = t[q]
  BY DEF Based
<1>3. ASSUME NEW q \in Paths, Kind(t, q) \in {"dir", "none"}
      PROVE  Kind(base, q) \in {"dir", "none"}
  <2>1. q \in DOMAIN t => t[q].kind = "dir"
    BY <1>3, SameNode, KindCases
  <2> QED BY <2>1 DEF Based, Kind, Exists, Dir
<1>4. ASSUME NEW q \in Above(p) PROVE Kind(base, q) = "dir"
  <2>1. q \in DOMAIN base /\ q # <<>>
    BY <1>1 DEF Based, Paths
  <2>2. Kind(base, q) \in {"dir", "none"}
    BY <1>1, <1>3 DEF Based
  <2>3. q \in DOMAIN t => t[q].kind = "dir"
    <3>1. q \in Paths /\ Kind(t, q) \in {"dir", "none"}
      BY <1>1 DEF Based
    <3> QED BY <2>1, <3>1, SameNode, KindCases
  <2> QED BY <2>1, <2>3 DEF Based, Kind, Exists, Dir
<1> QED BY <1>2, <1>3, <1>4

\* A hard link finds the file of its layer or the lower one, or it waits.
LEMMA HardlinkFound ==
    ASSUME NEW l, IsFileSystem(l), NEW t, IsFileSystem(t),
           NEW a \in Seq(Entries), NEW b \in Seq(Entries), NEW e \in Entries,
           Grows(a, e, b), e.kind = "hardlink", Once(b),
           PlainThere(l, t, a), MadeThere(t, a), LowerThere(l, t, a), Accounted(l, t, a),
           NEW base, IsFileSystem(base), Based(t, e.path, base),
           NEW from, from = Real(base, e.to), Kind(base, from) # "dir",
           NEW waits, waits <=> from \notin DOMAIN base,
           NEW k \in Seq(Entries), NEW m, Waits(k, m, e, waits),
           NEW u, ~waits => e.path \in DOMAIN u /\ u[e.path] = base[from]
    PROVE  HardIs(l, u, b, m, TRUE, Len(b))
<1>1. PICK n, p, to : n = Len(b) /\ p = e.path /\ to = e.to
  OBVIOUS
<1>2. p \in Paths /\ p \in Seq(Names) /\ to \in Seq(Names) /\ Lists(e)
  BY <1>1, EntryType, PathLength DEF Lists, ListedKinds
<1>3. /\ b[n] = e /\ n \in Nat /\ Listed(b) = Listed(a) \cup {n}
      /\ \A i \in Listed(a) : i < n /\ b[i] = a[i]
      /\ \A q : For(b, q) = For(a, q) \cup {i \in {n} : p = q}
      /\ \A q : Buried(b, q) <=> Buried(a, q) \/ (e.kind # "dir" /\ p \in Above(q))
  BY <1>1, <1>2, ListedMore
<1>4. \A i \in Listed(a) : a[i].path # p
  BY <1>1, <1>2, OnceBefore
<1>5. /\ \A q \in Above(p) : Kind(base, q) = "dir"
      /\ \A q \in Paths : Kind(t, q) \in {"dir", "none"} => Kind(base, q) \in {"dir", "none"}
      /\ \A q \in DOMAIN t : q # p /\ p \notin Above(q) => q \in DOMAIN base /\ base[q] = t[q]
  BY <1>1, <1>2, BasedKinds
\* What is there is found.
<1>6. ASSUME to \in DOMAIN t, to # p, p \notin Above(to)
      PROVE  Holds(u, p, t[to]) /\ Kind(t, to) # "dir"
  <2>1. to \in DOMAIN base /\ base[to] = t[to]
    BY <1>5, <1>6
  <2>2. \A q \in Above(to) : ~IsLink(base, q)
    <3>1. \A q \in Above(to) : Kind(base, q) = "dir"
      BY <2>1 DEF IsFileSystem
    <3> QED BY <3>1 DEF IsLink
  <2>3. from = to
    BY <1>1, <2>2, Straight
  <2>4. ~waits
    BY <2>1, <2>3
  <2>5. p \in DOMAIN u /\ u[p] = t[to]
    BY <1>1, <2>1, <2>3, <2>4
  <2>6. Kind(t, to) # "dir"
    BY <1>6, <2>1, <2>3 DEF Kind, Exists
  <2> QED BY <2>5, <2>6 DEF Holds, Same
<1>7. FromEarlier(b, n) => Holds(u, p, File("new"))
  <2> SUFFICES ASSUME FromEarlier(b, n) PROVE Holds(u, p, File("new"))
    OBVIOUS
  <2>1. PICK j \in For(b, to) : j < n /\ b[j].kind = "file" /\ ~Buried(b, to)
    BY <1>1, <1>3 DEF FromEarlier
  <2>2. j \in Listed(a) /\ a[j].path = to /\ a[j].kind = "file"
    BY <1>3, <2>1 DEF For
  <2>3. ~Buried(a, to) /\ p \notin Above(to) /\ p # to
    BY <1>3, <1>4, <2>1, <2>2
  <2>4. ~Replaced(a, to, j)
    BY <2>3 DEF Buried, Replaced
  <2>5. Placed(l, a, a[j]) = File("new")
    BY <2>2 DEF Placed
  <2>6. Holds(t, to, File("new"))
    BY <2>2, <2>4, <2>5 DEF PlainThere
  <2>7. Holds(u, p, t[to])
    BY <1>6, <2>3, <2>6 DEF Holds
  <2> QED BY <2>6, <2>7 DEF Holds, Same
<1>8. FromLower(l, b, n) => Holds(u, p, l[to])
  <2> SUFFICES ASSUME FromLower(l, b, n) PROVE Holds(u, p, l[to])
    OBVIOUS
  <2>1. ~Buried(b, to) /\ For(b, to) = {} /\ Kind(Visible(l, b), to) = "file"
    BY <1>1, <1>3 DEF FromLower
  <2>2. ~Buried(a, to) /\ p \notin Above(to) /\ p # to /\ For(a, to) = {}
    BY <1>3, <2>1
  <2>3. to \in DOMAIN Visible(l, a)
    <3>1. Kind(Visible(l, a), to) = "file"
      BY <2>1, VisibleLess
    <3> QED BY <3>1 DEF Kind, Exists
  <2>4. to \in DOMAIN t
    BY <2>2, <2>3 DEF LowerThere
  <2>5. Holds(u, p, t[to]) /\ Kind(t, to) # "dir"
    BY <1>6, <2>2, <2>4
  <2>6. Holding(a, to) = {}
    <3> SUFFICES ASSUME NEW i \in Listed(a), to \in Above(a[i].path) PROVE FALSE
      BY DEF Holding
    <3>1. ~Replaced(a, to, i)
      BY <2>2 DEF Buried, Replaced
    <3>2. Kind(t, to) = "dir"
      BY <2>2, <3>1 DEF MadeThere
    <3> QED BY <2>5, <3>2
  <2>7. Same(t[to], l[to])
    BY <2>2, <2>3, <2>6 DEF LowerThere
  <2> QED BY <2>5, <2>7 DEF Holds, Same
<1>9. FromLater(l, b, n) => Pending(m, p)
  <2> SUFFICES ASSUME FromLater(l, b, n) PROVE Pending(m, p)
    OBVIOUS
  <2>1. /\ ~Buried(b, to) /\ to \notin DOMAIN l /\ Clean(l, to)
        /\ \A j \in For(b, to) : j > n
    BY <1>1, <1>3 DEF FromLater, Exists
  <2>2. ~Buried(a, to) /\ p \notin Above(to) /\ p # to /\ For(a, to) = {}
    <3>1. \A j \in For(b, to) : j \in Listed(b) /\ ~(j > n)
      BY <1>3, ListedType DEF For
    <3> QED BY <1>3, <2>1, <3>1
  <2>3. ASSUME NEW q \in Above(to) PROVE Kind(base, q) \in {"dir", "none"}
    <3>1. q \in Paths
      BY <1>2, AbovePath
    <3>2. Kind(l, q) \in {"dir", "none"}
      BY <2>1 DEF Clean
    <3>3. Kind(t, q) \in {"dir", "none"}
      BY <1>2, <2>2, <3>2, CleanWay
    <3> QED BY <1>5, <3>1, <3>3
  <2>4. from = to
    BY <1>1, <2>3, StraightBelowDirs
  <2>5. to \notin DOMAIN base
    <3> SUFFICES ASSUME to \in DOMAIN base PROVE FALSE
      OBVIOUS
    <3>1. to \notin Above(p)
      BY <1>5, <2>4
    <3>2. to \in DOMAIN t /\ base[to] = t[to]
      BY <1>1, <3>1 DEF Based
    <3>3. ~(to \in DOMAIN Visible(l, a))
      BY <2>1, VisibleDef
    <3>4. PICK i \in Holding(a, to) : ~Replaced(a, to, i)
      BY <2>2, <3>2, <3>3 DEF Accounted
    <3>5. Kind(t, to) = "dir"
      BY <2>2, <3>4 DEF MadeThere, Holding
    <3>6. Kind(base, to) = "dir"
      BY <3>2, <3>5 DEF Kind, Exists
    <3> QED BY <2>4, <3>6
  <2>6. waits
    BY <2>4, <2>5
  <2>7. Pending(m, e.path)
    BY <2>6, WaitsMore
  <2> QED BY <1>1, <2>7
<1> QED BY <1>1, <1>3, <1>7, <1>8, <1>9 DEF HardIs

LEMMA PutLayering ==
    ASSUME NEW l, NEW t, IsFileSystem(t), NEW u, IsFileSystem(u), NEW waits, NEW c,
           NEW k \in Seq(Entries), NEW m, NEW e \in Entries, Waits(k, m, e, waits),
           NEW a \in Seq(Entries), NEW b \in Seq(Entries), Grows(a, e, b),
           Lists(e), Once(b), Put(t, u, e, waits), Layering(l, t, a, c, k, TRUE),
           e.kind = "hardlink" => HardIs(l, u, b, m, TRUE, Len(b))
    PROVE  Layering(l, u, b, c \cup {e.path}, m, TRUE)
<1>1. /\ Recorded(a, c, k) /\ PlainThere(l, t, a) /\ MadeThere(t, a) /\ LowerThere(l, t, a)
      /\ Accounted(l, t, a) /\ Stumps(t, a, k) /\ BelowDooms(t, a, k)
      /\ HardThere(l, t, a, k, TRUE)
  BY DEF Layering
<1>2. Recorded(b, c \cup {e.path}, m)
  BY <1>1, PutRecorded
<1>3. PlainThere(l, u, b)
  BY <1>1, PutPlain
<1>4. MadeThere(u, b)
  BY <1>1, PutMade
<1>5. LowerThere(l, u, b)
  BY <1>1, PutLower
<1>6. Accounted(l, u, b)
  BY <1>1, PutAccounted
<1>7. Stumps(u, b, m)
  BY <1>1, PutStumps
<1>8. BelowDooms(u, b, m)
  BY <1>1, PutBelow
<1>9. HardThere(l, u, b, m, TRUE)
  BY <1>1, PutHard
<1> QED BY <1>2, <1>3, <1>4, <1>5, <1>6, <1>7, <1>8, <1>9 DEF Layering

LEMMA BaseIs ==
    ASSUME NEW t, IsFileSystem(t), NEW p \in Paths,
           \A q \in Above(p) : Kind(t, q) \in {"dir", "none"},
           NEW base, base = MadeAbove(Removed(t, p), p)
    PROVE  IsFileSystem(base) /\ Based(t, p, base)
BY Placing

\* What an entry puts on it.
Suits(t, e, node) ==
    /\ e.kind = "dir" => node = Dir(TRUE) /\ \A q \in DOMAIN t : e.path \notin Above(q)
    /\ e.kind = "file" => node = File("new")
    /\ e.kind = "symlink" => node = Link(e.to)
    /\ e.kind = "hardlink" => node.kind \in {"file", "link"}

LEMMA PutNode ==
    ASSUME NEW t, IsFileSystem(t), NEW e \in Entries, Lists(e),
           NEW base, Based(t, e.path, base), NEW u, NEW node,
           Added(base, e.path, node, u), Suits(t, e, node)
    PROVE  Put(t, u, e, FALSE)
<1>1. PICK p : p = e.path
  OBVIOUS
<1>0. /\ DOMAIN u = DOMAIN base \cup {p}
      /\ \A q \in DOMAIN u : u[q] = IF q = p THEN node ELSE base[q]
      /\ e.kind = "dir" => node = Dir(TRUE) /\ \A q \in DOMAIN t : p \notin Above(q)
      /\ e.kind = "file" => node = File("new")
      /\ e.kind = "symlink" => node = Link(e.to)
      /\ e.kind = "hardlink" => node.kind \in {"file", "link"}
  BY <1>1 DEF Added, Suits
<1>2. /\ p \in Paths /\ p # <<>> /\ p \notin Above(p)
      /\ \A q \in Above(p) : q # p /\ p \notin Above(q) /\ q # <<>>
  <2>1. p \in Paths /\ p \in Seq(Names)
    BY <1>1, EntryType, PathLength DEF Lists, ListedKinds
  <2> QED BY <2>1, AboveOrder, AbovePath DEF Paths
<1>3. /\ \A q \in Above(p) : Kind(base, q) = "dir"
      /\ \A q \in DOMAIN t : q # p /\ p \notin Above(q) => q \in DOMAIN base /\ base[q] = t[q]
  BY <1>1, <1>2, BasedKinds
<1>4. p \in DOMAIN u /\ u[p] = node /\ Kind(u, p) = node.kind
  BY <1>0, <1>1, <1>2 DEF Kind, Exists
<1>5. ASSUME NEW q \in Above(p)
      PROVE  Kind(t, q) \in {"dir", "none"} /\ q \in DOMAIN u /\ Kind(u, q) = "dir"
  <2>1. q \in DOMAIN base /\ Kind(t, q) \in {"dir", "none"}
    BY <1>0, <1>1 DEF Based
  <2> QED BY <1>0, <1>1, <1>2, <1>3, <2>1 DEF Kind, Exists
<1>6. ASSUME NEW q \in DOMAIN t, q # p, p \in Above(q) => e.kind = "dir"
      PROVE  q \in DOMAIN u /\ u[q] = t[q]
  BY <1>0, <1>1, <1>3, <1>6
<1>7. ASSUME NEW q \in DOMAIN u, q # p, q \notin Above(p)
      PROVE  q \in DOMAIN t /\ p \notin Above(q)
  BY <1>0, <1>1, <1>7 DEF Based
<1>8. e.kind = "dir" => Kind(u, p) = "dir"
  BY <1>0, <1>4 DEF Dir
<1>9. /\ e.kind = "file" => Holds(u, p, File("new"))
      /\ e.kind = "symlink" => Holds(u, p, Link(e.to))
  BY <1>0, <1>4 DEF Holds, Same
<1>10. e.kind = "hardlink" => Kind(u, p) \in {"file", "link"}
  BY <1>0, <1>4
<1> QED BY <1>0, <1>1, <1>5, <1>6, <1>7, <1>8, <1>9, <1>10 DEF Put

LEMMA PutWaits ==
    ASSUME NEW t, IsFileSystem(t), NEW e \in Entries, e.kind = "hardlink",
           NEW base, Based(t, e.path, base)
    PROVE  Put(t, base, e, TRUE)
<1>1. PICK p : p = e.path
  OBVIOUS
<1>2. p \in Paths /\ p # <<>> /\ p \notin Above(p)
  <2>1. p \in Paths /\ p \in Seq(Names)
    BY <1>1, EntryType, PathLength
  <2> QED BY <2>1, AboveOrder, AbovePath DEF Paths
<1>3. /\ \A q \in Above(p) : Kind(base, q) = "dir"
      /\ \A q \in DOMAIN t : q # p /\ p \notin Above(q) => q \in DOMAIN base /\ base[q] = t[q]
  BY <1>1, <1>2, BasedKinds
<1>4. \A q \in Above(p) : Kind(t, q) \in {"dir", "none"} /\ q \in DOMAIN base
  BY <1>1 DEF Based
<1>5. \A q \in DOMAIN base : q # p /\ q \notin Above(p) => q \in DOMAIN t /\ p \notin Above(q)
  BY <1>1 DEF Based
<1>6. Kind(base, p) = "none"
  BY <1>1, <1>2 DEF Based, Kind, Exists
<1> QED BY <1>1, <1>3, <1>4, <1>5, <1>6 DEF Put

LEMMA PutKept ==
    ASSUME NEW t, IsFileSystem(t), NEW e \in Entries, e.kind = "dir", Kind(t, e.path) = "dir"
    PROVE  Put(t, t, e, FALSE)
<1>1. PICK p \in Paths : p = e.path
  BY EntryType
<1>2. p \in DOMAIN t
  BY <1>1, SameNode
<1>3. \A q \in Above(p) : q \in DOMAIN t /\ Kind(t, q) = "dir"
  BY <1>2, DirsAbove DEF IsFileSystem
<1> QED BY <1>1, <1>3 DEF Put

\* With no link on the way an entry is put where it says.
LEMMA OnTheWay ==
    ASSUME TypeOK, NEW e \in Entries, Reads(e), ~through'
    PROVE  /\ Real(tree, e.path) = e.path
           /\ \A q \in Above(e.path) : ~IsLink(tree, q)
           /\ e.kind = "opaque" => ~IsLink(tree, e.path)
<1>1. \A q \in Above(e.path) : ~IsLink(tree, q)
  BY DEF Reads
<1> QED BY <1>1, Straight DEF Reads

\* What a step that extracts an entry comes to.
Extracted(e, waits) ==
    /\ Put(tree, tree', e, waits) /\ Waits(links, links', e, waits)
    /\ created' = created \cup {e.path}

LEMMA DirPuts ==
    ASSUME TypeOK, NEW e \in Entries, ExtractDir(e), ~through', status' # "failed"
    PROVE  Extracted(e, FALSE)
<1>1. PICK p \in Paths : p = e.path
  BY EntryType DEF ExtractDir
<1>2. /\ IsFileSystem(tree) /\ e.kind = "dir" /\ Reads(e) /\ Real(tree, p) = p
  BY <1>1, OnTheWay DEF ExtractDir, TypeOK
<1>3. created' = created \cup {p} /\ links' = links /\ ~Blocked(e)
  BY <1>1 DEF ExtractDir, Fail
<1>4. Waits(links, links', e, FALSE)
  BY <1>3 DEF Waits
<1>5. CASE Kind(tree, p) = "dir"
  <2>1. tree' = tree
    BY <1>1, <1>2, <1>5 DEF ExtractDir, Fail
  <2>2. PICK t : t = tree
    OBVIOUS
  <2>3. Put(t, t, e, FALSE)
    BY <1>1, <1>2, <1>5, <2>2, PutKept
  <2> QED BY <1>1, <1>3, <1>4, <2>1, <2>2, <2>3 DEF Extracted
<1>6. CASE Kind(tree, p) # "dir"
  <2>1. PICK base : base = MadeAbove(Removed(tree, p), p)
    OBVIOUS
  <2>2. tree' = With(base, p, Dir(TRUE))
    BY <1>1, <1>2, <1>6, <2>1 DEF ExtractDir, Fail
  <2>3. \A q \in Above(p) : Kind(tree, q) \in {"dir", "none"}
    BY <1>1, <1>2, <1>3, NotBlocked
  <2>4. Based(tree, p, base)
    BY <1>2, <2>1, <2>3, BaseIs
  <2>5. PICK u : u = tree'
    OBVIOUS
  <2>6. Added(base, e.path, Dir(TRUE), u)
    BY <1>1, <2>2, <2>5 DEF With, Added
  <2>7. \A q \in DOMAIN tree : p \notin Above(q)
    BY <1>2, <1>6 DEF IsFileSystem
  <2>8. Lists(e) /\ e.kind = "dir"
    BY <1>2 DEF Lists, ListedKinds
  <2>9. PICK t, node : t = tree /\ node = Dir(TRUE)
    OBVIOUS
  <2>10. Put(t, u, e, FALSE)
    <3>1. IsFileSystem(t) /\ Based(t, e.path, base)
      BY <1>1, <1>2, <2>4, <2>9
    <3>2. Added(base, e.path, node, u)
      BY <2>6, <2>9
    <3>3. Suits(t, e, node)
      BY <1>1, <2>7, <2>8, <2>9 DEF Suits
    <3> QED BY <2>8, <3>1, <3>2, <3>3, PutNode
  <2> QED BY <1>1, <1>3, <1>4, <2>5, <2>9, <2>10 DEF Extracted
<1> QED BY <1>5, <1>6

LEMMA ReplacePuts ==
    ASSUME TypeOK, NEW e \in Entries, Reads(e), NEW node, Replaces(e, node),
           \/ e.kind = "file" /\ node = File("new")
           \/ e.kind = "symlink" /\ node = Link(e.to),
           ~through', status' # "failed"
    PROVE  Extracted(e, FALSE)
<1>1. PICK p \in Paths : p = e.path
  BY EntryType
<1>2. IsFileSystem(tree) /\ Real(tree, p) = p
  BY <1>1, OnTheWay DEF TypeOK
<1>3. created' = created \cup {p} /\ links' = links /\ ~Blocked(e)
  BY <1>1 DEF Replaces, Fail
<1>4. Waits(links, links', e, FALSE)
  BY <1>3 DEF Waits
<1>5. PICK base : base = MadeAbove(Removed(tree, p), p)
  OBVIOUS
<1>6. tree' = With(base, p, node)
  BY <1>1, <1>2, <1>5 DEF Replaces, Fail
<1>7. \A q \in Above(p) : Kind(tree, q) \in {"dir", "none"}
  BY <1>1, <1>2, <1>3, NotBlocked
<1>8. Based(tree, p, base)
  BY <1>2, <1>5, <1>7, BaseIs
<1>9. PICK t, u : t = tree /\ u = tree'
  OBVIOUS
<1>10. Added(base, e.path, node, u)
  BY <1>1, <1>6, <1>9 DEF With, Added
<1>11. Lists(e)
  BY DEF Lists, ListedKinds
<1>12. Put(t, u, e, FALSE)
  <2>1. IsFileSystem(t) /\ Based(t, e.path, base)
    BY <1>1, <1>2, <1>8, <1>9
  <2>2. Suits(t, e, node)
    BY DEF Suits
  <2> QED BY <1>10, <1>11, <2>1, <2>2, PutNode
<1> QED BY <1>1, <1>3, <1>4, <1>9, <1>12 DEF Extracted

\* A hard link is made of what it finds, or waits.
Linking(e, base, from, waits) ==
    /\ IsFileSystem(base) /\ Based(tree, e.path, base)
    /\ from = Real(base, e.to) /\ Kind(base, from) # "dir"
    /\ waits <=> from \notin DOMAIN base
    /\ ~waits => e.path \in DOMAIN tree' /\ tree'[e.path] = base[from]
    /\ Extracted(e, waits)

LEMMA HardlinkPuts ==
    ASSUME TypeOK, NEW e \in Entries, ExtractHardlink(e), ~through', status' # "failed"
    PROVE  \E base, from : \E waits \in BOOLEAN : Linking(e, base, from, waits)
<1>1. PICK p \in Paths : p = e.path
  BY EntryType DEF ExtractHardlink
<1>2. IsFileSystem(tree) /\ Real(tree, p) = p /\ e.kind = "hardlink" /\ Reads(e)
  BY <1>1, OnTheWay DEF TypeOK, ExtractHardlink
<1>3. PICK base : base = MadeAbove(Removed(tree, p), p)
  OBVIOUS
<1>4. PICK from : from = Real(base, e.to)
  OBVIOUS
<1>5. PICK waits \in BOOLEAN : waits <=> from \notin DOMAIN base
  OBVIOUS
<1>6. /\ created' = created \cup {p} /\ ~Blocked(e) /\ Kind(base, from) # "dir"
      /\ IF Exists(base, from)
           THEN tree' = With(base, p, base[from]) /\ UNCHANGED links
           ELSE tree' = base /\ links' = Append(links, e)
  BY <1>1, <1>2, <1>3, <1>4 DEF ExtractHardlink, Fail
<1>7. \A q \in Above(p) : Kind(tree, q) \in {"dir", "none"}
  BY <1>1, <1>2, <1>6, NotBlocked
<1>8. IsFileSystem(base) /\ Based(tree, p, base)
  BY <1>2, <1>3, <1>7, BaseIs
<1>10. PICK t, u : t = tree /\ u = tree'
  OBVIOUS
<1>11. Waits(links, links', e, waits)
  BY <1>5, <1>6 DEF Waits, Exists
<1>12. Lists(e)
  BY <1>2 DEF Lists, ListedKinds
<1>13. ~waits => p \in DOMAIN u /\ u[p] = base[from]
  BY <1>5, <1>6, <1>10 DEF With, Exists
<1>14. Put(t, u, e, waits)
  <2>1. CASE waits
    <3>1. u = base
      BY <1>5, <1>6, <1>10, <2>1 DEF Exists
    <3>2. IsFileSystem(t) /\ Based(t, e.path, base)
      BY <1>1, <1>2, <1>8, <1>10
    <3>3. Put(t, base, e, TRUE)
      BY <1>2, <3>2, PutWaits
    <3> QED BY <2>1, <3>1, <3>3
  <2>2. CASE ~waits
    <3>1. PICK node : node = base[from]
      OBVIOUS
    <3>2. Added(base, e.path, node, u)
      BY <1>1, <1>5, <1>6, <1>10, <2>2, <3>1 DEF With, Exists, Added
    <3>3. node.kind \in {"file", "link"}
      <4>1. from \in DOMAIN base
        BY <1>5, <2>2
      <4>2. base[from] \in Nodes /\ Kind(base, from) = base[from].kind
        BY <1>8, <4>1, KindCases
      <4> QED BY <1>6, <3>1, <4>2 DEF Nodes
    <3>4. IsFileSystem(t) /\ Based(t, e.path, base)
      BY <1>1, <1>2, <1>8, <1>10
    <3>5. Suits(t, e, node)
      BY <1>2, <3>3 DEF Suits
    <3>6. Put(t, u, e, FALSE)
      BY <1>12, <3>2, <3>4, <3>5, PutNode
    <3> QED BY <2>2, <3>6
  <2> QED BY <2>1, <2>2
<1>15. Extracted(e, waits)
  BY <1>1, <1>6, <1>10, <1>11, <1>14 DEF Extracted
<1>16. Linking(e, base, from, waits)
  BY <1>1, <1>4, <1>5, <1>6, <1>8, <1>10, <1>13, <1>15 DEF Linking
<1> QED BY <1>5, <1>16

LEMMA ExtractKeeps ==
    ASSUME TypeOK, NEW e \in Entries,
           ExtractDir(e) \/ ExtractFile(e) \/ ExtractSymlink(e) \/ ExtractHardlink(e),
           ~through', status' # "failed", Once(archive'),
           Layering(lower, tree, archive, created, links, TRUE)
    PROVE  Layering(lower, tree', archive', created', links', TRUE)
<1>1. PICK l, t, u, a, b, c, k, m :
        /\ l = lower /\ t = tree /\ u = tree' /\ a = archive /\ b = archive'
        /\ c = created /\ k = links /\ m = links'
  OBVIOUS
<1>2. Reads(e) /\ Lists(e)
  BY DEF ExtractDir, ExtractFile, ExtractSymlink, ExtractHardlink, Replaces, Lists, ListedKinds
<1>3. /\ a \in Seq(Entries) /\ b \in Seq(Entries) /\ Grows(a, e, b)
      /\ IsFileSystem(t) /\ IsFileSystem(l)
  BY <1>1, <1>2, ReadsType, LowersAssumption DEF TypeOK, Grows
<1>4. k \in Seq(Entries)
  <2>1. k \in Seq(Waiting(created))
    BY <1>1 DEF TypeOK, Waiting
  <2>2. Waiting(created) \subseteq Entries
    BY DEF Waiting
  <2> QED BY <2>1, <2>2, SeqMonotonic
<1>5. IsFileSystem(u)
  <2>1. Extract(e)
    BY DEF Extract
  <2>2. TypeOK'
    BY <2>1, EntryStepType
  <2> QED BY <1>1, <2>2 DEF TypeOK
<1>6. Layering(l, t, a, c, k, TRUE) /\ Once(b)
  BY <1>1
<1>7. ASSUME NEW waits, Extracted(e, waits),
             e.kind = "hardlink" => HardIs(l, u, b, m, TRUE, Len(b))
      PROVE  Layering(lower, tree', archive', created', links', TRUE)
  <2>1. Put(t, u, e, waits) /\ Waits(k, m, e, waits) /\ created' = c \cup {e.path}
    BY <1>1, <1>7 DEF Extracted
  <2>2. Layering(l, u, b, c \cup {e.path}, m, TRUE)
    BY <1>2, <1>3, <1>4, <1>5, <1>6, <1>7, <2>1, PutLayering
  <2> QED BY <1>1, <2>1, <2>2
<1>8. CASE ExtractDir(e)
  <2>1. e.kind = "dir" /\ Extracted(e, FALSE)
    BY <1>8, DirPuts DEF ExtractDir
  <2> QED BY <1>7, <2>1
<1>9. CASE ExtractFile(e)
  <2>1. e.kind = "file" /\ Extracted(e, FALSE)
    BY <1>9, ReplacePuts DEF ExtractFile
  <2> QED BY <1>7, <2>1
<1>10. CASE ExtractSymlink(e)
  <2>1. e.kind = "symlink" /\ Extracted(e, FALSE)
    BY <1>10, ReplacePuts DEF ExtractSymlink
  <2> QED BY <1>7, <2>1
<1>11. CASE ExtractHardlink(e)
  <2>0. PICK base, from : \E waits \in BOOLEAN : Linking(e, base, from, waits)
    BY <1>11, HardlinkPuts
  <2>1. PICK waits \in BOOLEAN : Linking(e, base, from, waits)
    BY <2>0
  <2>2. e.kind = "hardlink"
    BY <1>11 DEF ExtractHardlink
  <2>3. /\ PlainThere(l, t, a) /\ MadeThere(t, a) /\ LowerThere(l, t, a) /\ Accounted(l, t, a)
    BY <1>6 DEF Layering
  <2>4. /\ Based(t, e.path, base) /\ Waits(k, m, e, waits)
        /\ ~waits => e.path \in DOMAIN u /\ u[e.path] = base[from]
    BY <1>1, <2>1 DEF Extracted, Linking
  <2>5. /\ IsFileSystem(base) /\ from = Real(base, e.to) /\ Kind(base, from) # "dir"
        /\ waits <=> from \notin DOMAIN base
        /\ Extracted(e, waits)
    BY <2>1 DEF Linking
  <2>6. HardIs(l, u, b, m, TRUE, Len(b))
    BY <1>3, <1>4, <1>6, <2>2, <2>3, <2>4, <2>5, HardlinkFound
  <2> QED BY <1>7, <2>5, <2>6
<1> QED BY <1>8, <1>9, <1>10, <1>11

-----------------------------------------------------------------------------
(* An entry that lists no path.                                            *)

\* What a whiteout removes: what it hides, but the paths the layer has made and
\* the directories above them.
Hide(t, u, c, e) ==
    /\ \A q \in DOMAIN u : q \in DOMAIN t /\ u[q] = t[q]
    /\ \A q \in DOMAIN t : q \notin DOMAIN u =>
        /\ HiddenBy(e, q) /\ q \notin c
        /\ Kind(t, q) = "dir" => \A r \in c : q \notin Above(r)
    /\ \A q \in DOMAIN u : HiddenBy(e, q) => q \in c \/ \E r \in c : q \in Above(r)

LEMMA HideLayering ==
    ASSUME NEW l, NEW t, IsFileSystem(t), NEW u, IsFileSystem(u), NEW c, NEW k,
           NEW a \in Seq(Entries), NEW e \in Entries, NEW b \in Seq(Entries),
           Grows(a, e, b), ~Lists(e), Hide(t, u, c, e), Layering(l, t, a, c, k, TRUE)
    PROVE  Layering(l, u, b, c, k, TRUE)
<1>1. /\ Recorded(a, c, k) /\ PlainThere(l, t, a) /\ MadeThere(t, a) /\ LowerThere(l, t, a)
      /\ Accounted(l, t, a) /\ Stumps(t, a, k) /\ BelowDooms(t, a, k)
      /\ HardThere(l, t, a, k, TRUE)
  BY DEF Layering
<1>2. /\ Listed(b) = Listed(a)
      /\ \A i \in Listed(a) : b[i] = a[i]
      /\ \A p : /\ For(b, p) = For(a, p) /\ Holding(b, p) = Holding(a, p)
                /\ Buried(b, p) <=> Buried(a, p)
                /\ \A i : Replaced(b, p, i) <=> Replaced(a, p, i)
  BY ListedSame
<1>3. \A i \in Listed(a) : a[i].path \in c
  BY <1>1 DEF Recorded
<1>4. \A q \in DOMAIN t : q \in c => q \in DOMAIN u /\ u[q] = t[q]
  BY DEF Hide
<1>5. Recorded(b, c, k)
  <2>1. {b[i].path : i \in Listed(b)} = {a[i].path : i \in Listed(a)}
    BY <1>2
  <2> QED BY <1>1, <1>2, <2>1 DEF Recorded
<1>6. PlainThere(l, u, b)
  <2> SUFFICES ASSUME NEW i \in Listed(b), b[i].kind # "hardlink",
                      ~Replaced(b, b[i].path, i)
               PROVE  Holds(u, b[i].path, Placed(l, b, b[i]))
    BY DEF PlainThere
  <2>1. PICK x, p : x = a[i] /\ x = b[i] /\ p = x.path
    BY <1>2
  <2>2. i \in Listed(a) /\ x.kind # "hardlink" /\ ~Replaced(a, p, i) /\ p \in c
    BY <1>2, <1>3, <2>1
  <2>3. Holds(t, p, Placed(l, a, x))
    BY <1>1, <2>1, <2>2 DEF PlainThere
  <2>4. Placed(l, b, x) = Placed(l, a, x)
    BY <2>1, <2>2, ListedType DEF Placed, ListedKinds
  <2>5. p \in DOMAIN u /\ u[p] = t[p]
    BY <1>4, <2>2, <2>3 DEF Holds
  <2> QED BY <2>1, <2>3, <2>4, <2>5 DEF Holds
<1>7. MadeThere(u, b)
  <2> SUFFICES ASSUME NEW i \in Listed(b), NEW p \in Above(b[i].path),
                      For(b, p) = {}, ~Replaced(b, p, i)
               PROVE  Kind(u, p) = "dir"
    BY DEF MadeThere
  <2>1. i \in Listed(a) /\ p \in Above(a[i].path) /\ a[i].path \in c
    BY <1>2, <1>3
  <2>2. Kind(t, p) = "dir"
    BY <1>1, <1>2, <2>1 DEF MadeThere
  <2>3. p \in DOMAIN t
    BY <2>1, <2>2, ListedType, AbovePath, SameNode
  <2>4. p \in DOMAIN u /\ u[p] = t[p]
    BY <2>1, <2>2, <2>3 DEF Hide
  <2> QED BY <2>2, <2>3, <2>4 DEF Kind, Exists
<1>8. LowerThere(l, u, b)
  <2> SUFFICES ASSUME NEW p \in DOMAIN Visible(l, b), For(b, p) = {}, ~Buried(b, p)
               PROVE  p \in DOMAIN u /\ (Holding(b, p) = {} => Same(u[p], l[p]))
    BY DEF LowerThere
  <2>1. p \in DOMAIN Visible(l, a) /\ ~HiddenBy(e, p)
    BY VisibleLess
  <2>2. p \in DOMAIN t /\ (Holding(a, p) = {} => Same(t[p], l[p]))
    BY <1>1, <1>2, <2>1 DEF LowerThere
  <2>3. p \in DOMAIN u /\ u[p] = t[p]
    BY <2>1, <2>2 DEF Hide
  <2> QED BY <1>2, <2>2, <2>3
<1>9. Accounted(l, u, b)
  <2> SUFFICES ASSUME NEW p \in DOMAIN u
               PROVE  \/ \E i \in For(b, p) \cup Holding(b, p) : ~Replaced(b, p, i)
                      \/ p \in DOMAIN Visible(l, b) /\ For(b, p) = {} /\ ~Buried(b, p)
    BY DEF Accounted
  <2>1. p \in DOMAIN t
    BY DEF Hide
  <2>2. CASE \E i \in For(a, p) \cup Holding(a, p) : ~Replaced(a, p, i)
    BY <1>2, <2>2
  <2>3. CASE p \in DOMAIN Visible(l, a) /\ For(a, p) = {} /\ ~Buried(a, p)
    <3>1. CASE ~HiddenBy(e, p)
      <4>1. p \in DOMAIN Visible(l, b)
        BY <2>3, <3>1, VisibleLess
      <4> QED BY <1>2, <2>3, <4>1
    <3>2. CASE HiddenBy(e, p)
      <4>1. p \notin c
        BY <1>1, <2>3 DEF Recorded, For
      <4>2. PICK r \in c : p \in Above(r)
        BY <3>2, <4>1 DEF Hide
      <4>3. PICK i \in Listed(a) : a[i].path = r
        BY <1>1 DEF Recorded
      <4>4. i \in Holding(a, p) /\ ~Replaced(a, p, i)
        BY <2>3, <4>2, <4>3 DEF Holding, Buried, Replaced
      <4> QED BY <1>2, <4>4
    <3> QED BY <3>1, <3>2
  <2> QED BY <1>1, <2>1, <2>2, <2>3 DEF Accounted
<1>10. Stumps(u, b, k)
  <2> SUFFICES ASSUME NEW i \in Listed(b), b[i].kind # "dir"
               PROVE  \E j \in Listed(b) :
                        /\ b[j].kind # "dir" /\ Stump(u, k, b[j].path)
                        /\ b[j].path \in Above(b[i].path) \cup {b[i].path}
    BY DEF Stumps
  <2>1. PICK j \in Listed(a) : /\ a[j].kind # "dir" /\ Stump(t, k, a[j].path)
                               /\ a[j].path \in Above(a[i].path) \cup {a[i].path}
    BY <1>1, <1>2 DEF Stumps
  <2>2. PICK s \in Paths : s = a[j].path /\ s \in c
    BY <1>3, ListedType
  <2>3. Stump(u, k, s)
    <3>1. CASE Pending(k, s)
      BY <3>1 DEF Stump
    <3>2. CASE Kind(t, s) \in {"file", "link"}
      <4>1. s \in DOMAIN t
        BY <3>2, SameNode
      <4>2. u[s] = t[s] /\ s \in DOMAIN u
        BY <1>4, <2>2, <4>1
      <4> QED BY <3>2, <4>1, <4>2 DEF Stump, Kind, Exists
    <3> QED BY <2>1, <2>2, <3>1, <3>2 DEF Stump
  <2> QED BY <1>2, <2>1, <2>2, <2>3
<1>11. BelowDooms(u, b, k)
  <2> SUFFICES ASSUME Below(b) PROVE Doomed(u, b, k)
    BY DEF BelowDooms
  <2>1. Below(a)
    BY <1>2 DEF Below
  <2>2. PICK x \in DOMAIN k : Exists(t, k[x].path) \/ Buried(a, k[x].path)
    BY <1>1, <2>1 DEF BelowDooms, Doomed
  <2>3. PICK p : p = k[x].path
    OBVIOUS
  <2>4. p \in c
    BY <1>1, <1>3, <2>3 DEF Recorded
  <2>5. Exists(t, p) => Exists(u, p)
    BY <1>4, <2>4 DEF Exists
  <2> QED BY <1>2, <2>2, <2>3, <2>5 DEF Doomed
<1>12. HardThere(l, u, b, k, TRUE)
  <2> SUFFICES ASSUME NEW i \in Listed(b), b[i].kind = "hardlink",
                      ~Replaced(b, b[i].path, i)
               PROVE  HardIs(l, u, b, k, TRUE, i)
    BY DEF HardThere
  <2>1. i \in Listed(a) /\ HardIs(l, t, a, k, TRUE, i)
    BY <1>1, <1>2 DEF HardThere
  <2>2. a[i].path \in DOMAIN t => a[i].path \in DOMAIN u /\ u[a[i].path] = t[a[i].path]
    BY <1>3, <1>4, <2>1
  <2> QED BY <2>1, <2>2, HardKept
<1> QED BY <1>5, <1>6, <1>7, <1>8, <1>9, <1>10, <1>11, <1>12 DEF Layering

\* Where no link is on the way the archive spells a path as it is.
LEMMA SpelledSame ==
    ASSUME IsFileSystem(tree), NEW p \in Paths, Real(tree, p) = p,
           NEW q \in Under(tree, p)
    PROVE  Spelled(p, q) = q
<1>1. /\ p \in Seq(Names) /\ Len(p) \in Nat \ {0}
      /\ q \in DOMAIN tree /\ (q = p \/ p \in Above(q))
  BY PathLength, UnderDef
<1>2. q \in Seq(Names) /\ Len(q) \in Nat \ {0}
  BY <1>1, KindCases, PathLength
<1>3. Len(p) <= Len(q) /\ \A i \in 1..Len(p) : q[i] = p[i]
  BY <1>1, <1>2, AboveDef
<1>4. PICK rest : rest = SubSeq(q, Len(p) + 1, Len(q))
  OBVIOUS
<1>5. Len(p) + 1 \in 1..(Len(q) + 1) /\ Len(q) \in 0..Len(q)
  BY <1>1, <1>2, <1>3
<1>6. /\ rest \in Seq(Names)
      /\ Len(rest) = IF Len(p) + 1 <= Len(q) THEN Len(q) - (Len(p) + 1) + 1 ELSE 0
      /\ \A i \in 1..(Len(q) - (Len(p) + 1) + 1) : rest[i] = q[Len(p) + 1 + i - 1]
  BY <1>2, <1>4, <1>5, Cut
<1>7. Len(rest) = Len(q) - Len(p)
  BY <1>1, <1>2, <1>3, <1>6
<1>8. PICK s : s = p \o rest
  OBVIOUS
<1>9. /\ s \in Seq(Names) /\ Len(s) = Len(p) + Len(rest)
      /\ \A i \in 1..Len(p) + Len(rest) :
           s[i] = IF i <= Len(p) THEN p[i] ELSE rest[i - Len(p)]
  BY <1>1, <1>6, <1>8, ConcatProperties
<1>10. ASSUME NEW i \in 1..Len(q) PROVE s[i] = q[i]
  <2>1. CASE i <= Len(p)
    BY <1>1, <1>2, <1>3, <1>7, <1>9, <2>1
  <2>2. CASE i > Len(p)
    <3>1. s[i] = rest[i - Len(p)]
      BY <1>1, <1>2, <1>7, <1>9, <2>2
    <3>2. i - Len(p) \in 1..(Len(q) - (Len(p) + 1) + 1)
      BY <1>1, <1>2, <2>2
    <3>3. rest[i - Len(p)] = q[Len(p) + 1 + (i - Len(p)) - 1]
      BY <1>6, <3>2
    <3>4. Len(p) + 1 + (i - Len(p)) - 1 = i
      BY <1>1
    <3> QED BY <3>1, <3>3, <3>4
  <2> QED BY <1>1, <2>1, <2>2
<1>11. Len(s) = Len(q)
  BY <1>1, <1>2, <1>7, <1>9
<1>12. s = q
  BY <1>2, <1>9, <1>10, <1>11, SeqEqual
<1> QED BY <1>4, <1>8, <1>12 DEF Spelled

LEMMA HidesHide ==
    ASSUME TypeOK, NEW e \in Entries, NEW ps \in SUBSET Paths, Hides(e, ps),
           status' # "failed", \A p \in ps : Real(tree, p) = p,
           \A q \in DOMAIN tree : HiddenBy(e, q) <=> \E p \in ps : q = p \/ p \in Above(q)
    PROVE  Hide(tree, tree', created, e) /\ created' = created /\ links' = links
<1> DEFINE gone == UNION {LowerPart(p) : p \in ps}
<1>1. IsFileSystem(tree) /\ created \subseteq Paths
  BY DEF TypeOK
<1>2. tree' = Without(tree, gone) /\ created' = created /\ links' = links
  BY DEF Hides, Fail
<1>3. ASSUME NEW p \in ps, NEW q \in DOMAIN tree
      PROVE  q \in LowerPart(p) <=>
                /\ q = p \/ p \in Above(q)
                /\ q \notin created
                /\ Kind(tree, q) = "dir" => \A r \in created : q \notin Above(r)
  <2>1. p \in Paths /\ q \in Paths /\ Real(tree, p) = p
    BY <1>1, KindCases
  <2>2. q \in Under(tree, p) <=> q = p \/ p \in Above(q)
    BY <1>1, <2>1, UnderDef
  <2>3. \A r \in created : IsStrictPrefix(q, r) <=> q \in Above(r)
    BY <1>1, <2>1, PrefixDef, PathLength
  <2>4. q \in Under(tree, p) => Spelled(p, q) = q
    BY <1>1, <2>1, SpelledSame
  <2> QED BY <2>1, <2>2, <2>3, <2>4 DEF LowerPart
<1>4. ASSUME NEW q \in DOMAIN tree
      PROVE  q \in gone <=>
                /\ HiddenBy(e, q) /\ q \notin created
                /\ Kind(tree, q) = "dir" => \A r \in created : q \notin Above(r)
  <2>1. q \in gone <=> \E p \in ps : q \in LowerPart(p)
    OBVIOUS
  <2> QED BY <1>3, <2>1
<1>5. PICK u : u = tree'
  OBVIOUS
<1>6. DOMAIN u = DOMAIN tree \ gone /\ \A q \in DOMAIN u : u[q] = tree[q]
  BY <1>2, <1>5 DEF Without
<1>7. Hide(tree, u, created, e)
  BY <1>4, <1>6 DEF Hide
<1> QED BY <1>2, <1>5, <1>7

LEMMA WhiteoutHides ==
    ASSUME TypeOK, NEW e \in Entries, Whiteout(e), ~through', status' # "failed"
    PROVE  Hide(tree, tree', created, e) /\ created' = created /\ links' = links
<1>1. PICK p \in Paths : p = e.path
  BY EntryType DEF Whiteout
<1>2. e.kind = "whiteout" /\ Reads(e) /\ Hides(e, {p}) /\ IsFileSystem(tree)
  BY <1>1 DEF Whiteout, TypeOK
<1>3. Real(tree, p) = p
  BY <1>1, <1>2, OnTheWay
<1>4. ASSUME NEW q \in DOMAIN tree
      PROVE  HiddenBy(e, q) <=> q = p \/ p \in Above(q)
  <2>1. q \in Seq(Names)
    BY <1>2, KindCases, PathLength
  <2> QED BY <1>1, <1>2, <2>1, PrefixDef DEF HiddenBy
<1>5. PICK ps \in SUBSET Paths : ps = {p}
  OBVIOUS
<1>6. Hides(e, ps)
  BY <1>2, <1>5
<1>7. \A r \in ps : Real(tree, r) = r
  BY <1>3, <1>5
<1>8. \A q \in DOMAIN tree : HiddenBy(e, q) <=> \E r \in ps : q = r \/ r \in Above(q)
  BY <1>4, <1>5
<1> QED BY <1>6, <1>7, <1>8, HidesHide

\* The names of a directory are on the way to all that it holds.
LEMMA ChildOnTheWay ==
    ASSUME NEW t, IsFileSystem(t), NEW d \in Seq(Names), NEW q \in DOMAIN t
    PROVE  IsPrefix(d, q) /\ q # d <=> \E p \in Children(t, d) : q = p \/ p \in Above(q)
<1>1. q \in Paths /\ q \in Seq(Names) /\ Len(q) \in Nat \ {0} /\ Len(d) \in Nat
  BY KindCases, PathLength, LenProperties
<1>2. IsPrefix(d, q) /\ q # d <=> Len(d) < Len(q) /\ \A i \in 1..Len(d) : d[i] = q[i]
  <2>1. CASE d = <<>>
    <3>1. Len(d) = 0
      BY <2>1, EmptySeq
    <3>2. SubSeq(q, 1, Len(d)) = <<>> /\ SubSeq(d, 1, Len(d)) = <<>>
      <4>1. 1 \in 1..(Len(q) + 1) /\ Len(d) \in 0..Len(q) /\ 1 \in 1..(Len(d) + 1) /\ Len(d) \in 0..Len(d)
        BY <1>1, <3>1
      <4>2. /\ SubSeq(q, 1, Len(d)) \in Seq(Names) /\ Len(SubSeq(q, 1, Len(d))) = 0
            /\ SubSeq(d, 1, Len(d)) \in Seq(Names) /\ Len(SubSeq(d, 1, Len(d))) = 0
        BY <1>1, <3>1, <4>1, Cut
      <4> QED BY <4>2, EmptySeq
    <3>3. IsPrefix(d, q)
      BY <1>1, <2>1, <3>1, <3>2 DEF IsPrefix
    <3> QED BY <1>1, <2>1, <3>1, <3>3 DEF Paths
  <2>2. CASE d # <<>>
    <3>1. d \in Paths /\ Len(d) \in Nat \ {0}
      BY <2>2, PathLength DEF Paths
    <3>2. IsPrefix(d, q) <=> d = q \/ d \in Above(q)
      BY <1>1, <3>1, PrefixDef
    <3>3. d \in Above(q) => d # q
      BY <1>1, AboveOrder
    <3>4. d \in Above(q) <=> Len(d) \in 1..(Len(q) - 1) /\ \A i \in 1..Len(d) : d[i] = q[i]
      BY <1>1, AboveDef
    <3> QED BY <1>1, <3>1, <3>2, <3>3, <3>4
  <2> QED BY <2>1, <2>2
<1>3. ASSUME NEW p \in Children(t, d), q = p \/ p \in Above(q)
      PROVE  Len(d) < Len(q) /\ \A i \in 1..Len(d) : d[i] = q[i]
  <2>1. p \in Paths /\ Front(p) = d
    BY KindCases DEF Children
  <2>2. /\ p \in Seq(Names) /\ Len(p) \in Nat \ {0} /\ Len(d) = Len(p) - 1
        /\ \A i \in 1..(Len(p) - 1) : d[i] = p[i]
    BY <2>1, FrontDef, PathLength
  <2>3. Len(p) <= Len(q) /\ \A i \in 1..Len(p) : p[i] = q[i]
    BY <1>1, <1>3, <2>2, AboveDef
  <2> QED BY <1>1, <2>2, <2>3
<1>4. ASSUME Len(d) < Len(q), \A i \in 1..Len(d) : d[i] = q[i]
      PROVE  \E p \in Children(t, d) : q = p \/ p \in Above(q)
  <2>1. PICK p : p = SubSeq(q, 1, Len(d) + 1)
    OBVIOUS
  <2>2. 1 \in 1..(Len(q) + 1) /\ Len(d) + 1 \in 0..Len(q)
    BY <1>1, <1>4
  <2>3. /\ p \in Seq(Names) /\ Len(p) = IF 1 <= Len(d) + 1 THEN Len(d) + 1 - 1 + 1 ELSE 0
        /\ \A i \in 1..(Len(d) + 1 - 1 + 1) : p[i] = q[1 + i - 1]
    BY <1>1, <2>1, <2>2, Cut
  <2>4. Len(p) = Len(d) + 1
    BY <1>1, <2>3
  <2>5. \A i \in 1..Len(p) : p[i] = q[i]
    <3> TAKE i \in 1..Len(p)
    <3>1. i \in 1..(Len(d) + 1 - 1 + 1) /\ 1 + i - 1 = i
      BY <1>1, <2>4
    <3> QED BY <2>3, <3>1
  <2>6. p \in Paths
    BY <1>1, <2>3, <2>4, NonEmptyPath
  <2>7. q = p \/ p \in Above(q)
    <3>1. CASE Len(p) = Len(q)
      BY <1>1, <2>3, <2>5, <3>1, SeqEqual
    <3>2. CASE Len(p) < Len(q)
      <4>1. Len(p) \in 1..(Len(q) - 1)
        BY <1>1, <2>4, <3>2
      <4> QED BY <1>1, <2>3, <2>5, <4>1, AboveDef
    <3> QED BY <1>1, <1>4, <2>4, <3>1, <3>2
  <2>8. p \in DOMAIN t
    BY <2>7, DirsAbove
  <2>9. Front(p) = d
    <3>1. /\ Front(p) \in Seq(Names) /\ Len(Front(p)) = Len(p) - 1
          /\ \A i \in 1..(Len(p) - 1) : Front(p)[i] = p[i]
      BY <2>6, FrontDef
    <3>2. Len(Front(p)) = Len(d) /\ \A i \in 1..Len(d) : Front(p)[i] = d[i]
      BY <1>1, <1>4, <2>4, <2>5, <3>1
    <3> QED BY <3>1, <3>2, SeqEqual
  <2>10. p \in Children(t, d)
    BY <2>6, <2>8, <2>9 DEF Children, Paths
  <2> QED BY <2>7, <2>10
<1> QED BY <1>2, <1>3, <1>4

LEMMA OpaqueHides ==
    ASSUME TypeOK, NEW e \in Entries, Opaque(e), ~through', status' # "failed"
    PROVE  Hide(tree, tree', created, e) /\ created' = created /\ links' = links
<1>1. PICK d \in Seq(Names) : d = e.path
  BY EntryType
<1>2. e.kind = "opaque" /\ Reads(e) /\ IsFileSystem(tree)
  BY DEF Opaque, TypeOK
<1>3. /\ Real(tree, d) = d /\ ~IsLink(tree, d)
      /\ \A q \in Above(d) : ~IsLink(tree, q)
  BY <1>1, <1>2, OnTheWay
<1>4. Final(tree, d) = d
  BY <1>3 DEF Final
<1>5. PICK ps : ps = Children(tree, d)
  OBVIOUS
<1>6. ASSUME NEW q \in Children(tree, d)
      PROVE  q \in Paths /\ Append(d, Last(q)) = q /\ Real(tree, q) = q
  <2>1. q \in Paths /\ Append(d, Last(q)) = q /\ Front(q) = d
    BY <1>2, OpaqueNames
  <2>2. \A r \in Above(q) : r = d \/ r \in Above(d)
    BY <2>1, FrontAbove
  <2>3. \A r \in Above(q) : ~IsLink(tree, r)
    BY <1>3, <2>2
  <2> QED BY <2>1, <2>3, Straight
<1>7. {Append(d, Last(q)) : q \in Children(tree, d)} = ps
  BY <1>5, <1>6
<1>8. Hides(e, ps)
  BY <1>1, <1>4, <1>7 DEF Opaque, Fail
<1>9. ps \in SUBSET Paths /\ \A p \in ps : Real(tree, p) = p
  BY <1>5, <1>6
<1>10. ASSUME NEW q \in DOMAIN tree
       PROVE  HiddenBy(e, q) <=> \E p \in ps : q = p \/ p \in Above(q)
  <2>1. IsPrefix(d, q) /\ q # d <=> \E p \in ps : q = p \/ p \in Above(q)
    BY <1>2, <1>5, ChildOnTheWay
  <2> QED BY <1>1, <1>2, <2>1 DEF HiddenBy
<1> QED BY <1>8, <1>9, <1>10, HidesHide

LEMMA HideKeeps ==
    ASSUME TypeOK, NEW e \in Entries, Whiteout(e) \/ Opaque(e) \/ Special(e),
           ~through', status' # "failed",
           Layering(lower, tree, archive, created, links, TRUE)
    PROVE  Layering(lower, tree', archive', created', links', TRUE)
<1>1. PICK l, t, u, a, b, c, k :
        /\ l = lower /\ t = tree /\ u = tree' /\ a = archive /\ b = archive'
        /\ c = created /\ k = links
  OBVIOUS
<1>2. Reads(e) /\ ~Lists(e)
  BY DEF Whiteout, Opaque, Special, Lists, ListedKinds
<1>3. /\ a \in Seq(Entries) /\ b \in Seq(Entries) /\ Grows(a, e, b)
      /\ IsFileSystem(t)
  BY <1>1, <1>2, ReadsType DEF TypeOK, Grows
<1>4. IsFileSystem(u)
  <2>1. Extract(e)
    BY DEF Extract
  <2>2. TypeOK'
    BY <2>1, EntryStepType
  <2> QED BY <1>1, <2>2 DEF TypeOK
<1>5. Hide(t, u, c, e) /\ created' = c /\ links' = k
  <2>1. CASE Whiteout(e)
    BY <1>1, <2>1, WhiteoutHides
  <2>2. CASE Opaque(e)
    BY <1>1, <2>2, OpaqueHides
  <2>3. CASE Special(e)
    <3>1. u = t /\ created' = c /\ links' = k /\ e.kind = "special"
      BY <1>1, <2>3 DEF Special, Fail
    <3> QED BY <3>1 DEF Hide, HiddenBy
  <2> QED BY <2>1, <2>2, <2>3
<1>6. Layering(l, u, b, c, k, TRUE)
  BY <1>1, <1>2, <1>3, <1>4, <1>5, HideLayering
<1> QED BY <1>1, <1>5, <1>6

-----------------------------------------------------------------------------
(* The end of the archive.                                                 *)

\* The links that wait after the first.
Rest(k, m) ==
    /\ 1 \in DOMAIN k /\ k[1] = Head(k)
    /\ \A x \in DOMAIN m : x + 1 \in DOMAIN k /\ x + 1 # 1 /\ m[x] = k[x + 1] /\ x \in Nat
    /\ \A y \in DOMAIN k : y = 1 \/ \E x \in DOMAIN m : m[x] = k[y]

LEMMA TailLess ==
    ASSUME NEW k \in Seq(Entries), k # <<>>
    PROVE  Rest(k, Tail(k)) /\ Tail(k) \in Seq(Entries)
<1>0. PICK m : m = Tail(k)
  OBVIOUS
<1>1. Len(k) \in Nat \ {0} /\ DOMAIN k = 1..Len(k)
  BY EmptySeq, LenProperties
<1>2. /\ m \in Seq(Entries) /\ Len(m) = Len(k) - 1 /\ Head(k) = k[1]
      /\ \A i \in 1..Len(m) : m[i] = k[i + 1]
  BY <1>0, HeadTailProperties
<1>3. DOMAIN m = 1..(Len(k) - 1)
  BY <1>2, LenProperties
<1>4. ASSUME NEW y \in DOMAIN k, y # 1
      PROVE  \E x \in DOMAIN m : m[x] = k[y]
  <2>1. y - 1 \in DOMAIN m /\ y - 1 \in 1..Len(m) /\ y - 1 + 1 = y
    BY <1>1, <1>2, <1>3, <1>4
  <2> QED BY <1>2, <2>1
<1>5. ASSUME NEW x \in DOMAIN m
      PROVE  x + 1 \in DOMAIN k /\ x + 1 # 1 /\ m[x] = k[x + 1] /\ x \in Nat
  BY <1>1, <1>2, <1>3
<1> QED BY <1>0, <1>1, <1>2, <1>4, <1>5 DEF Rest

\* What making the first link that waits does.
Linked(t, u, k) ==
    LET r == Head(k).path from == Real(t, Head(k).to)
    IN  /\ r \notin DOMAIN t /\ from \in DOMAIN t /\ t[from].kind \in {"file", "link"}
        /\ \A q \in Above(r) : Kind(t, q) = "dir"
        /\ DOMAIN u = DOMAIN t \cup {r}
        /\ \A q \in DOMAIN u : u[q] = IF q = r THEN t[from] ELSE t[q]

LEMMA LinkLayering ==
    ASSUME NEW l, NEW t, IsFileSystem(t), NEW u, IsFileSystem(u), NEW c,
           NEW a \in Seq(Entries), Once(a), NEW k \in Seq(Entries), k # <<>>,
           NEW m, m = Tail(k), Linked(t, u, k), Layering(l, t, a, c, k, FALSE)
    PROVE  Layering(l, u, a, c, m, FALSE)
<1>1. /\ Recorded(a, c, k) /\ PlainThere(l, t, a) /\ MadeThere(t, a) /\ LowerThere(l, t, a)
      /\ Doomed(t, a, k) \/ Accounted(l, t, a)
      /\ Stumps(t, a, k) /\ BelowDooms(t, a, k) /\ HardThere(l, t, a, k, FALSE)
  BY DEF Layering
<1>2. PICK h, r, from : h = Head(k) /\ r = h.path /\ from = Real(t, h.to)
  OBVIOUS
<1>3. /\ r \notin DOMAIN t /\ from \in DOMAIN t /\ t[from].kind \in {"file", "link"}
      /\ \A q \in Above(r) : Kind(t, q) = "dir"
      /\ DOMAIN u = DOMAIN t \cup {r}
      /\ \A q \in DOMAIN u : u[q] = IF q = r THEN t[from] ELSE t[q]
  BY <1>2 DEF Linked
<1>4. /\ 1 \in DOMAIN k /\ k[1] = h
      /\ \A x \in DOMAIN m : x + 1 \in DOMAIN k /\ x + 1 # 1 /\ m[x] = k[x + 1] /\ x \in Nat
      /\ \A y \in DOMAIN k : y = 1 \/ \E x \in DOMAIN m : m[x] = k[y]
  <2>1. Rest(k, m)
    BY TailLess
  <2> QED BY <1>2, <2>1 DEF Rest
<1>5. \A q \in DOMAIN t : q \in DOMAIN u /\ u[q] = t[q] /\ q # r
  BY <1>3
<1>6. u[r] = t[from] /\ r \in DOMAIN u
  BY <1>3
<1>7. \A p : Pending(k, p) => p = r \/ Pending(m, p)
  <2> SUFFICES ASSUME NEW p, NEW y \in DOMAIN k, k[y].path = p, p # r
               PROVE  Pending(m, p)
    BY DEF Pending
  <2>1. y # 1
    BY <1>2, <1>4
  <2>2. PICK x \in DOMAIN m : m[x] = k[y]
    BY <1>4, <2>1
  <2> QED BY <2>2 DEF Pending
<1>8. PICK i0 \in Listed(a) : a[i0] = h
  BY <1>1, <1>4 DEF Recorded
<1>9. r \in Paths /\ r \in Seq(Names)
  BY <1>2, <1>8, ListedType
<1>10. Recorded(a, c, m)
  <2>1. ASSUME NEW x \in DOMAIN m PROVE \E i \in Listed(a) : a[i] = m[x]
    <3>1. PICK y \in DOMAIN k : m[x] = k[y]
      BY <1>4
    <3>2. PICK i \in Listed(a) : a[i] = k[y]
      BY <1>1 DEF Recorded
    <3> QED BY <3>1, <3>2
  <2>2. ASSUME NEW x \in DOMAIN m, NEW y \in DOMAIN m, m[x].path = m[y].path
        PROVE  x = y
    <3>1. x \in Nat /\ y \in Nat /\ x + 1 \in DOMAIN k /\ y + 1 \in DOMAIN k
      BY <1>4
    <3>2. k[x + 1].path = k[y + 1].path
      BY <1>4, <2>2
    <3>3. x + 1 = y + 1
      BY <1>1, <3>1, <3>2 DEF Recorded
    <3> QED BY <3>1, <3>3
  <2> QED BY <1>1, <2>1, <2>2 DEF Recorded
<1>11. PlainThere(l, u, a)
  BY <1>1, <1>5 DEF PlainThere, Holds
<1>12. MadeThere(u, a)
  <2> SUFFICES ASSUME NEW i \in Listed(a), NEW p \in Above(a[i].path),
                      For(a, p) = {}, ~Replaced(a, p, i)
               PROVE  Kind(u, p) = "dir"
    BY DEF MadeThere
  <2>1. Kind(t, p) = "dir" /\ p \in Paths
    BY <1>1, ListedType, AbovePath DEF MadeThere
  <2>2. p \in DOMAIN t
    BY <2>1, SameNode
  <2> QED BY <1>5, <2>1, <2>2 DEF Kind, Exists
<1>13. LowerThere(l, u, a)
  BY <1>1, <1>5 DEF LowerThere
<1>14. Doomed(t, a, k) => Doomed(u, a, m)
  <2> SUFFICES ASSUME Doomed(t, a, k) PROVE Doomed(u, a, m)
    OBVIOUS
  <2>1. PICK y \in DOMAIN k : Exists(t, k[y].path) \/ Buried(a, k[y].path)
    BY DEF Doomed
  <2>2. CASE y # 1
    <3>1. PICK x \in DOMAIN m : m[x] = k[y]
      BY <1>4, <2>2
    <3>2. Exists(t, k[y].path) => Exists(u, k[y].path)
      BY <1>5 DEF Exists
    <3> QED BY <2>1, <3>1, <3>2 DEF Doomed
  <2>3. CASE y = 1
    <3>1. Buried(a, r)
      BY <1>2, <1>3, <1>4, <2>1, <2>3 DEF Exists
    <3>2. PICK i \in Listed(a) : a[i].path \in Above(r) /\ a[i].kind # "dir"
      BY <3>1 DEF Buried, Burying
    <3>3. PICK j \in Listed(a) : /\ Stump(t, k, a[j].path)
                                 /\ a[j].path \in Above(a[i].path) \cup {a[i].path}
      BY <1>1, <3>2 DEF Stumps
    <3>4. PICK s \in Paths : s = a[j].path
      BY ListedType
    <3>5. s \in Above(r)
      <4>1. PICK q : q = a[i].path
        OBVIOUS
      <4>2. q \in Above(r) /\ (s = q \/ s \in Above(q))
        BY <3>2, <3>3, <3>4, <4>1
      <4> QED BY <1>9, <4>2, AboveOrder
    <3>6. Kind(t, s) = "dir" /\ s # r
      BY <1>3, <1>9, <3>5, AboveOrder
    <3>7. Pending(m, s)
      BY <1>7, <3>3, <3>4, <3>6 DEF Stump
    <3>8. s \in DOMAIN t
      BY <3>6, SameNode
    <3>9. Exists(u, s)
      BY <1>5, <3>8 DEF Exists
    <3> QED BY <3>7, <3>9 DEF Pending, Doomed
  <2> QED BY <2>2, <2>3
<1>15. Doomed(u, a, m) \/ Accounted(l, u, a)
  <2>1. CASE Doomed(t, a, k)
    BY <1>14, <2>1
  <2>2. CASE ~Doomed(t, a, k)
    <3>1. ~Buried(a, r)
      BY <1>2, <1>4, <2>2 DEF Doomed
    <3>2. i0 \in For(a, r) /\ ~Replaced(a, r, i0)
      BY <1>2, <1>8, <3>1 DEF For, Buried, Replaced
    <3> SUFFICES ASSUME NEW p \in DOMAIN u
                 PROVE  \/ \E i \in For(a, p) \cup Holding(a, p) : ~Replaced(a, p, i)
                        \/ p \in DOMAIN Visible(l, a) /\ For(a, p) = {} /\ ~Buried(a, p)
      BY DEF Accounted
    <3>3. CASE p = r
      BY <3>2, <3>3
    <3>4. CASE p \in DOMAIN t
      BY <1>1, <2>2, <3>4 DEF Accounted
    <3> QED BY <1>3, <3>3, <3>4
  <2> QED BY <2>1, <2>2
<1>16. Stumps(u, a, m)
  <2> SUFFICES ASSUME NEW j \in Listed(a), Stump(t, k, a[j].path)
               PROVE  Stump(u, m, a[j].path)
    BY <1>1 DEF Stumps
  <2>1. PICK s \in Paths : s = a[j].path
    BY ListedType
  <2>2. CASE s = r
    <3>1. Kind(u, s) = t[from].kind
      BY <1>6, <1>9, <2>2 DEF Kind, Exists, Paths
    <3> QED BY <1>3, <2>1, <3>1 DEF Stump
  <2>3. CASE Pending(k, s) /\ s # r
    BY <1>7, <2>1, <2>3 DEF Stump
  <2>4. CASE Kind(t, s) \in {"file", "link"}
    <3>1. s \in DOMAIN t
      BY <2>4, SameNode
    <3> QED BY <1>5, <2>1, <2>4, <3>1 DEF Stump, Kind, Exists
  <2> QED BY <2>1, <2>2, <2>3, <2>4 DEF Stump
<1>17. BelowDooms(u, a, m)
  BY <1>1, <1>14 DEF BelowDooms
<1>18. HardThere(l, u, a, m, FALSE)
  <2> SUFFICES ASSUME NEW i \in Listed(a), a[i].kind = "hardlink",
                      ~Replaced(a, a[i].path, i)
               PROVE  HardIs(l, u, a, m, FALSE, i)
    BY DEF HardThere
  <2>1. PICK p, to : p = a[i].path /\ to = a[i].to
    OBVIOUS
  <2>2. HardIs(l, t, a, k, FALSE, i)
    BY <1>1 DEF HardThere
  <2>3. \A n : Holds(t, p, n) => Holds(u, p, n)
    BY <1>5 DEF Holds
  <2>4. FromEarlier(a, i) => Holds(u, p, File("new"))
    BY <2>1, <2>2, <2>3 DEF HardIs
  <2>5. FromLower(l, a, i) => Holds(u, p, l[to])
    BY <2>1, <2>2, <2>3 DEF HardIs
  <2>6. FromLater(l, a, i) =>
            Pending(m, p) \/ For(a, to) = {} \/ Holds(u, p, File("new"))
    <3> SUFFICES ASSUME FromLater(l, a, i), ~Pending(m, p), For(a, to) # {}
                 PROVE  Holds(u, p, File("new"))
      OBVIOUS
    <3>1. Pending(k, p) \/ Holds(t, p, File("new"))
      BY <2>1, <2>2 DEF HardIs
    <3>2. CASE Pending(k, p)
      <4>1. p = r
        BY <1>7, <3>2
      <4>2. i = i0
        BY <1>2, <1>8, <2>1, <4>1 DEF Once
      <4>3. h.to = to
        BY <1>8, <2>1, <4>2
      <4>4. PICK j \in Listed(a) : a[j].path = to /\ a[j].kind = "file"
        BY <2>1 DEF FromLater, For
      <4>5. ~Replaced(a, to, j)
        BY <2>1 DEF FromLater, Buried, Replaced
      <4>6. Placed(l, a, a[j]) = File("new")
        BY <4>4 DEF Placed
      <4>7. Holds(t, to, File("new"))
        BY <1>1, <4>4, <4>5, <4>6 DEF PlainThere
      <4>8. \A q \in Above(to) : ~IsLink(t, q)
        <5>1. \A q \in Above(to) : Kind(t, q) = "dir"
          BY <4>7 DEF Holds, IsFileSystem
        <5> QED BY <5>1 DEF IsLink
      <4>9. from = to
        BY <1>2, <4>3, <4>8, Straight
      <4> QED BY <1>6, <4>1, <4>7, <4>9 DEF Holds, Same
    <3> QED BY <2>3, <3>1, <3>2
  <2> QED BY <2>1, <2>4, <2>5, <2>6 DEF HardIs
<1> QED BY <1>10, <1>11, <1>12, <1>13, <1>15, <1>16, <1>17, <1>18 DEF Layering

\* A mode changes neither names nor contents.
SameShape(t, u) == DOMAIN u = DOMAIN t /\ \A q \in DOMAIN t : Same(u[q], t[q])

LEMMA ShapeLayering ==
    ASSUME NEW l, NEW t, NEW u, SameShape(t, u), NEW a, NEW c, NEW k, NEW reading,
           Layering(l, t, a, c, k, reading)
    PROVE  Layering(l, u, a, c, k, reading)
<1>1. /\ DOMAIN u = DOMAIN t
      /\ \A q \in DOMAIN t : u[q].kind = t[q].kind /\ u[q].data = t[q].data /\ u[q].to = t[q].to
  BY DEF SameShape, Same
<1>2. /\ \A q : Kind(u, q) = Kind(t, q)
      /\ \A q : Exists(u, q) <=> Exists(t, q)
      /\ \A q, n : Holds(t, q, n) => Holds(u, q, n)
  BY <1>1 DEF Kind, Exists, Holds, Same
<1>3. /\ Recorded(a, c, k) /\ PlainThere(l, t, a) /\ MadeThere(t, a) /\ LowerThere(l, t, a)
      /\ (~reading /\ Doomed(t, a, k)) \/ Accounted(l, t, a)
      /\ Stumps(t, a, k) /\ BelowDooms(t, a, k) /\ HardThere(l, t, a, k, reading)
  BY DEF Layering
<1>4. PlainThere(l, u, a) /\ MadeThere(u, a)
  BY <1>2, <1>3 DEF PlainThere, MadeThere
<1>5. LowerThere(l, u, a)
  BY <1>1, <1>3 DEF LowerThere, Same
<1>6. Doomed(t, a, k) <=> Doomed(u, a, k)
  BY <1>2 DEF Doomed
<1>7. Accounted(l, t, a) => Accounted(l, u, a)
  BY <1>1 DEF Accounted
<1>8. Stumps(u, a, k)
  <2>1. \A p : Stump(t, k, p) => Stump(u, k, p)
    BY <1>2 DEF Stump
  <2> QED BY <1>3, <2>1 DEF Stumps
<1>9. BelowDooms(u, a, k)
  BY <1>3, <1>6 DEF BelowDooms
<1>10. HardThere(l, u, a, k, reading)
  <2> SUFFICES ASSUME NEW i \in Listed(a), HardIs(l, t, a, k, reading, i)
               PROVE  HardIs(l, u, a, k, reading, i)
    BY <1>3 DEF HardThere
  <2> QED BY <1>2 DEF HardIs
<1> QED BY <1>3, <1>4, <1>5, <1>6, <1>7, <1>8, <1>9, <1>10 DEF Layering

\* At the end less is asked.
LEMMA EndLayering ==
    ASSUME NEW l, NEW t, NEW a, NEW c, NEW k, Layering(l, t, a, c, k, TRUE)
    PROVE  Layering(l, t, a, c, k, FALSE)
<1>1. HardThere(l, t, a, k, TRUE) => HardThere(l, t, a, k, FALSE)
  BY DEF HardThere, HardIs
<1> QED BY <1>1 DEF Layering

LEMMA MakeLinkKeeps ==
    ASSUME TypeOK, MakeLink, ~through', status' # "unfinished", Once(archive),
           Layering(lower, tree, archive, created, links, FALSE)
    PROVE  Layering(lower, tree', archive', created', links', FALSE)
<1>1. PICK l, t, u, a, c, k, m :
        /\ l = lower /\ t = tree /\ u = tree' /\ a = archive /\ c = created
        /\ k = links /\ m = links'
  OBVIOUS
<1>2. CanLink(tree, Head(links)) /\ k # <<>> /\ m = Tail(k)
  BY <1>1 DEF MakeLink
<1>3. archive' = a /\ created' = c
  BY <1>1 DEF MakeLink
<1>4. k \in Seq(Entries)
  <2>1. k \in Seq(Waiting(created))
    BY <1>1 DEF TypeOK, Waiting
  <2>2. Waiting(created) \subseteq Entries
    BY DEF Waiting
  <2> QED BY <2>1, <2>2, SeqMonotonic
<1>5. a \in Seq(Entries) /\ IsFileSystem(t) /\ Once(a)
  BY <1>1 DEF TypeOK
<1>6. \A q \in Above(Head(links).path) : ~IsLink(tree, q)
  BY DEF MakeLink
<1>7. Real(tree, Head(links).path) = Head(links).path
  BY <1>6, Straight
<1>8. Linked(t, u, k) /\ IsFileSystem(u)
  <2>1. PICK r, from : r = Real(tree, Head(links).path) /\ from = Real(tree, Head(links).to)
    OBVIOUS
  <2>2. /\ r \notin DOMAIN tree /\ from \in DOMAIN tree
        /\ tree[from].kind \in {"file", "link"}
        /\ \A q \in Above(r) : Kind(tree, q) = "dir"
        /\ IsFileSystem(u) /\ DOMAIN u = DOMAIN tree \cup {r}
        /\ \A q \in DOMAIN u : u[q] = IF q = r THEN tree[from] ELSE tree[q]
    BY <1>1, <1>2, <2>1, MakeLinkTree
  <2>3. r = Head(k).path /\ from = Real(t, Head(k).to)
    BY <1>1, <1>7, <2>1
  <2> QED BY <1>1, <2>2, <2>3 DEF Linked
<1>9. Layering(l, t, a, c, k, FALSE)
  BY <1>1
<1>10. Layering(l, u, a, c, m, FALSE)
  BY <1>2, <1>4, <1>5, <1>8, <1>9, LinkLayering
<1> QED BY <1>1, <1>3, <1>10

LEMMA ApplyModeKeeps ==
    ASSUME TypeOK, NEW m \in modes, ApplyMode(m), status' # "unfinished"
    PROVE  SameShape(tree, tree')
<1>1. PICK p : p = Final(tree, m.path)
  OBVIOUS
<1>2. p \in DOMAIN tree /\ IsFileSystem(tree) /\ m.open \in BOOLEAN
  BY <1>1 DEF ApplyMode, Exists, TypeOK
<1>3. tree' = IF Kind(tree, p) = "dir" THEN [tree EXCEPT ![p].open = m.open] ELSE tree
  BY <1>1, <1>2 DEF ApplyMode, Exists
<1>4. PICK u : u = tree'
  OBVIOUS
<1>5. /\ DOMAIN u = DOMAIN tree
      /\ \A q \in DOMAIN tree : u[q].kind = tree[q].kind /\ u[q].data = tree[q].data
                                /\ u[q].to = tree[q].to
  BY <1>2, <1>3, <1>4, ModeTree
<1> QED BY <1>4, <1>5 DEF SameShape, Same

LEMMA InitLayering ==
    ASSUME NEW l, IsFileSystem(l)
    PROVE  Layering(l, l, <<>>, {}, <<>>, TRUE)
<1>1. PICK a, k, c : a = <<>> /\ k = <<>> /\ c = {}
  OBVIOUS
<1>2. DOMAIN a = {} /\ DOMAIN k = {}
  BY <1>1, EmptySeq, LenProperties
<1>3. Listed(a) = {} /\ \A p : For(a, p) = {} /\ Holding(a, p) = {} /\ ~Buried(a, p)
  BY <1>2 DEF Listed, For, Holding, Buried, Burying
<1>4. \A p \in DOMAIN l : p \in DOMAIN Visible(l, a)
  BY <1>2, VisibleDef
<1>5. \A p \in DOMAIN Visible(l, a) : p \in DOMAIN l
  BY VisibleDef
<1>6. Recorded(a, c, k)
  BY <1>1, <1>2, <1>3 DEF Recorded
<1>7. PlainThere(l, l, a) /\ MadeThere(l, a) /\ Stumps(l, a, k) /\ HardThere(l, l, a, k, TRUE)
  BY <1>3 DEF PlainThere, MadeThere, Stumps, HardThere
<1>8. LowerThere(l, l, a)
  BY <1>5 DEF LowerThere, Same
<1>9. Accounted(l, l, a)
  BY <1>3, <1>4 DEF Accounted
<1>10. BelowDooms(l, a, k)
  BY <1>3 DEF BelowDooms, Below
<1>11. Layering(l, l, a, c, k, TRUE)
  BY <1>6, <1>7, <1>8, <1>9, <1>10 DEF Layering
<1> QED BY <1>1, <1>11

\* A step that is not refused and meets no link started from a state that met none.
LEMMA EntryKeeps ==
    ASSUME TypeOK, LayerInv, NEW e \in Entries, Extract(e)
    PROVE  LayerInv'
<1>1. Reads(e)
  BY DEF Extract, ExtractDir, ExtractFile, ExtractSymlink, ExtractHardlink, Whiteout, Opaque,
         Special
<1>2. /\ status = "reading" /\ archive' = Append(archive, e) /\ lower' = lower
      /\ archive' \in Seq(Entries) /\ archive \in Seq(Entries)
  BY <1>1, ReadsType DEF TypeOK
<1>3. status' \in {"reading", "failed"}
  BY <1>2 DEF Extract, ExtractDir, ExtractFile, ExtractSymlink, ExtractHardlink, Replaces, Whiteout,
         Opaque, Special, Hides, Fail
<1>4. CASE status' = "failed" \/ through' \/ ~Once(archive')
  BY <1>3, <1>4 DEF LayerInv, Regular
<1>5. CASE status' # "failed" /\ ~through' /\ Once(archive')
  <2>1. ~through
    BY <1>1, <1>5 DEF Reads
  <2>2. PICK a, b : a = archive /\ b = archive'
    OBVIOUS
  <2>3. Grows(a, e, b) /\ a \in Seq(Entries) /\ b \in Seq(Entries) /\ Once(b)
    BY <1>2, <1>5, <2>2 DEF Grows
  <2>4. Once(a)
    BY <2>3, OnceBefore
  <2>5. Layering(lower, tree, archive, created, links, TRUE)
    BY <1>2, <2>1, <2>2, <2>4 DEF LayerInv, Regular
  <2>6. Layering(lower, tree', archive', created', links', TRUE)
    <3>1. CASE ExtractDir(e) \/ ExtractFile(e) \/ ExtractSymlink(e) \/ ExtractHardlink(e)
      BY <1>5, <2>5, <3>1, ExtractKeeps
    <3>2. CASE Whiteout(e) \/ Opaque(e) \/ Special(e)
      BY <1>5, <2>5, <3>2, HideKeeps
    <3> QED BY <3>1, <3>2 DEF Extract
  <2> QED BY <1>2, <1>3, <1>5, <2>6 DEF LayerInv
<1> QED BY <1>4, <1>5

LEMMA NextLayerInv ==
    ASSUME TypeOK, LayerInv, [Next]_vars
    PROVE  LayerInv'
<1>1. ASSUME NEW e \in Entries, Extract(e) PROVE LayerInv'
  BY <1>1, EntryKeeps
<1>2. ASSUME NEW e \in Entries, Unread(e) PROVE LayerInv'
  BY <1>2 DEF Unread, LayerInv, Regular
<1>3. CASE EndOfArchive
  <2>1. /\ status = "reading" /\ status' = "ending"
        /\ UNCHANGED <<lower, tree, archive, created, links, modes, through>>
    BY <1>3 DEF EndOfArchive
  <2>2. Regular' => Regular
    BY <2>1 DEF Regular
  <2>3. Regular => Layering(lower, tree, archive, created, links, FALSE)
    BY <2>1, EndLayering DEF LayerInv
  <2>4. Regular' => Layering(lower', tree', archive', created', links', FALSE)
    BY <2>1, <2>2, <2>3
  <2> QED BY <2>1, <2>4 DEF LayerInv
<1>4. CASE MakeLink
  <2>1. /\ status = "ending" /\ status' \in {"ending", "unfinished"}
        /\ UNCHANGED <<lower, archive, created, modes>>
        /\ ~through' => ~through
    BY <1>4 DEF MakeLink
  <2>2. CASE ~Regular'
    BY <2>1, <2>2 DEF LayerInv
  <2>3. CASE Regular'
    <3>0. status' = "ending" /\ ~through' /\ Once(archive')
      BY <2>1, <2>3 DEF Regular
    <3>1. ~through /\ Once(archive)
      BY <2>1, <3>0
    <3>2. Layering(lower, tree, archive, created, links, FALSE)
      BY <2>1, <3>1 DEF LayerInv, Regular
    <3>3. Layering(lower, tree', archive', created', links', FALSE)
      BY <1>4, <3>0, <3>1, <3>2, MakeLinkKeeps
    <3>4. Layering(lower', tree', archive', created', links', FALSE)
      BY <2>1, <3>3
    <3> QED BY <3>0, <3>4 DEF LayerInv
  <2> QED BY <2>2, <2>3
<1>5. ASSUME NEW m \in modes, ApplyMode(m) PROVE LayerInv'
  <2>1. /\ status = "ending" /\ status' \in {"ending", "unfinished"}
        /\ UNCHANGED <<lower, archive, created, links, through>>
    BY <1>5 DEF ApplyMode
  <2>2. CASE ~Regular'
    BY <2>1, <2>2 DEF LayerInv
  <2>3. CASE Regular'
    <3>1. status' = "ending" /\ Regular
      BY <2>1, <2>3 DEF Regular
    <3>2. PICK l, t, u, a, c, k :
            /\ l = lower /\ t = tree /\ u = tree' /\ a = archive /\ c = created /\ k = links
      OBVIOUS
    <3>3. Layering(l, t, a, c, k, FALSE)
      BY <2>1, <3>1, <3>2 DEF LayerInv
    <3>4. SameShape(t, u)
      BY <1>5, <3>1, <3>2, ApplyModeKeeps
    <3>5. Layering(l, u, a, c, k, FALSE)
      BY <3>3, <3>4, ShapeLayering
    <3>6. Layering(lower', tree', archive', created', links', FALSE)
      BY <2>1, <3>2, <3>5
    <3> QED BY <3>1, <3>6 DEF LayerInv
  <2> QED BY <2>2, <2>3
<1>6. CASE Finish
  <2>1. /\ status = "ending" /\ status' = "read" /\ links = <<>> /\ modes = {}
        /\ UNCHANGED <<lower, tree, archive, created, links, modes, through>>
    BY <1>6 DEF Finish
  <2>2. Regular' => Regular
    BY <2>1 DEF Regular
  <2>3. Regular' => Layering(lower', tree', archive', created', links', FALSE)
    BY <2>1, <2>2 DEF LayerInv
  <2> QED BY <2>1, <2>3 DEF LayerInv
<1>7. CASE Validate
  BY <1>7 DEF Validate, LayerInv, Regular
<1>8. CASE UNCHANGED vars
  BY <1>8 DEF vars, LayerInv, Regular
<1> QED BY <1>1, <1>2, <1>3, <1>4, <1>5, <1>6, <1>7, <1>8 DEF Next

LEMMA Layers == Spec => []LayerInv
<1>1. Init => LayerInv
  <2> SUFFICES ASSUME Init PROVE LayerInv
    OBVIOUS
  <2>1. /\ lower \in Lowers /\ tree = lower /\ archive = <<>> /\ created = {} /\ links = <<>>
        /\ status = "reading"
    BY DEF Init
  <2>2. PICK l : l = lower /\ IsFileSystem(l)
    BY <2>1, LowersAssumption
  <2>3. Layering(l, l, <<>>, {}, <<>>, TRUE)
    BY <2>2, InitLayering
  <2>4. Layering(lower, tree, archive, created, links, TRUE)
    BY <2>1, <2>2, <2>3
  <2> QED BY <2>1, <2>4 DEF LayerInv
<1>2. TypeOK /\ LayerInv /\ [Next]_vars => LayerInv'
  BY NextLayerInv
<1> QED BY <1>1, <1>2, TypeCorrect, PTL DEF Spec

-----------------------------------------------------------------------------
(* What is extracted is the layer.                                         *)

LEMMA NothingWaits ==
    ASSUME NEW l, NEW t, NEW a, NEW c, NEW k, k = <<>>, Layering(l, t, a, c, k, FALSE)
    PROVE  /\ PlainThere(l, t, a) /\ MadeThere(t, a) /\ LowerThere(l, t, a)
           /\ Accounted(l, t, a) /\ ~Below(a) /\ HardThere(l, t, a, k, FALSE)
           /\ \A p : ~Pending(k, p)
<1>1. DOMAIN k = {}
  BY EmptySeq, LenProperties
<1>2. ~Doomed(t, a, k) /\ \A p : ~Pending(k, p)
  BY <1>1 DEF Doomed, Pending
<1>3. Accounted(l, t, a) /\ ~Below(a)
  BY <1>2 DEF Layering, BelowDooms
<1> QED BY <1>2, <1>3 DEF Layering

\* Every entry that nothing replaced is there, hard links included.
LEMMA PlacedThere ==
    ASSUME NEW l, NEW t, NEW a \in Seq(Entries), Once(a), Grounded(l, a),
           NEW c, NEW k, k = <<>>, Layering(l, t, a, c, k, FALSE),
           NEW i \in Listed(a), ~Replaced(a, a[i].path, i)
    PROVE  Holds(t, a[i].path, Placed(l, a, a[i]))
<1>1. /\ PlainThere(l, t, a) /\ HardThere(l, t, a, k, FALSE)
      /\ \A p : ~Pending(k, p)
  BY NothingWaits
<1>2. CASE a[i].kind # "hardlink"
  BY <1>1, <1>2 DEF PlainThere
<1>3. CASE a[i].kind = "hardlink"
  <2>1. PICK p, to : p = a[i].path /\ to = a[i].to
    OBVIOUS
  <2>2. HardIs(l, t, a, k, FALSE, i)
    BY <1>1, <1>3 DEF HardThere
  <2>3. /\ ~Buried(a, to) /\ \A j \in For(a, to) : a[j].kind = "file"
        /\ \/ \E j \in For(a, to) : j < i
           \/ For(a, to) # {} /\ ~Exists(l, to) /\ Clean(l, to)
           \/ For(a, to) = {} /\ Kind(Visible(l, a), to) = "file"
    BY <1>3, <2>1 DEF Grounded
  <2>4. Placed(l, a, a[i]) = IF For(a, to) # {} THEN File("new") ELSE l[to]
    BY <1>3, <2>1 DEF Placed
  <2>5. CASE \E j \in For(a, to) : j < i
    <3>1. FromEarlier(a, i)
      BY <2>1, <2>3, <2>5 DEF FromEarlier
    <3> QED BY <2>1, <2>2, <2>4, <2>5, <3>1 DEF HardIs
  <2>6. CASE For(a, to) # {} /\ ~Exists(l, to) /\ Clean(l, to) /\ ~(\E j \in For(a, to) : j < i)
    <3>1. ASSUME NEW j \in For(a, to) PROVE j > i /\ a[j].kind = "file"
      <4>1. j \in Nat /\ i \in Nat /\ j # i /\ ~(j < i)
        BY <1>3, <2>3, <2>6, ListedType DEF For
      <4> QED BY <2>3, <4>1
    <3>2. FromLater(l, a, i)
      BY <2>1, <2>3, <2>6, <3>1 DEF FromLater
    <3>3. Holds(t, p, File("new"))
      BY <1>1, <2>1, <2>2, <2>6, <3>2 DEF HardIs
    <3> QED BY <2>1, <2>4, <2>6, <3>3
  <2>7. CASE For(a, to) = {} /\ Kind(Visible(l, a), to) = "file"
    <3>1. FromLower(l, a, i)
      BY <2>1, <2>3, <2>7 DEF FromLower
    <3>2. Holds(t, p, l[to])
      BY <2>1, <2>2, <3>1 DEF HardIs
    <3> QED BY <2>1, <2>4, <2>7, <3>2
  <2> QED BY <2>3, <2>5, <2>6, <2>7
<1> QED BY <1>2, <1>3

\* What an entry places is a node.
LEMMA PlacedNode ==
    ASSUME NEW l, IsFileSystem(l), NEW a \in Seq(Entries), Grounded(l, a),
           NEW i \in Listed(a)
    PROVE  Placed(l, a, a[i]) \in Nodes
<1>1. a[i].to \in Seq(Names) /\ a[i].kind \in ListedKinds
  BY ListedType
<1>2. CASE a[i].kind = "dir"
  BY <1>2, NodeType DEF Placed
<1>3. CASE a[i].kind = "file"
  BY <1>3, NodeType DEF Placed
<1>4. CASE a[i].kind = "symlink"
  BY <1>1, <1>4, NodeType DEF Placed
<1>5. CASE a[i].kind = "hardlink"
  <2>1. PICK to : to = a[i].to
    OBVIOUS
  <2>2. Placed(l, a, a[i]) = IF For(a, to) # {} THEN File("new") ELSE l[to]
    BY <1>5, <2>1 DEF Placed
  <2>3. For(a, to) = {} => Kind(Visible(l, a), to) = "file"
    BY <1>5, <2>1 DEF Grounded
  <2>4. For(a, to) = {} => to \in DOMAIN l
    BY <2>3, VisibleDef DEF Kind, Exists
  <2> QED BY <2>2, <2>4, NodeType, KindCases
<1> QED BY <1>1, <1>2, <1>3, <1>4, <1>5 DEF ListedKinds

\* An entry of a path counts when the path is still in a directory.
LEMMA StillThere ==
    ASSUME NEW a \in Seq(Entries), Once(a), ~Below(a), NEW p,
           NEW i \in For(a, p) \cup Holding(a, p), ~Replaced(a, p, i), NEW j \in For(a, p)
    PROVE  ~Replaced(a, p, j)
<1>1. /\ i \in Listed(a) /\ j \in Listed(a) /\ a[j].path = p
      /\ a[i].path = p \/ p \in Above(a[i].path)
  BY DEF For, Holding
<1>2. CASE a[i].path = p
  BY <1>1, <1>2 DEF Once
<1>3. CASE p \in Above(a[i].path)
  <2> SUFFICES ASSUME NEW x \in Burying(a, p) PROVE ~(x > j)
    BY DEF Replaced
  <2>1. x \in Listed(a) /\ a[x].path \in Above(p) /\ a[x].kind # "dir"
    BY DEF Burying
  <2>2. PICK r : r = a[i].path
    OBVIOUS
  <2>3. r \in Seq(Names) /\ i \in Nat /\ x \in Nat /\ p \in Seq(Names)
    BY <1>1, <2>1, <2>2, ListedType
  <2>4. a[x].path \in Above(r) /\ a[x].path # r
    <3>1. PICK q : q = a[x].path
      OBVIOUS
    <3>2. q \in Above(p) /\ p \in Above(r)
      BY <1>3, <2>1, <2>2, <3>1
    <3>3. q \in Above(r)
      BY <2>3, <3>2, AboveOrder
    <3> QED BY <2>3, <3>1, <3>3, AboveOrder
  <2>5. ~(x < i)
    BY <1>1, <2>1, <2>2, <2>4 DEF Below
  <2>6. x # i
    BY <2>2, <2>4
  <2>7. ~(x > i)
    BY DEF Replaced
  <2> QED BY <2>3, <2>5, <2>6, <2>7
<1> QED BY <1>1, <1>2, <1>3

LEMMA LayeredDef ==
    ASSUME NEW l, NEW a
    PROVE  /\ \A p : p \in DOMAIN Layered(l, a) <=>
                \/ \E i \in For(a, p) \cup Holding(a, p) : ~Replaced(a, p, i)
                \/ p \in DOMAIN Visible(l, a) /\ For(a, p) = {} /\ ~Buried(a, p)
           /\ \A p \in DOMAIN Layered(l, a) : Layered(l, a)[p] =
                IF For(a, p) # {} THEN Placed(l, a, a[CHOOSE i \in For(a, p) : TRUE])
                ELSE IF Holding(a, p) # {} THEN Dir(TRUE) ELSE l[p]
<1>1. PICK all : all = UNION {Above(a[i].path) \cup {a[i].path} : i \in Listed(a)}
  OBVIOUS
<1>2. ASSUME NEW p, NEW i \in For(a, p) \cup Holding(a, p)
      PROVE  p \in all
  <2>1. i \in Listed(a) /\ p \in Above(a[i].path) \cup {a[i].path}
    BY <1>2 DEF For, Holding
  <2> QED BY <1>1, <2>1
<1> QED BY <1>1, <1>2 DEF Layered

LEMMA SameShaped ==
    ASSUME NEW m \in Nodes, NEW n \in Nodes, Same(m, n)
    PROVE  [m EXCEPT !.open = TRUE] = [n EXCEPT !.open = TRUE]
BY DEF Same, Nodes

LEMMA LayeredIs ==
    ASSUME NEW l, IsFileSystem(l), NEW t, IsFileSystem(t), NEW a \in Seq(Entries),
           Once(a), Grounded(l, a), NEW c, NEW k, k = <<>>, Layering(l, t, a, c, k, FALSE)
    PROVE  Shape(t) = Shape(Layered(l, a))
<1>1. /\ MadeThere(t, a) /\ LowerThere(l, t, a) /\ Accounted(l, t, a) /\ ~Below(a)
  BY NothingWaits
<1>2. PICK L : L = Layered(l, a)
  OBVIOUS
<1>3. /\ \A p : p \in DOMAIN L <=>
            \/ \E i \in For(a, p) \cup Holding(a, p) : ~Replaced(a, p, i)
            \/ p \in DOMAIN Visible(l, a) /\ For(a, p) = {} /\ ~Buried(a, p)
      /\ \A p \in DOMAIN L : L[p] =
            IF For(a, p) # {} THEN Placed(l, a, a[CHOOSE i \in For(a, p) : TRUE])
            ELSE IF Holding(a, p) # {} THEN Dir(TRUE) ELSE l[p]
  BY <1>2, LayeredDef
<1>4. \A p \in DOMAIN t : p \in DOMAIN L
  BY <1>1, <1>3 DEF Accounted
<1>5. ASSUME NEW p \in DOMAIN L
      PROVE  p \in DOMAIN t /\ L[p] \in Nodes /\ Same(t[p], L[p])
  <2>1. CASE For(a, p) # {}
    <3>1. PICK j : j = CHOOSE i \in For(a, p) : TRUE
      OBVIOUS
    <3>2. j \in For(a, p) /\ j \in Listed(a) /\ a[j].path = p /\ L[p] = Placed(l, a, a[j])
      BY <1>3, <2>1, <3>1 DEF For
    <3>3. PICK i \in For(a, p) \cup Holding(a, p) : ~Replaced(a, p, i)
      BY <1>3, <2>1
    <3>4. ~Replaced(a, p, j)
      BY <1>1, <3>2, <3>3, StillThere
    <3>5. Holds(t, p, L[p])
      BY <3>2, <3>4, PlacedThere
    <3>6. L[p] \in Nodes
      BY <3>2, PlacedNode
    <3> QED BY <3>5, <3>6 DEF Holds
  <2>2. CASE For(a, p) = {} /\ Holding(a, p) # {}
    <3>1. L[p] = Dir(TRUE)
      BY <1>3, <2>2
    <3>2. PICK i \in Holding(a, p) : ~Replaced(a, p, i)
      <4>1. CASE \E i \in Holding(a, p) : ~Replaced(a, p, i)
        BY <4>1
      <4>2. CASE ~Buried(a, p)
        <5>1. \A i : ~Replaced(a, p, i)
          BY <4>2 DEF Buried, Replaced
        <5> QED BY <2>2, <5>1
      <4> QED BY <1>3, <2>2, <4>1, <4>2
    <3>3. i \in Listed(a) /\ p \in Above(a[i].path) /\ p \in Paths
      BY <3>2, ListedType, AbovePath DEF Holding
    <3>4. Kind(t, p) = "dir"
      BY <1>1, <2>2, <3>2, <3>3 DEF MadeThere
    <3>5. Holds(t, p, Dir(TRUE))
      BY <3>3, <3>4, SameNode
    <3> QED BY <3>1, <3>5, NodeType DEF Holds
  <2>3. CASE For(a, p) = {} /\ Holding(a, p) = {}
    <3>1. p \in DOMAIN Visible(l, a) /\ ~Buried(a, p) /\ L[p] = l[p]
      BY <1>3, <2>3
    <3>2. p \in DOMAIN t /\ Same(t[p], l[p]) /\ p \in DOMAIN l
      BY <1>1, <2>3, <3>1, VisibleDef DEF LowerThere
    <3>3. l[p] \in Nodes
      BY <3>2, KindCases
    <3> QED BY <3>1, <3>2, <3>3
  <2> QED BY <2>1, <2>2, <2>3
<1>6. DOMAIN t = DOMAIN L
  BY <1>4, <1>5
<1>7. \A p \in DOMAIN t : [t[p] EXCEPT !.open = TRUE] = [L[p] EXCEPT !.open = TRUE]
  <2> TAKE p \in DOMAIN t
  <2>1. t[p] \in Nodes /\ L[p] \in Nodes /\ Same(t[p], L[p])
    BY <1>5, <1>6, KindCases
  <2> QED BY <2>1, SameShaped
<1> QED BY <1>2, <1>6, <1>7 DEF Shape

\* Whatever the lower layers and the order of its entries, a layer that is read
\* without a link on the way is what the image specification makes of it: its
\* whiteouts spare what it lists, before or after them, an entry replaces what is
\* at its path and below, and hard links have the contents of their targets, the
\* ones that waited for them included.
THEOREM LayersFollowImageSpec == Spec => []FollowsImageSpec
<1>1. TypeOK /\ LayerInv => FollowsImageSpec
  <2> SUFFICES ASSUME TypeOK, LayerInv, status = "read", ~through, Once(archive),
                      Grounded(lower, archive)
               PROVE  Shape(tree) = Shape(Layered(lower, archive))
    BY DEF FollowsImageSpec
  <2>1. PICK l, t, a, c, k : /\ l = lower /\ t = tree /\ a = archive
                             /\ c = created /\ k = links
    OBVIOUS
  <2>2. Layering(l, t, a, c, k, FALSE) /\ k = <<>>
    BY <2>1 DEF LayerInv, Regular
  <2>3. /\ IsFileSystem(l) /\ IsFileSystem(t) /\ a \in Seq(Entries)
        /\ Once(a) /\ Grounded(l, a)
    BY <2>1, LowersAssumption DEF TypeOK
  <2>4. Shape(t) = Shape(Layered(l, a))
    BY <2>2, <2>3, LayeredIs
  <2> QED BY <2>1, <2>4
<1> QED BY <1>1, TypeCorrect, Layers, PTL

-----------------------------------------------------------------------------
(* Modes.                                                                  *)

ModeOf(e)   == [path |-> e.path, open |-> Opens(e.mode)]
Dirs(a)     == {i \in Listed(a) : a[i].kind = "dir"}
DirsKept(a) == \A i \in Dirs(a) : ~Buried(a, a[i].path)

\* The modes that wait are those of listed directories, and the others of them
\* have been given.
Moded(t, a, ms, reading) ==
    /\ \A m \in ms : \E i \in Dirs(a) : m = ModeOf(a[i])
    /\ \A i \in Dirs(a) : ModeOf(a[i]) \in ms \/ (~reading /\ t[a[i].path].open = Opens(a[i].mode))

ModeInv ==
    Regular /\ DirsKept(archive) =>
        /\ status = "reading" => Moded(tree, archive, modes, TRUE)
        /\ status # "reading" => Moded(tree, archive, modes, FALSE)

LEMMA DirsMore ==
    ASSUME NEW a \in Seq(Entries), NEW e \in Entries, NEW b \in Seq(Entries), Grows(a, e, b)
    PROVE  /\ Dirs(b) = Dirs(a) \cup {n \in {Len(b)} : e.kind = "dir"} /\ b[Len(b)] = e
           /\ \A i \in Dirs(a) : b[i] = a[i]
           /\ DirsKept(b) => DirsKept(a)
<1>1. PICK n : n = Len(b)
  OBVIOUS
<1>2. CASE Lists(e)
  <2>1. /\ b[n] = e /\ Listed(b) = Listed(a) \cup {n}
        /\ \A i \in Listed(a) : b[i] = a[i]
        /\ \A p : Buried(a, p) => Buried(b, p)
    BY <1>1, <1>2, ListedMore
  <2>2. Dirs(b) = Dirs(a) \cup {x \in {n} : e.kind = "dir"}
    BY <2>1 DEF Dirs
  <2> QED BY <1>1, <2>1, <2>2 DEF Dirs, DirsKept
<1>3. CASE ~Lists(e)
  <2>1. /\ Listed(b) = Listed(a) /\ \A i \in Listed(a) : b[i] = a[i]
        /\ \A p : Buried(a, p) => Buried(b, p)
    BY <1>3, ListedSame
  <2>2. e.kind # "dir" /\ b[n] = e
    BY ZenonT(30), <1>1, <1>3, Appended DEF Lists, ListedKinds
  <2>3. Dirs(b) = Dirs(a) \cup {x \in {n} : e.kind = "dir"}
    BY <2>1, <2>2 DEF Dirs
  <2> QED BY <1>1, <2>1, <2>2, <2>3 DEF Dirs, DirsKept
<1> QED BY <1>2, <1>3

\* While the archive is read a listed directory leaves its mode to the end.
LEMMA ModedMore ==
    ASSUME NEW t, NEW u, NEW a \in Seq(Entries), NEW e \in Entries, NEW b \in Seq(Entries),
           Grows(a, e, b), NEW ms, NEW ns,
           ns = IF e.kind = "dir" THEN ms \cup {ModeOf(e)} ELSE ms,
           Moded(t, a, ms, TRUE)
    PROVE  Moded(u, b, ns, TRUE)
<1>1. /\ \A m \in ms : \E i \in Dirs(a) : m = ModeOf(a[i])
      /\ \A i \in Dirs(a) : ModeOf(a[i]) \in ms
  BY DEF Moded
<1>2. /\ Dirs(b) = Dirs(a) \cup {n \in {Len(b)} : e.kind = "dir"} /\ b[Len(b)] = e
      /\ \A i \in Dirs(a) : b[i] = a[i]
  BY DirsMore
<1>3. ASSUME NEW m \in ns PROVE \E i \in Dirs(b) : m = ModeOf(b[i])
  <2>1. CASE m \in ms
    <3>1. PICK i \in Dirs(a) : m = ModeOf(a[i])
      BY <1>1, <2>1
    <3> QED BY <1>2, <3>1
  <2>2. CASE e.kind = "dir" /\ m = ModeOf(e)
    BY <1>2, <2>2
  <2> QED BY <2>1, <2>2
<1>4. ASSUME NEW i \in Dirs(b) PROVE ModeOf(b[i]) \in ns
  BY <1>1, <1>2
<1> QED BY <1>3, <1>4 DEF Moded

\* A listed directory that is not buried is there.
LEMMA DirThere ==
    ASSUME NEW l, NEW t, IsFileSystem(t), NEW a \in Seq(Entries), PlainThere(l, t, a),
           DirsKept(a), NEW i \in Dirs(a), NEW p, p = a[i].path
    PROVE  p \in Paths /\ p \in DOMAIN t /\ Kind(t, p) = "dir" /\ Final(t, p) = p
<1>1. i \in Listed(a) /\ a[i].kind = "dir" /\ ~Buried(a, p) /\ p \in Paths
  BY ListedType DEF Dirs, DirsKept
<1>2. ~Replaced(a, p, i)
  BY <1>1 DEF Buried, Replaced
<1>3. Placed(l, a, a[i]) = Dir(TRUE)
  BY <1>1 DEF Placed
<1>4. Holds(t, p, Dir(TRUE))
  BY <1>1, <1>2, <1>3 DEF PlainThere
<1>5. p \in DOMAIN t /\ Kind(t, p) = "dir"
  BY <1>1, <1>4, SameNode DEF Dir
<1>6. \A q \in Above(p) : ~IsLink(t, q)
  <2>1. \A q \in Above(p) : Kind(t, q) = "dir"
    BY <1>5 DEF IsFileSystem
  <2> QED BY <2>1 DEF IsLink
<1>7. Real(t, p) = p
  BY <1>6, Straight
<1> QED BY <1>1, <1>5, <1>7 DEF Final, IsLink

LEMMA PlainNow ==
    ASSUME TypeOK, LayerInv, Regular
    PROVE  PlainThere(lower, tree, archive)
BY DEF LayerInv, Layering

LEMMA EntryModed ==
    ASSUME TypeOK, ModeInv, NEW e \in Entries, Extract(e)
    PROVE  ModeInv'
<1>1. Reads(e)
  BY DEF Extract, ExtractDir, ExtractFile, ExtractSymlink, ExtractHardlink, Whiteout, Opaque,
         Special
<1>2. /\ status = "reading" /\ archive' = Append(archive, e)
      /\ archive' \in Seq(Entries) /\ archive \in Seq(Entries)
  BY <1>1, ReadsType DEF TypeOK
<1>3. status' \in {"reading", "failed"}
  BY <1>2 DEF Extract, ExtractDir, ExtractFile, ExtractSymlink, ExtractHardlink, Replaces, Whiteout,
         Opaque, Special, Hides, Fail
<1>4. CASE ~(Regular' /\ DirsKept(archive'))
  BY <1>4 DEF ModeInv
<1>5. CASE Regular' /\ DirsKept(archive')
  <2>0. status' = "reading" /\ ~through' /\ Once(archive')
    BY <1>3, <1>5 DEF Regular
  <2>1. ~through
    BY <1>1, <2>0 DEF Reads
  <2>2. PICK a, b, t, u, ms, ns : /\ a = archive /\ b = archive' /\ t = tree /\ u = tree'
                                  /\ ms = modes /\ ns = modes'
    OBVIOUS
  <2>3. /\ Grows(a, e, b) /\ a \in Seq(Entries) /\ b \in Seq(Entries)
        /\ Once(b) /\ DirsKept(b)
    BY <1>2, <1>5, <2>0, <2>2 DEF Grows
  <2>4. Once(a) /\ DirsKept(a)
    BY <2>3, OnceBefore, DirsMore
  <2>5. Moded(t, a, ms, TRUE)
    BY <1>2, <2>1, <2>2, <2>4 DEF ModeInv, Regular
  <2>6. ns = IF e.kind = "dir" THEN ms \cup {ModeOf(e)} ELSE ms
    <3>1. CASE ExtractDir(e)
      BY <2>0, <2>2, <3>1 DEF ExtractDir, Fail, ModeOf
    <3>2. CASE ExtractFile(e) \/ ExtractSymlink(e) \/ ExtractHardlink(e)
      BY <2>0, <2>2, <3>2 DEF ExtractFile, ExtractSymlink, ExtractHardlink, Replaces, Fail
    <3>3. CASE Whiteout(e) \/ Opaque(e) \/ Special(e)
      BY <2>0, <2>2, <3>3 DEF Whiteout, Opaque, Special, Hides, Fail
    <3> QED BY <3>1, <3>2, <3>3 DEF Extract
  <2>7. Moded(u, b, ns, TRUE)
    BY <2>3, <2>5, <2>6, ModedMore
  <2> QED BY <2>0, <2>2, <2>7 DEF ModeInv
<1> QED BY <1>4, <1>5

LEMMA NextModed ==
    ASSUME TypeOK, LayerInv, ModeInv, [Next]_vars
    PROVE  ModeInv'
<1>1. ASSUME NEW e \in Entries, Extract(e) PROVE ModeInv'
  BY <1>1, EntryModed
<1>2. ASSUME NEW e \in Entries, Unread(e) PROVE ModeInv'
  BY <1>2 DEF Unread, ModeInv, Regular
<1>3. CASE EndOfArchive
  <2>1. /\ status = "reading" /\ status' = "ending"
        /\ UNCHANGED <<lower, tree, archive, created, links, modes, through>>
    BY <1>3 DEF EndOfArchive
  <2>2. Regular' /\ DirsKept(archive') => Regular /\ DirsKept(archive)
    BY <2>1 DEF Regular
  <2>3. Regular /\ DirsKept(archive) => Moded(tree, archive, modes, FALSE)
    BY <2>1 DEF ModeInv, Moded
  <2>4. Regular' /\ DirsKept(archive') => Moded(tree', archive', modes', FALSE)
    BY <2>1, <2>2, <2>3
  <2> QED BY <2>1, <2>4 DEF ModeInv
<1>4. CASE MakeLink
  <2>1. /\ status = "ending" /\ status' \in {"ending", "unfinished"}
        /\ UNCHANGED <<lower, archive, created, modes>>
        /\ ~through' => ~through
    BY <1>4 DEF MakeLink
  <2>2. CASE ~(Regular' /\ DirsKept(archive'))
    BY <2>2 DEF ModeInv
  <2>3. CASE Regular' /\ DirsKept(archive')
    <3>0. status' = "ending" /\ ~through' /\ Once(archive') /\ DirsKept(archive')
      BY <2>1, <2>3 DEF Regular
    <3>1. ~through /\ Once(archive) /\ DirsKept(archive)
      BY <2>1, <3>0
    <3>2. Regular /\ PlainThere(lower, tree, archive)
      BY <2>1, <3>1, PlainNow DEF Regular
    <3>3. PICK l, t, u, a, ms : /\ l = lower /\ t = tree /\ u = tree' /\ a = archive
                                /\ ms = modes
      OBVIOUS
    <3>4. /\ a \in Seq(Entries) /\ IsFileSystem(t) /\ PlainThere(l, t, a) /\ DirsKept(a)
      BY <3>1, <3>2, <3>3 DEF TypeOK
    <3>5. Moded(t, a, ms, FALSE)
      BY <2>1, <3>1, <3>2, <3>3 DEF ModeInv
    <3>6. \A q \in DOMAIN t : u[q] = t[q]
      <4>1. CanLink(tree, Head(links))
        BY <1>4, <3>0 DEF MakeLink
      <4>2. PICK r, from : r = Real(tree, Head(links).path) /\ from = Real(tree, Head(links).to)
        OBVIOUS
      <4>3. /\ r \notin DOMAIN tree /\ DOMAIN u = DOMAIN tree \cup {r}
            /\ \A q \in DOMAIN u : u[q] = IF q = r THEN tree[from] ELSE tree[q]
        BY <1>4, <3>3, <4>1, <4>2, MakeLinkTree
      <4> QED BY <3>3, <4>3
    <3>7. Moded(u, a, ms, FALSE)
      <4>1. \A i \in Dirs(a) : a[i].path \in DOMAIN t
        BY <3>4, DirThere
      <4> QED BY <3>5, <3>6, <4>1 DEF Moded
    <3>8. Moded(tree', archive', modes', FALSE)
      BY <2>1, <3>3, <3>7
    <3> QED BY <3>0, <3>8 DEF ModeInv
  <2> QED BY <2>2, <2>3
<1>5. ASSUME NEW m \in modes, ApplyMode(m) PROVE ModeInv'
  <2>1. /\ status = "ending" /\ status' \in {"ending", "unfinished"}
        /\ UNCHANGED <<lower, archive, created, links, through>>
    BY <1>5 DEF ApplyMode
  <2>2. CASE ~(Regular' /\ DirsKept(archive'))
    BY <2>2 DEF ModeInv
  <2>3. CASE Regular' /\ DirsKept(archive')
    <3>1. status' = "ending" /\ Regular /\ Once(archive) /\ DirsKept(archive)
      BY <2>1, <2>3 DEF Regular
    <3>2. PlainThere(lower, tree, archive)
      BY <3>1, PlainNow
    <3>3. PICK l, t, u, a, ms, ns : /\ l = lower /\ t = tree /\ u = tree' /\ a = archive
                                    /\ ms = modes /\ ns = modes'
      OBVIOUS
    <3>4. /\ a \in Seq(Entries) /\ IsFileSystem(t) /\ PlainThere(l, t, a) /\ DirsKept(a)
          /\ Once(a)
      BY <3>1, <3>2, <3>3 DEF TypeOK
    <3>5. /\ \A n \in ms : \E i \in Dirs(a) : n = ModeOf(a[i])
          /\ \A i \in Dirs(a) : ModeOf(a[i]) \in ms \/ t[a[i].path].open = Opens(a[i].mode)
      BY <2>1, <3>1, <3>3 DEF ModeInv, Moded
    <3>6. PICK j \in Dirs(a) : m = ModeOf(a[j])
      BY <3>3, <3>5
    <3>7. PICK p : p = a[j].path
      OBVIOUS
    <3>8. p \in DOMAIN t /\ Kind(t, p) = "dir" /\ Final(t, p) = p
      BY <3>4, <3>7, DirThere
    <3>9. m.path = p /\ m.open = Opens(a[j].mode) /\ m.open \in BOOLEAN
      BY <3>6, <3>7 DEF ModeOf, TypeOK
    <3>10. /\ tree' = IF Kind(tree, p) = "dir" THEN [tree EXCEPT ![p].open = m.open] ELSE tree
           /\ ns = ms \ {m}
      BY <1>5, <3>3, <3>8, <3>9 DEF ApplyMode, Exists
    <3>11. /\ \A q \in DOMAIN t : q # p => u[q] = t[q]
           /\ u[p].open = m.open
      <4>1. p \in DOMAIN tree /\ IsFileSystem(tree) /\ tree[p].kind = "dir"
        BY <3>3, <3>4, <3>8 DEF Kind, Exists, IsFileSystem, Paths
      <4>2. /\ \A q \in DOMAIN tree : q # p => tree'[q] = tree[q]
            /\ tree[p].kind = "dir" => tree'[p].open = m.open
        BY <3>9, <3>10, <4>1, ModeTree
      <4> QED BY <3>3, <4>1, <4>2
    <3>12. ASSUME NEW i \in Dirs(a)
           PROVE  ModeOf(a[i]) \in ns \/ u[a[i].path].open = Opens(a[i].mode)
      <4>1. a[i].path \in DOMAIN t
        BY <3>4, DirThere
      <4>2. CASE a[i].path = p
        <5>1. i = j
          BY <3>4, <3>7, <4>2 DEF Once, Dirs
        <5> QED BY <3>7, <3>9, <3>11, <5>1
      <4>3. CASE a[i].path # p
        <5>1. ModeOf(a[i]) # m
          BY <3>9, <4>3 DEF ModeOf
        <5> QED BY <3>5, <3>10, <3>11, <4>1, <4>3, <5>1
      <4> QED BY <4>2, <4>3
    <3>13. Moded(u, a, ns, FALSE)
      BY <3>5, <3>10, <3>12 DEF Moded
    <3>14. Moded(tree', archive', modes', FALSE)
      BY <2>1, <3>3, <3>13
    <3> QED BY <3>1, <3>14 DEF ModeInv
  <2> QED BY <2>2, <2>3
<1>6. CASE Finish
  <2>1. /\ status = "ending" /\ status' = "read"
        /\ UNCHANGED <<lower, tree, archive, created, links, modes, through>>
    BY <1>6 DEF Finish
  <2>2. Regular' => Regular
    BY <2>1 DEF Regular
  <2> QED BY <2>1, <2>2 DEF ModeInv
<1>7. CASE Validate
  BY <1>7 DEF Validate, ModeInv, Regular
<1>8. CASE UNCHANGED vars
  BY <1>8 DEF vars, ModeInv, Regular
<1> QED BY <1>1, <1>2, <1>3, <1>4, <1>5, <1>6, <1>7, <1>8 DEF Next

LEMMA Modes == Spec => []ModeInv
<1>1. Init => ModeInv
  <2>1. Dirs(<<>>) = {}
    <3>1. PICK a : a = <<>>
      OBVIOUS
    <3>2. DOMAIN a = {}
      BY <3>1, EmptySeq, LenProperties
    <3> QED BY <3>1, <3>2 DEF Dirs, Listed
  <2> QED BY <2>1 DEF Init, ModeInv, Moded
<1>2. TypeOK /\ LayerInv /\ ModeInv /\ [Next]_vars => ModeInv'
  BY NextModed
<1> QED BY <1>1, <1>2, TypeCorrect, Layers, PTL DEF Spec

\* A layer's directories end open or closed as it lists them, open where it lists no
\* permission, whichever of them it closes before it fills them and in whatever order
\* the sort leaves those of one depth: applying the modes last undoes none and
\* forgets none.
THEOREM ModesAreGiven == Spec => []ModesAsListed
<1>1. TypeOK /\ LayerInv /\ ModeInv => ModesAsListed
  <2> SUFFICES ASSUME TypeOK, LayerInv, ModeInv, status = "read", ~through, Once(archive),
                      \A e \in Of(archive, "dir") : ~Buried(archive, e.path),
                      NEW e \in Of(archive, "dir")
               PROVE  Kind(tree, e.path) = "dir" /\ (tree[e.path].open <=> e.mode # "closed")
    BY DEF ModesAsListed
  <2>1. PICK l, t, a : l = lower /\ t = tree /\ a = archive
    OBVIOUS
  <2>2. Regular /\ modes = {}
    BY DEF Regular, LayerInv
  <2>3. /\ a \in Seq(Entries) /\ IsFileSystem(t) /\ PlainThere(l, t, a)
    BY <2>1, <2>2, PlainNow DEF TypeOK
  <2>4. \A i \in DOMAIN a : a[i].kind = "dir" => i \in Dirs(a) /\ a[i] \in Of(a, "dir")
    BY DEF Dirs, Listed, ListedKinds, Of
  <2>5. Dirs(a) \subseteq DOMAIN a /\ \A i \in Dirs(a) : a[i].kind = "dir"
    BY DEF Dirs, Listed
  <2>6. DirsKept(a)
    BY <2>1, <2>4, <2>5 DEF DirsKept
  <2>7. PICK i \in Dirs(a) : a[i] = e
    BY <2>1, <2>4 DEF Of
  <2>8. Moded(t, a, {}, FALSE)
    BY <2>1, <2>2, <2>6 DEF ModeInv
  <2>9. t[e.path].open = Opens(e.mode)
    BY <2>7, <2>8 DEF Moded
  <2>10. Kind(t, e.path) = "dir"
    BY <2>3, <2>6, <2>7, DirThere
  <2> QED BY <2>1, <2>9, <2>10 DEF Opens
<1> QED BY <1>1, TypeCorrect, Layers, Modes, PTL

-----------------------------------------------------------------------------
(* Nothing refuses a well-formed layer.                                    *)

OpenRoot(t) == \A p \in DOMAIN t : t[p].open

\* In an open root all names can be made and removed.
LEMMA OpenWays ==
    ASSUME NEW t, OpenRoot(t)
    PROVE  \A p : Writable(t, p) /\ Removable(t, p) /\ CanPut(t, p)
<1>1. \A p : p \in DOMAIN t => Open(t, p)
  BY DEF OpenRoot, Open
<1>2. \A p : Writable(t, p)
  BY <1>1 DEF Writable, Exists
<1>3. \A p : \A q \in Under(t, p) : Open(t, q)
  BY <1>1 DEF Under
<1>4. \A p : Removable(t, p)
  BY <1>2, <1>3 DEF Removable
<1>5. \A p : CanPut(t, p)
  BY <1>2 DEF CanPut, CanMakeAbove
<1> QED BY <1>2, <1>4, <1>5

LEMMA OpenKept ==
    ASSUME NEW t, OpenRoot(t), NEW p
    PROVE  /\ OpenRoot(Removed(t, p)) /\ OpenRoot(MadeAbove(t, p))
           /\ \A ps : OpenRoot(Without(t, ps))
           /\ \A node : node.open => OpenRoot(With(t, p, node))
<1>1. \A ps : OpenRoot(Without(t, ps))
  BY DEF OpenRoot, Without
<1>2. OpenRoot(Removed(t, p))
  BY <1>1 DEF Removed
<1>3. OpenRoot(MadeAbove(t, p))
  BY DEF OpenRoot, MadeAbove, Dir, Exists
<1>4. \A node : node.open => OpenRoot(With(t, p, node))
  BY DEF OpenRoot, With
<1> QED BY <1>1, <1>2, <1>3, <1>4

\* While the archive is read no directory is closed.
LEMMA EntryOpen ==
    ASSUME OpenRoot(tree), NEW e, Extract(e)
    PROVE  OpenRoot(tree')
<1> DEFINE p == Real(tree, e.path)
<1>0. PICK base : base = MadeAbove(Removed(tree, p), p)
  OBVIOUS
<1>1. OpenRoot(Removed(tree, p)) /\ OpenRoot(base)
  BY <1>0, OpenKept
<1>2. Dir(TRUE).open /\ File("new").open /\ Link(e.to).open
  BY DEF Dir, File, Link
<1>3. tree' = tree => OpenRoot(tree')
  OBVIOUS
<1>4. CASE ExtractDir(e)
  <2>1. tree' \in {tree, With(MadeAbove(tree, p), p, Dir(TRUE)), With(base, p, Dir(TRUE))}
    BY <1>0, <1>4 DEF ExtractDir, Fail
  <2>2. OpenRoot(MadeAbove(tree, p))
    BY OpenKept
  <2>3. /\ OpenRoot(With(MadeAbove(tree, p), p, Dir(TRUE)))
        /\ OpenRoot(With(base, p, Dir(TRUE)))
    BY <1>1, <1>2, <2>2, OpenKept
  <2> QED BY <2>1, <2>3
<1>5. CASE ExtractFile(e) \/ ExtractSymlink(e)
  <2>1. tree' \in {tree, With(base, p, File("new")), With(base, p, Link(e.to))}
    BY <1>0, <1>5 DEF ExtractFile, ExtractSymlink, Replaces, Fail
  <2>2. OpenRoot(With(base, p, File("new"))) /\ OpenRoot(With(base, p, Link(e.to)))
    BY <1>1, <1>2, OpenKept
  <2> QED BY <2>1, <2>2
<1>6. CASE ExtractHardlink(e)
  <2>1. PICK from : from = Real(base, e.to)
    OBVIOUS
  <2>2. \/ tree' \in {tree, base}
        \/ from \in DOMAIN base /\ tree' = With(base, p, base[from])
    BY <1>0, <1>6, <2>1 DEF ExtractHardlink, Fail, Exists
  <2>3. from \in DOMAIN base => base[from].open
    BY <1>1 DEF OpenRoot
  <2>4. from \in DOMAIN base => OpenRoot(With(base, p, base[from]))
    BY <1>1, <2>3, OpenKept
  <2> QED BY <1>1, <2>2, <2>4
<1>7. CASE Whiteout(e) \/ Opaque(e) \/ Special(e)
  <2>1. tree' = tree \/ \E ps : tree' = Without(tree, ps)
    BY <1>7 DEF Whiteout, Opaque, Special, Hides, Fail
  <2> QED BY <2>1, OpenKept
<1> QED BY <1>4, <1>5, <1>6, <1>7 DEF Extract

OpenInv ==
    /\ OpenRoot(lower) /\ status = "reading" => OpenRoot(tree)
    /\ OpenRoot(lower) /\ status = "ending" /\ links # <<>> => OpenRoot(tree)

LEMMA NextOpen ==
    ASSUME TypeOK, OpenInv, [Next]_vars
    PROVE  OpenInv'
<1>1. ASSUME NEW e \in Entries, Extract(e) PROVE OpenInv'
  <2>1. Reads(e)
    BY <1>1 DEF Extract, ExtractDir, ExtractFile, ExtractSymlink, ExtractHardlink, Whiteout,
           Opaque, Special
  <2>2. status = "reading" /\ lower' = lower
    BY <2>1 DEF Reads
  <2>3. status' \in {"reading", "failed"}
    BY <1>1, <2>2 DEF Extract, ExtractDir, ExtractFile, ExtractSymlink, ExtractHardlink, Replaces,
           Whiteout, Opaque, Special, Hides, Fail
  <2>4. OpenRoot(lower') => OpenRoot(tree')
    BY <1>1, <2>2, EntryOpen DEF OpenInv
  <2> QED BY <2>3, <2>4 DEF OpenInv
<1>2. ASSUME NEW e \in Entries, Unread(e) PROVE OpenInv'
  BY <1>2 DEF Unread, OpenInv
<1>3. CASE EndOfArchive \/ Finish \/ Validate \/ UNCHANGED vars
  BY <1>3 DEF EndOfArchive, Finish, Validate, vars, OpenInv
<1>4. CASE MakeLink
  <2>1. status = "ending" /\ links # <<>> /\ lower' = lower /\ status' \in {"ending", "unfinished"}
    BY <1>4 DEF MakeLink
  <2>2. CASE ~OpenRoot(lower) \/ status' = "unfinished"
    BY <2>1, <2>2 DEF OpenInv
  <2>3. CASE OpenRoot(lower) /\ status' = "ending"
    <3>1. OpenRoot(tree)
      BY <2>1, <2>3 DEF OpenInv
    <3>2. PICK p, from : p = Real(tree, Head(links).path) /\ from = Real(tree, Head(links).to)
      OBVIOUS
    <3>3. from \in DOMAIN tree /\ tree' = With(tree, p, tree[from])
      BY <1>4, <2>3, <3>2 DEF MakeLink, CanLink, Exists
    <3>4. tree[from].open
      BY <3>1, <3>3 DEF OpenRoot
    <3>5. OpenRoot(tree')
      BY <3>1, <3>3, <3>4, OpenKept
    <3> QED BY <2>1, <3>5 DEF OpenInv
  <2> QED BY <2>1, <2>2, <2>3
<1>5. ASSUME NEW m \in modes, ApplyMode(m) PROVE OpenInv'
  <2>1. status = "ending" /\ links = <<>> /\ links' = links /\ status' \in {"ending", "unfinished"}
    BY <1>5 DEF ApplyMode
  <2> QED BY <2>1 DEF OpenInv
<1> QED BY <1>1, <1>2, <1>3, <1>4, <1>5 DEF Next

\* What an archive says stays said when it has one more entry.
LEMMA Longer ==
    ASSUME NEW a \in Seq(Entries), NEW e \in Entries, NEW b \in Seq(Entries),
           Grows(a, e, b), NEW n, n = Len(b)
    PROVE  /\ n \in Nat /\ n \in DOMAIN b /\ n \notin DOMAIN a /\ b[n] = e
           /\ \A i \in DOMAIN b : i \in DOMAIN a \/ i = n
           /\ \A i \in DOMAIN a : i \in DOMAIN b /\ i \in Nat /\ i < n /\ b[i] = a[i]
           /\ \A i \in DOMAIN a : i \in Listed(a) <=> i \in Listed(b)
           /\ \A q : \A i \in DOMAIN a : i \in For(a, q) <=> i \in For(b, q)
           /\ \A q : For(a, q) \subseteq For(b, q)
           /\ \A q : Buried(a, q) => Buried(b, q)
<1>1. /\ n \in Nat /\ DOMAIN b = DOMAIN a \cup {n} /\ b[n] = e
      /\ \A i \in DOMAIN a : i \in Nat /\ i < n /\ b[i] = a[i]
  <2>1. /\ Len(b) \in Nat
        /\ DOMAIN b = DOMAIN a \cup {Len(b)} /\ b[Len(b)] = e
        /\ \A i \in DOMAIN a : i \in Nat /\ i < Len(b) /\ b[i] = a[i]
    BY Appended
  <2> QED BY <2>1
<1>2. n \notin DOMAIN a
  BY <1>1
<1>3. \A i \in DOMAIN a : i \in Listed(a) <=> i \in Listed(b)
  BY <1>1 DEF Listed
<1>4. \A q : \A i \in DOMAIN a : i \in For(a, q) <=> i \in For(b, q)
  BY <1>1, <1>3 DEF For
<1>5. Listed(a) \subseteq DOMAIN a
  BY DEF Listed
<1>6. \A q : For(a, q) \subseteq For(b, q)
  BY <1>4, <1>5 DEF For
<1>7. \A q : Burying(a, q) \subseteq Burying(b, q)
  BY <1>1, <1>3, <1>5 DEF Burying
<1> QED BY <1>1, <1>2, <1>3, <1>4, <1>6, <1>7 DEF Buried

\* A well-formed layer, told of the entries that have been read.
Sourced(l, a) == \A i \in Listed(a) : a[i].kind = "hardlink" =>
    /\ a[i].to # <<>>
    /\ FromEarlier(a, i) \/ FromLower(l, a, i) \/ FromLater(l, a, i)
Sound(l, a) == Once(a) /\ Sourced(l, a) /\ Parented(l, a) /\ Hiding(l, a)

LEMMA ParentedBefore ==
    ASSUME NEW l, NEW a \in Seq(Entries), NEW e \in Entries, NEW b \in Seq(Entries),
           Grows(a, e, b), Parented(l, b)
    PROVE  Parented(l, a)
<1>1. PICK n : n = Len(b)
  OBVIOUS
<1>2. /\ \A i \in DOMAIN a : i \in DOMAIN b /\ i \in Nat /\ i < n /\ b[i] = a[i]
      /\ \A q : \A i \in DOMAIN a : i \in For(a, q) <=> i \in For(b, q)
      /\ \A i \in DOMAIN b : i \in DOMAIN a \/ i = n
      /\ \A q : For(a, q) \subseteq For(b, q)
      /\ n \in Nat
  BY <1>1, Longer
<1>3. SUFFICES ASSUME NEW i \in DOMAIN a, a[i].kind \notin {"whiteout", "opaque"},
                      NEW q \in Above(a[i].path)
               PROVE  IF For(a, q) = {} THEN Kind(Visible(l, a), q) = "dir"
                                        ELSE \E j \in For(a, q) : j < i /\ a[j].kind = "dir"
  BY DEF Parented
<1>4. i \in DOMAIN b /\ b[i].kind \notin {"whiteout", "opaque"} /\ q \in Above(b[i].path)
  BY <1>2, <1>3
<1>5. IF For(b, q) = {} THEN Kind(Visible(l, b), q) = "dir"
                        ELSE \E j \in For(b, q) : j < i /\ b[j].kind = "dir"
  BY <1>4 DEF Parented
<1>6. CASE For(b, q) = {}
  <2>1. Kind(Visible(l, a), q) = "dir"
    BY <1>5, <1>6, VisibleLess
  <2> QED BY <1>2, <1>6, <2>1
<1>7. CASE For(b, q) # {}
  <2>1. PICK j \in For(b, q) : j < i /\ b[j].kind = "dir"
    BY <1>5, <1>7
  <2>2. j \in DOMAIN b
    BY DEF For, Listed
  <2>3. j \in DOMAIN a
    BY <1>2, <2>1, <2>2
  <2> QED BY <1>2, <2>1, <2>3
<1> QED BY <1>6, <1>7

LEMMA SoundBefore ==
    ASSUME NEW l, NEW a \in Seq(Entries), NEW e \in Entries, NEW b \in Seq(Entries),
           Grows(a, e, b), Sound(l, b)
    PROVE  Sound(l, a)
<1>1. PICK n : n = Len(b)
  OBVIOUS
<1>2. /\ \A i \in DOMAIN a : i \in DOMAIN b /\ b[i] = a[i]
      /\ \A i \in DOMAIN a : i \in Listed(a) <=> i \in Listed(b)
      /\ Listed(a) \subseteq DOMAIN a
  BY <1>1, Longer DEF Listed
<1>3. Once(a)
  BY OnceBefore DEF Sound
<1>4. Parented(l, a)
  BY ParentedBefore DEF Sound
<1>5. Hiding(l, a)
  <2> SUFFICES ASSUME NEW i \in DOMAIN a, a[i].kind \in {"whiteout", "opaque"},
                      NEW on, on = IF a[i].kind = "opaque" THEN Above(a[i].path) \cup {a[i].path}
                                                           ELSE Above(a[i].path)
               PROVE  /\ \A q \in on : Kind(l, q) \in {"dir", "none"}
                      /\ \A j \in Listed(a) : a[j].path \in on => a[j].kind = "dir"
    BY DEF Hiding
  <2>1. i \in DOMAIN b /\ b[i] = a[i]
    BY <1>2
  <2>2. /\ \A q \in on : Kind(l, q) \in {"dir", "none"}
        /\ \A j \in Listed(b) : b[j].path \in on => b[j].kind = "dir"
    BY <2>1 DEF Sound, Hiding
  <2> QED BY <1>2, <2>2
<1>6. Sourced(l, a)
  <2> SUFFICES ASSUME NEW i \in Listed(a), a[i].kind = "hardlink"
               PROVE  /\ a[i].to # <<>>
                      /\ FromEarlier(a, i) \/ FromLower(l, a, i) \/ FromLater(l, a, i)
    BY DEF Sourced
  <2>1. i \in Listed(b) /\ b[i] = a[i]
    BY <1>2
  <2>2. /\ b[i].to # <<>>
        /\ FromEarlier(b, i) \/ FromLower(l, b, i) \/ FromLater(l, b, i)
    BY <2>1 DEF Sound, Sourced
  <2> QED BY <2>1, <2>2, TargetsBefore
<1> QED BY <1>3, <1>4, <1>5, <1>6 DEF Sound

\* So a well-formed archive is one at each of its entries.
LEMMA GroundedSourced ==
    ASSUME NEW l, NEW a \in Seq(Entries), Once(a), Grounded(l, a)
    PROVE  Sourced(l, a)
<1>1. SUFFICES ASSUME NEW i \in Listed(a), a[i].kind = "hardlink"
               PROVE  /\ a[i].to # <<>>
                      /\ FromEarlier(a, i) \/ FromLower(l, a, i) \/ FromLater(l, a, i)
  BY DEF Sourced
<1>2. PICK to : to = a[i].to
  OBVIOUS
<1>3. /\ ~Buried(a, to)
      /\ \A j \in For(a, to) : a[j].kind = "file"
      /\ \/ \E j \in For(a, to) : j < i
         \/ For(a, to) # {} /\ ~Exists(l, to) /\ Clean(l, to)
         \/ For(a, to) = {} /\ Kind(Visible(l, a), to) = "file"
  BY <1>1, <1>2 DEF Grounded
<1>4. \A j \in For(a, to) : j \in Listed(a) /\ j \in Nat /\ a[j].path = to /\ to \in Paths
  BY ListedType DEF For
<1>5. to # <<>>
  BY <1>3, <1>4 DEF Paths, Kind
<1>6. CASE \E j \in For(a, to) : j < i
  BY <1>2, <1>3, <1>5, <1>6 DEF FromEarlier
<1>7. CASE For(a, to) # {} /\ ~Exists(l, to) /\ Clean(l, to) /\ ~\E j \in For(a, to) : j < i
  <2>1. \A j \in For(a, to) : j > i
    <3> TAKE j \in For(a, to)
    <3>1. j # i
      BY <1>1, <1>3
    <3> QED BY <1>1, <1>4, <1>7, <3>1, ListedType
  <2> QED BY <1>2, <1>3, <1>5, <1>7, <2>1 DEF FromLater
<1>8. CASE For(a, to) = {} /\ Kind(Visible(l, a), to) = "file"
  BY <1>2, <1>3, <1>5, <1>8 DEF FromLower
<1> QED BY <1>2, <1>3, <1>5, <1>6, <1>7, <1>8

\* Above an entry a well-formed archive lists only directories, ...
LEMMA DirsListed ==
    ASSUME NEW l, NEW b \in Seq(Entries), Once(b), Parented(l, b),
           NEW i \in DOMAIN b, b[i].kind \notin {"whiteout", "opaque"},
           NEW q \in Above(b[i].path)
    PROVE  /\ \A j \in For(b, q) : b[j].kind = "dir"
           /\ ~Buried(b, q)
<1>1. ASSUME NEW r \in Above(b[i].path), NEW j \in Listed(b), b[j].path = r
      PROVE  b[j].kind = "dir"
  <2>1. j \in For(b, r)
    BY <1>1 DEF For
  <2>2. PICK x \in For(b, r) : b[x].kind = "dir"
    BY <1>1, <2>1 DEF Parented
  <2>3. x \in Listed(b) /\ b[x].path = b[j].path
    BY <1>1, <2>2 DEF For
  <2>4. x = j
    BY <2>3 DEF Once
  <2> QED BY <2>2, <2>4
<1>2. b[i].path \in Seq(Names)
  <2>1. b[i] \in Entries
    BY LenProperties, ElementOfSeq
  <2> QED BY <2>1, EntryType
<1>3. \A r \in Above(q) : r \in Above(b[i].path)
  BY <1>2, AboveOrder
<1>4. \A j \in For(b, q) : b[j].kind = "dir"
  BY <1>1 DEF For
<1>5. Burying(b, q) = {}
  BY <1>1, <1>3 DEF Burying
<1> QED BY <1>4, <1>5 DEF Buried

\* ... and they are there when the entry comes.
LEMMA ParentsThere ==
    ASSUME NEW l, NEW t, IsFileSystem(l), IsFileSystem(t),
           NEW a \in Seq(Entries), NEW e \in Entries, NEW b \in Seq(Entries), Grows(a, e, b),
           PlainThere(l, t, a), MadeThere(t, a), LowerThere(l, t, a),
           Once(b), Parented(l, b), e.kind \notin {"whiteout", "opaque"}
    PROVE  \A q \in Above(e.path) : Kind(t, q) = "dir"
<1> TAKE q \in Above(e.path)
<1>1. PICK n : n = Len(b)
  OBVIOUS
<1>2. /\ n \in DOMAIN b /\ b[n] = e
      /\ \A i \in DOMAIN b : i \in DOMAIN a \/ i = n
      /\ \A i \in DOMAIN a : b[i] = a[i]
      /\ \A i \in DOMAIN a : i \in For(a, q) <=> i \in For(b, q)
      /\ For(a, q) \subseteq For(b, q)
      /\ ~Buried(b, q) => ~Buried(a, q)
      /\ n \in Nat
  BY <1>1, Longer
<1>3. q \in Paths /\ q # <<>>
  BY EntryType, AbovePath DEF Paths
<1>4. /\ \A j \in For(b, q) : b[j].kind = "dir"
      /\ ~Buried(b, q)
  BY <1>2, DirsListed
<1>5. ~Buried(a, q) /\ \A i : ~Replaced(a, q, i)
  BY <1>2, <1>4 DEF Buried, Replaced
<1>6. IF For(b, q) = {} THEN Kind(Visible(l, b), q) = "dir"
                        ELSE \E j \in For(b, q) : j < n /\ b[j].kind = "dir"
  BY <1>2 DEF Parented
<1>7. CASE For(b, q) = {}
  <2>1. For(a, q) = {} /\ Kind(Visible(l, a), q) = "dir"
    BY <1>2, <1>6, <1>7, VisibleLess
  <2>2. q \in DOMAIN Visible(l, a)
    BY <1>3, <2>1 DEF Kind, Exists
  <2>3. q \in DOMAIN l /\ l[q].kind = "dir"
    BY <1>3, <2>1, <2>2, VisibleDef DEF Kind, Exists
  <2>4. CASE Holding(a, q) = {}
    <3>1. q \in DOMAIN t /\ Same(t[q], l[q])
      BY <1>5, <2>1, <2>2, <2>4 DEF LowerThere
    <3>2. t[q].kind = "dir"
      BY <2>3, <3>1 DEF Same
    <3> QED BY <3>1, <3>2, KindCases
  <2>5. CASE Holding(a, q) # {}
    <3>1. PICK i \in Listed(a) : q \in Above(a[i].path)
      BY <2>5 DEF Holding
    <3> QED BY <1>5, <2>1, <3>1 DEF MadeThere
  <2> QED BY <2>4, <2>5
<1>8. CASE For(b, q) # {}
  <2>1. PICK j \in For(b, q) : j < n /\ b[j].kind = "dir"
    BY <1>6, <1>8
  <2>2. j \in DOMAIN b /\ j # n
    BY <1>2, <2>1 DEF For, Listed
  <2>3. j \in For(a, q) /\ a[j].kind = "dir"
    BY <1>2, <2>1, <2>2
  <2>4. j \in Listed(a) /\ a[j].path = q
    BY <2>3 DEF For
  <2>5. Placed(l, a, a[j]) = Dir(TRUE)
    BY <2>3 DEF Placed
  <2>6. Holds(t, q, Dir(TRUE))
    BY <1>5, <2>3, <2>4, <2>5 DEF PlainThere
  <2> QED BY <1>3, <2>6, SameNode DEF Dir
<1> QED BY <1>7, <1>8

\* They are still there at the end.
LEMMA ParentsStay ==
    ASSUME NEW l, NEW t, IsFileSystem(t), NEW a \in Seq(Entries),
           PlainThere(l, t, a), MadeThere(t, a), Once(a), Parented(l, a),
           NEW i \in Listed(a)
    PROVE  \A q \in Above(a[i].path) : Kind(t, q) = "dir"
<1> TAKE q \in Above(a[i].path)
<1>1. i \in DOMAIN a /\ a[i].kind \notin {"whiteout", "opaque"} /\ q \in Paths
  BY ListedType, AbovePath DEF Listed, ListedKinds
<1>2. /\ \A j \in For(a, q) : a[j].kind = "dir"
      /\ ~Buried(a, q)
  BY <1>1, DirsListed
<1>3. \A j : ~Replaced(a, q, j)
  BY <1>2 DEF Buried, Replaced
<1>4. CASE For(a, q) = {}
  BY <1>3, <1>4 DEF MadeThere
<1>5. CASE For(a, q) # {}
  <2>1. PICK j \in Listed(a) : a[j].path = q /\ j \in For(a, q)
    BY <1>5 DEF For
  <2>2. a[j].kind = "dir"
    BY <1>2, <2>1
  <2>3. Placed(l, a, a[j]) = Dir(TRUE)
    BY <2>2 DEF Placed
  <2>4. Holds(t, q, Dir(TRUE))
    BY <1>3, <2>1, <2>2, <2>3 DEF PlainThere
  <2> QED BY <1>1, <2>4, SameNode DEF Dir
<1> QED BY <1>4, <1>5

\* Where the lower layers have no file, and the layer lists none, is none.
LEMMA CleanAt ==
    ASSUME NEW l, NEW t, IsFileSystem(l), IsFileSystem(t), NEW a \in Seq(Entries),
           PlainThere(l, t, a), MadeThere(t, a), LowerThere(l, t, a), Accounted(l, t, a),
           NEW q \in Paths, ~Buried(a, q), \A i \in For(a, q) : a[i].kind = "dir",
           Kind(l, q) \in {"dir", "none"}
    PROVE  Kind(t, q) \in {"dir", "none"}
<1>1. \A i : ~Replaced(a, q, i)
  BY DEF Buried, Replaced
<1>2. CASE For(a, q) # {}
  <2>1. PICK i \in Listed(a) : a[i].path = q /\ i \in For(a, q)
    BY <1>2 DEF For
  <2>2. a[i].kind = "dir"
    BY <2>1
  <2>3. Placed(l, a, a[i]) = Dir(TRUE)
    BY <2>2 DEF Placed
  <2>4. Holds(t, q, Dir(TRUE))
    BY <1>1, <2>1, <2>2, <2>3 DEF PlainThere
  <2>5. Kind(t, q) = "dir"
    BY <2>4, SameNode DEF Dir
  <2> QED BY <2>5
<1>3. CASE For(a, q) = {} /\ Holding(a, q) # {}
  <2>1. PICK i \in Listed(a) : q \in Above(a[i].path)
    BY <1>3 DEF Holding
  <2> QED BY <1>1, <1>3, <2>1 DEF MadeThere
<1>4. CASE For(a, q) = {} /\ Holding(a, q) = {}
  <2>1. CASE q \in DOMAIN t
    <3>1. q \in DOMAIN Visible(l, a)
      BY <1>4, <2>1 DEF Accounted
    <3>2. Same(t[q], l[q]) /\ q \in DOMAIN l
      BY <1>4, <3>1, VisibleDef DEF LowerThere
    <3>3. t[q].kind = l[q].kind
      BY <3>2 DEF Same
    <3> QED BY <2>1, <3>2, <3>3, KindCases
  <2>2. CASE q \notin DOMAIN t
    BY <2>2, SameNode
  <2> QED BY <2>1, <2>2
<1> QED BY <1>2, <1>3, <1>4

\* A whiteout reaches the directory it is about.
LEMMA HidingReaches ==
    ASSUME NEW l, NEW t, IsFileSystem(l), IsFileSystem(t),
           NEW a \in Seq(Entries), NEW e \in Entries, NEW b \in Seq(Entries), Grows(a, e, b),
           PlainThere(l, t, a), MadeThere(t, a), LowerThere(l, t, a), Accounted(l, t, a),
           Hiding(l, b), e.kind \in {"whiteout", "opaque"}
    PROVE  /\ \A q \in Above(e.path) : Kind(t, q) \in {"dir", "none"}
           /\ e.kind = "opaque" => Kind(t, e.path) \in {"dir", "none"}
<1>1. PICK n, p : n = Len(b) /\ p = e.path
  OBVIOUS
<1>2. /\ n \in DOMAIN b /\ b[n] = e
      /\ \A i \in Listed(a) : i \in Listed(b) /\ b[i] = a[i]
  BY <1>1, Longer DEF Listed
<1>3. PICK on : on = IF e.kind = "opaque" THEN Above(p) \cup {p} ELSE Above(p)
  OBVIOUS
<1>4. /\ \A q \in on : Kind(l, q) \in {"dir", "none"}
      /\ \A j \in Listed(a) : a[j].path \in on => a[j].kind = "dir"
  <2>1. on = IF b[n].kind = "opaque" THEN Above(b[n].path) \cup {b[n].path} ELSE Above(b[n].path)
    BY <1>1, <1>2, <1>3
  <2>2. n \in DOMAIN b /\ b[n].kind \in {"whiteout", "opaque"}
    BY <1>2
  <2>3. /\ \A q \in on : Kind(l, q) \in {"dir", "none"}
        /\ \A j \in Listed(b) : b[j].path \in on => b[j].kind = "dir"
    BY <2>1, <2>2 DEF Hiding
  <2> QED BY <1>2, <2>3
<1>5. p \in Seq(Names)
  BY <1>1, EntryType
<1>6. ASSUME NEW q \in on PROVE Kind(t, q) \in {"dir", "none"}
  <2>1. CASE q = <<>>
    BY <2>1 DEF Kind
  <2>2. CASE q # <<>>
    <3>1. q \in Paths /\ \A r \in Above(q) : r \in Above(p)
      BY <1>3, <1>5, <1>6, <2>2, AbovePath, AboveOrder DEF Paths
    <3>2. \A r \in Above(q) : r \in on
      BY <1>3, <3>1
    <3>3. ~Buried(a, q)
      BY <1>4, <3>2 DEF Buried, Burying
    <3>4. \A i \in For(a, q) : a[i].kind = "dir"
      BY <1>4, <1>6 DEF For
    <3> QED BY <1>4, <1>6, <3>1, <3>3, <3>4, CleanAt
  <2> QED BY <2>1, <2>2
<1> QED BY <1>1, <1>3, <1>6

\* What a well-formed layer neither lists nor finds as a directory holds nothing
\* of it.
LEMMA NothingHeld ==
    ASSUME NEW l, NEW a, Parented(l, a), NEW to, For(a, to) = {},
           Kind(Visible(l, a), to) # "dir"
    PROVE  Holding(a, to) = {}
<1> SUFFICES ASSUME NEW i \in Listed(a), to \in Above(a[i].path) PROVE FALSE
  BY DEF Holding
<1>1. i \in DOMAIN a /\ a[i].kind \notin {"whiteout", "opaque"}
  BY DEF Listed, ListedKinds
<1> QED BY <1>1 DEF Parented

\* So a hard link reaches its target, which is a file or not there yet.
Reaches(t, to) == ~Stray(t, to) /\ Kind(t, Real(t, to)) # "dir"

LEMMA FileReached ==
    ASSUME NEW t, IsFileSystem(t), NEW to \in DOMAIN t, t[to].kind # "dir"
    PROVE  Reaches(t, to)
<1>1. \A q \in Above(to) : Kind(t, q) = "dir"
  BY DEF IsFileSystem
<1>2. Real(t, to) = to /\ ~Stray(t, to)
  BY <1>1, StraightBelowDirs
<1>3. Kind(t, to) = t[to].kind
  BY KindCases
<1> QED BY <1>2, <1>3 DEF Reaches

LEMMA HardlinkReaches ==
    ASSUME NEW l, IsFileSystem(l), NEW t, IsFileSystem(t),
           NEW a \in Seq(Entries), NEW b \in Seq(Entries), NEW e \in Entries,
           Grows(a, e, b), e.kind = "hardlink", Once(b), Sourced(l, b), Parented(l, b),
           PlainThere(l, t, a), MadeThere(t, a), LowerThere(l, t, a), Accounted(l, t, a),
           NEW base, IsFileSystem(base), Based(t, e.path, base)
    PROVE  Reaches(base, e.to)
<1>1. PICK n, p, to : n = Len(b) /\ p = e.path /\ to = e.to
  OBVIOUS
<1>2. p \in Paths /\ to \in Seq(Names) /\ Lists(e)
  BY <1>1, EntryType DEF Lists, ListedKinds
<1>3. /\ n \in Nat /\ b[n] = e /\ Listed(b) = Listed(a) \cup {n}
      /\ \A i \in Listed(a) : i < n /\ b[i] = a[i]
      /\ \A q : For(b, q) = For(a, q) \cup {i \in {n} : p = q}
      /\ \A q : Holding(b, q) = Holding(a, q) \cup {i \in {n} : q \in Above(p)}
      /\ \A q : Buried(b, q) <=> Buried(a, q) \/ (e.kind # "dir" /\ p \in Above(q))
  BY <1>1, <1>2, ListedMore
<1>4. \A i \in Listed(a) : a[i].path # p
  BY <1>1, <1>2, OnceBefore
<1>5. /\ \A q \in Paths : Kind(t, q) \in {"dir", "none"} => Kind(base, q) \in {"dir", "none"}
      /\ \A q \in DOMAIN t : q # p /\ p \notin Above(q) => q \in DOMAIN base /\ base[q] = t[q]
  BY <1>1, <1>2, BasedKinds
<1>6. to # <<>> /\ (FromEarlier(b, n) \/ FromLower(l, b, n) \/ FromLater(l, b, n))
  BY <1>1, <1>3 DEF Sourced
<1>7. ASSUME to \in DOMAIN t, to # p, p \notin Above(to), t[to].kind # "dir"
      PROVE  Reaches(base, to)
  BY <1>5, <1>7, FileReached
<1>8. CASE FromEarlier(b, n)
  <2>1. PICK j \in For(b, to) : j < n /\ b[j].kind = "file" /\ ~Buried(b, to)
    BY <1>1, <1>3, <1>8 DEF FromEarlier
  <2>2. j \in Listed(a) /\ a[j].path = to /\ a[j].kind = "file"
    BY <1>3, <2>1 DEF For
  <2>3. ~Buried(a, to) /\ p \notin Above(to) /\ p # to
    BY <1>1, <1>3, <1>4, <2>1, <2>2
  <2>4. ~Replaced(a, to, j)
    BY <2>3 DEF Buried, Replaced
  <2>5. Placed(l, a, a[j]) = File("new")
    BY <2>2 DEF Placed
  <2>6. Holds(t, to, File("new"))
    BY <2>2, <2>4, <2>5 DEF PlainThere
  <2>7. to \in DOMAIN t /\ t[to].kind = "file"
    BY <2>6 DEF Holds, Same, File
  <2> QED BY <1>1, <1>7, <2>3, <2>7
<1>9. CASE FromLower(l, b, n)
  <2>1. ~Buried(b, to) /\ For(b, to) = {} /\ Kind(Visible(l, b), to) = "file"
    BY <1>1, <1>3, <1>9 DEF FromLower
  <2>2. ~Buried(a, to) /\ p \notin Above(to) /\ p # to /\ For(a, to) = {}
    BY <1>1, <1>3, <2>1
  <2>3. to \in DOMAIN Visible(l, a) /\ to \in DOMAIN l /\ l[to].kind = "file"
    <3>1. Kind(Visible(l, a), to) = "file"
      BY <2>1, VisibleLess
    <3> QED BY <3>1, VisibleDef DEF Kind, Exists
  <2>4. Holding(a, to) = {}
    BY <1>3, <2>1, NothingHeld
  <2>5. to \in DOMAIN t /\ Same(t[to], l[to])
    BY <2>2, <2>3, <2>4 DEF LowerThere
  <2> QED BY <1>1, <1>7, <2>2, <2>3, <2>5 DEF Same
<1>10. CASE FromLater(l, b, n)
  <2>1. /\ ~Buried(b, to) /\ to \notin DOMAIN l /\ Clean(l, to)
        /\ \A j \in For(b, to) : j > n
    BY <1>1, <1>3, <1>10 DEF FromLater, Exists
  <2>2. ~Buried(a, to) /\ p # to /\ For(b, to) = {} /\ For(a, to) = {}
    <3>1. \A j \in For(b, to) : j \in Listed(b) /\ ~(j > n)
      BY <1>3, ListedType DEF For
    <3> QED BY <1>1, <1>3, <2>1, <3>1
  <2>3. to \notin DOMAIN Visible(l, b) /\ to \notin DOMAIN Visible(l, a)
    BY <2>1, VisibleDef
  <2>4. Holding(b, to) = {}
    BY <1>6, <2>2, <2>3, NothingHeld DEF Kind, Exists
  <2>5. Holding(a, to) = {} /\ to \notin Above(p)
    BY <1>3, <2>4
  <2>6. to \notin DOMAIN t
    BY <2>2, <2>3, <2>5 DEF Accounted
  <2>7. to \notin DOMAIN base
    BY <1>1, <2>5, <2>6 DEF Based
  <2>8. ASSUME NEW q \in Above(to) PROVE Kind(base, q) \in {"dir", "none"}
    <3>1. q \in Paths
      BY <1>2, AbovePath
    <3>2. Kind(l, q) \in {"dir", "none"}
      BY <2>1 DEF Clean
    <3>3. Kind(t, q) \in {"dir", "none"}
      BY <1>2, <2>2, <3>2, CleanWay
    <3> QED BY <1>5, <3>1, <3>3
  <2>9. Real(base, to) = to /\ ~Stray(base, to)
    BY <2>8, StraightBelowDirs
  <2>10. Kind(base, to) = "none"
    BY <1>6, <2>7 DEF Kind, Exists
  <2> QED BY <1>1, <2>9, <2>10 DEF Reaches
<1> QED BY <1>6, <1>8, <1>9, <1>10

\* An entry of a well-formed layer over an open root is extracted.
Ready(e) ==
    /\ TypeOK /\ OpenRoot(tree) /\ e \in Entries
    /\ Layering(lower, tree, archive, created, links, TRUE) /\ Sound(lower, archive')
    /\ archive' = Append(archive, e) /\ archive' \in Seq(Entries)

LEMMA ReadyWay ==
    ASSUME NEW e, Ready(e), e.kind \notin {"whiteout", "opaque"}
    PROVE  /\ \A q \in Above(e.path) : Kind(tree, q) \in {"dir", "none"}
           /\ Real(tree, e.path) = e.path /\ ~Blocked(e)
<1>1. PICK l, t, a, b : l = lower /\ t = tree /\ a = archive /\ b = archive'
  OBVIOUS
<1>2. /\ IsFileSystem(l) /\ IsFileSystem(t) /\ a \in Seq(Entries) /\ b \in Seq(Entries)
      /\ e \in Entries /\ Grows(a, e, b) /\ Once(b) /\ Parented(l, b)
      /\ PlainThere(l, t, a) /\ MadeThere(t, a) /\ LowerThere(l, t, a)
  BY <1>1, LowersAssumption DEF Ready, TypeOK, Grows, Sound, Layering
<1>3. \A q \in Above(e.path) : Kind(t, q) = "dir"
  BY <1>2, ParentsThere
<1>4. \A q \in Above(e.path) : Kind(tree, q) \in {"dir", "none"}
  BY <1>1, <1>3
<1> QED BY <1>4, StraightBelowDirs DEF Blocked

LEMMA DirDone ==
    ASSUME NEW e, Ready(e), ExtractDir(e)
    PROVE  status' = status
<1>1. PICK p : p = Real(tree, e.path)
  OBVIOUS
<1>2. ~Blocked(e)
  BY ReadyWay DEF ExtractDir
<1>3. Removable(tree, p) /\ CanPut(Removed(tree, p), p)
  BY OpenKept, OpenWays DEF Ready
<1> QED BY <1>1, <1>2, <1>3 DEF ExtractDir

LEMMA ReplaceDone ==
    ASSUME NEW e, Ready(e), e.kind \in {"file", "symlink"}, NEW node, Replaces(e, node)
    PROVE  status' = status
<1>1. PICK p : p = Real(tree, e.path)
  OBVIOUS
<1>2. ~Blocked(e)
  BY ReadyWay
<1>3. Removable(tree, p) /\ CanPut(Removed(tree, p), p)
  BY OpenKept, OpenWays DEF Ready
<1> QED BY <1>1, <1>2, <1>3 DEF Replaces

LEMMA HardlinkDone ==
    ASSUME NEW e, Ready(e), ExtractHardlink(e)
    PROVE  status' = status
<1>1. PICK p : p = e.path
  OBVIOUS
<1>2. /\ e.kind = "hardlink" /\ p \in Paths /\ e \in Entries /\ IsFileSystem(tree)
      /\ OpenRoot(tree)
  BY <1>1, EntryType DEF ExtractHardlink, Ready, TypeOK
<1>3. /\ \A q \in Above(p) : Kind(tree, q) \in {"dir", "none"}
      /\ Real(tree, p) = p /\ ~Blocked(e)
  BY <1>1, <1>2, ReadyWay
<1>4. Removable(tree, p) /\ CanPut(Removed(tree, p), p)
  BY <1>2, OpenKept, OpenWays
<1>5. PICK base : base = MadeAbove(Removed(tree, p), p)
  OBVIOUS
<1>6. PICK l, t, a, b : l = lower /\ t = tree /\ a = archive /\ b = archive'
  OBVIOUS
<1>7. /\ IsFileSystem(l) /\ IsFileSystem(t) /\ a \in Seq(Entries) /\ b \in Seq(Entries)
      /\ Grows(a, e, b) /\ Once(b) /\ Sourced(l, b) /\ Parented(l, b)
      /\ PlainThere(l, t, a) /\ MadeThere(t, a) /\ LowerThere(l, t, a) /\ Accounted(l, t, a)
  BY <1>6, LowersAssumption DEF Ready, TypeOK, Grows, Sound, Layering
<1>8. IsFileSystem(base) /\ Based(t, p, base)
  BY <1>2, <1>3, <1>5, <1>6, BaseIs
<1>9. Reaches(base, e.to)
  <2>1. Based(t, e.path, base)
    BY <1>1, <1>8
  <2> QED BY <1>2, <1>7, <1>8, <2>1, HardlinkReaches
<1> QED BY <1>1, <1>3, <1>4, <1>5, <1>9 DEF ExtractHardlink, Reaches

LEMMA HideDone ==
    ASSUME NEW e, Ready(e), Whiteout(e) \/ Opaque(e)
    PROVE  status' = status
<1>1. PICK p : p = e.path
  OBVIOUS
<1>2. PICK l, t, a, b : l = lower /\ t = tree /\ a = archive /\ b = archive'
  OBVIOUS
<1>3. /\ IsFileSystem(l) /\ IsFileSystem(t) /\ a \in Seq(Entries) /\ b \in Seq(Entries)
      /\ e \in Entries /\ Grows(a, e, b) /\ Hiding(l, b) /\ e.kind \in {"whiteout", "opaque"}
      /\ PlainThere(l, t, a) /\ MadeThere(t, a) /\ LowerThere(l, t, a) /\ Accounted(l, t, a)
  BY <1>2, LowersAssumption DEF Ready, TypeOK, Grows, Sound, Layering, Whiteout, Opaque
<1>4. /\ \A q \in Above(e.path) : Kind(t, q) \in {"dir", "none"}
      /\ e.kind = "opaque" => Kind(t, e.path) \in {"dir", "none"}
  BY <1>3, HidingReaches
<1>5. Real(tree, p) = p /\ ~Stray(tree, p)
  BY <1>1, <1>2, <1>4, StraightBelowDirs
<1>6. \A q : Writable(tree, q)
  BY OpenWays DEF Ready
<1>7. ASSUME NEW ps, Hides(e, ps) PROVE status' = status
  BY <1>1, <1>5, <1>6, <1>7 DEF Hides
<1>8. CASE Whiteout(e)
  BY <1>7, <1>8 DEF Whiteout
<1>9. CASE Opaque(e)
  <2>1. Kind(tree, p) \in {"dir", "none"}
    BY <1>1, <1>2, <1>4, <1>9 DEF Opaque
  <2>2. Final(tree, p) = p
    BY <1>5, <2>1 DEF Final, IsLink
  <2>3. \E ps : Hides(e, ps)
    BY <1>1, <1>9, <2>1, <2>2 DEF Opaque
  <2> QED BY <1>7, <2>3
<1> QED BY <1>8, <1>9

LEMMA EntryDone ==
    ASSUME NEW e, Ready(e), Extract(e)
    PROVE  status' = status
<1>1. CASE ExtractFile(e) \/ ExtractSymlink(e)
  BY <1>1, ReplaceDone DEF ExtractFile, ExtractSymlink
<1>2. CASE Special(e)
  <2>1. ~Blocked(e)
    BY <1>2, ReadyWay DEF Special
  <2> QED BY <1>2, <2>1 DEF Special
<1> QED BY <1>1, <1>2, DirDone, HardlinkDone, HideDone DEF Extract

\* Nothing is at the paths of the links that wait.
Unmade(t, k) == \A n \in DOMAIN k : k[n].path \notin DOMAIN t
Hardlinks(k) == \A n \in DOMAIN k : k[n].kind = "hardlink"

UnmadeInv ==
    status \in {"reading", "ending"} /\ ~through /\ Sound(lower, archive) => Unmade(tree, links)

LEMMA PutUnmade ==
    ASSUME NEW l, NEW t, NEW u, IsFileSystem(u), NEW waits, NEW c, NEW k \in Seq(Entries), NEW m,
           NEW e \in Entries, Waits(k, m, e, waits), waits => e.kind = "hardlink",
           NEW a \in Seq(Entries), NEW b \in Seq(Entries), Grows(a, e, b), Lists(e),
           Once(b), Parented(l, b), Recorded(a, c, k), Hardlinks(k),
           Put(t, u, e, waits), Unmade(t, k)
    PROVE  Unmade(u, m)
<1>1. PICK n, p : n = Len(b) /\ p = e.path
  OBVIOUS
<1>2. /\ n \in DOMAIN b /\ b[n] = e
      /\ \A i \in Listed(a) : i \in Listed(b) /\ b[i] = a[i]
  BY <1>1, Longer DEF Listed
<1>3. e.kind \notin {"whiteout", "opaque"} /\ p \in Paths
  BY <1>1, EntryType DEF Lists, ListedKinds
<1>4. SUFFICES ASSUME NEW x \in DOMAIN m, m[x].path \in DOMAIN u PROVE FALSE
  BY DEF Unmade
<1>5. (x \in DOMAIN k /\ m[x] = k[x]) \/ (waits /\ m[x] = e)
  BY WaitsMore
<1>6. CASE x \in DOMAIN k /\ m[x] = k[x]
  <2>1. PICK i \in Listed(a) : a[i] = k[x]
    BY <1>6 DEF Recorded
  <2>2. PICK r : r = a[i].path /\ r = m[x].path
    BY <1>6, <2>1
  <2>3. r # p
    BY <1>1, <2>2, OnceBefore
  <2>4. r \notin Above(p)
    <3> SUFFICES ASSUME r \in Above(p) PROVE FALSE
      OBVIOUS
    <3>1. i \in For(b, r) /\ b[i].kind = "hardlink"
      BY <1>2, <1>6, <2>1, <2>2 DEF For, Hardlinks
    <3>2. \A j \in For(b, r) : b[j].kind = "dir"
      BY <1>1, <1>2, <1>3, DirsListed
    <3> QED BY <3>1, <3>2
  <2>5. r \in DOMAIN t
    BY <1>1, <1>4, <2>2, <2>3, <2>4 DEF Put
  <2> QED BY <1>6, <2>2, <2>5 DEF Unmade
<1>7. CASE waits /\ m[x] = e
  <2>1. Kind(u, p) = "none"
    BY <1>1, <1>7 DEF Put
  <2> QED BY <1>1, <1>3, <1>4, <1>7, <2>1, SameNode
<1> QED BY <1>5, <1>6, <1>7

LEMMA LinksType ==
    ASSUME TypeOK
    PROVE  links \in Seq(Entries) /\ Hardlinks(links)
<1>1. links \in Seq(Waiting(created))
  BY DEF TypeOK, Waiting
<1>2. \A n \in DOMAIN links : links[n] \in Waiting(created)
  BY <1>1, LenProperties, ElementOfSeq
<1>3. Waiting(created) \subseteq Entries /\ \A e \in Waiting(created) : e.kind = "hardlink"
  BY DEF Waiting
<1> QED BY <1>1, <1>2, <1>3, SeqMonotonic DEF Hardlinks

LEMMA EntryUnmade ==
    ASSUME TypeOK, UnmadeInv, LayerInv, NEW e \in Entries, Extract(e)
    PROVE  UnmadeInv'
<1>1. Reads(e)
  BY DEF Extract, ExtractDir, ExtractFile, ExtractSymlink, ExtractHardlink, Whiteout, Opaque,
         Special
<1>2. /\ status = "reading" /\ archive' = Append(archive, e) /\ lower' = lower
      /\ archive' \in Seq(Entries) /\ archive \in Seq(Entries)
  BY <1>1, ReadsType DEF TypeOK, Reads
<1>3. SUFFICES ASSUME status' # "failed", ~through', Sound(lower', archive')
               PROVE  Unmade(tree', links')
  BY DEF UnmadeInv
<1>4. ~through
  BY <1>1, <1>3 DEF Reads
<1>5. PICK l, t, u, a, b, c, k, m :
        /\ l = lower /\ t = tree /\ u = tree' /\ a = archive /\ b = archive'
        /\ c = created /\ k = links /\ m = links'
  OBVIOUS
<1>6. Grows(a, e, b) /\ a \in Seq(Entries) /\ b \in Seq(Entries) /\ Sound(l, b)
  BY <1>2, <1>3, <1>5 DEF Grows
<1>7. Sound(l, a) /\ Once(a) /\ Once(b) /\ Parented(l, b)
  BY <1>6, SoundBefore DEF Sound
<1>8. Unmade(t, k)
  BY <1>2, <1>4, <1>5, <1>7 DEF UnmadeInv
<1>9. Recorded(a, c, k) /\ k \in Seq(Entries) /\ Hardlinks(k)
  <2>1. Layering(lower, tree, archive, created, links, TRUE)
    BY <1>2, <1>4, <1>5, <1>7 DEF LayerInv, Regular
  <2> QED BY <1>5, <2>1, LinksType DEF Layering
<1>10. IsFileSystem(u)
  <2>1. TypeOK'
    BY EntryStepType
  <2> QED BY <1>5, <2>1 DEF TypeOK
<1>11. ASSUME NEW waits, Extracted(e, waits), Lists(e), waits => e.kind = "hardlink"
       PROVE  Unmade(tree', links')
  <2>1. Put(t, u, e, waits) /\ Waits(k, m, e, waits)
    BY <1>5, <1>11 DEF Extracted
  <2>2. Unmade(u, m)
    BY <1>6, <1>7, <1>8, <1>9, <1>10, <1>11, <2>1, PutUnmade
  <2> QED BY <1>5, <2>2
<1>12. CASE ExtractDir(e)
  BY <1>3, <1>11, <1>12, DirPuts DEF ExtractDir, Lists, ListedKinds
<1>13. CASE ExtractFile(e) \/ ExtractSymlink(e)
  <2>1. Extracted(e, FALSE)
    BY <1>3, <1>13, ReplacePuts DEF ExtractFile, ExtractSymlink
  <2>2. Lists(e)
    BY <1>13 DEF ExtractFile, ExtractSymlink, Lists, ListedKinds
  <2> QED BY <1>11, <2>1, <2>2
<1>14. CASE ExtractHardlink(e)
  <2>1. PICK base, from : \E waits \in BOOLEAN : Linking(e, base, from, waits)
    BY <1>3, <1>14, HardlinkPuts
  <2>2. PICK waits \in BOOLEAN : Extracted(e, waits)
    BY <2>1 DEF Linking
  <2>3. Lists(e) /\ e.kind = "hardlink"
    BY <1>14 DEF ExtractHardlink, Lists, ListedKinds
  <2> QED BY <1>11, <2>2, <2>3
<1>15. CASE Whiteout(e) \/ Opaque(e) \/ Special(e)
  <2>1. links' = links /\ (tree' = tree \/ \E ps : tree' = Without(tree, ps))
    BY <1>15 DEF Whiteout, Opaque, Special, Hides, Fail
  <2>2. \A q \in DOMAIN tree' : q \in DOMAIN tree
    BY <2>1 DEF Without
  <2>3. Unmade(tree, links)
    BY <1>5, <1>8
  <2> QED BY <2>1, <2>2, <2>3 DEF Unmade
<1> QED BY <1>12, <1>13, <1>14, <1>15 DEF Extract

LEMMA RestUnmade ==
    ASSUME NEW t, NEW u, NEW a, NEW c, NEW k \in Seq(Entries), k # <<>>, NEW m, m = Tail(k),
           Recorded(a, c, k), Unmade(t, k), DOMAIN u = DOMAIN t \cup {Head(k).path}
    PROVE  Unmade(u, m)
<1>1. /\ 1 \in DOMAIN k /\ k[1] = Head(k)
      /\ \A x \in DOMAIN m : x + 1 \in DOMAIN k /\ x + 1 # 1 /\ m[x] = k[x + 1]
  BY TailLess DEF Rest
<1>2. \A x \in DOMAIN m : m[x].path # Head(k).path /\ m[x].path \notin DOMAIN t
  BY <1>1 DEF Recorded, Unmade
<1> QED BY <1>2 DEF Unmade

LEMMA NextUnmade ==
    ASSUME TypeOK, UnmadeInv, LayerInv, [Next]_vars
    PROVE  UnmadeInv'
<1>1. ASSUME NEW e \in Entries, Extract(e) PROVE UnmadeInv'
  BY <1>1, EntryUnmade
<1>2. ASSUME NEW e \in Entries, Unread(e) PROVE UnmadeInv'
  BY <1>2 DEF Unread, UnmadeInv
<1>3. CASE EndOfArchive
  BY <1>3 DEF EndOfArchive, UnmadeInv
<1>4. CASE MakeLink
  <2>1. /\ status = "ending" /\ status' \in {"ending", "unfinished"} /\ links # <<>>
        /\ UNCHANGED <<lower, archive, created>>
        /\ ~through' => ~through
    BY <1>4 DEF MakeLink
  <2>2. SUFFICES ASSUME status' = "ending", ~through', Sound(lower', archive')
                 PROVE  Unmade(tree', links')
    BY <2>1 DEF UnmadeInv
  <2>3. /\ ~through /\ Sound(lower, archive) /\ Once(archive)
        /\ CanLink(tree, Head(links)) /\ links' = Tail(links)
    BY <1>4, <2>1, <2>2 DEF Sound, MakeLink
  <2>4. Layering(lower, tree, archive, created, links, FALSE)
    BY <2>1, <2>3 DEF LayerInv, Regular
  <2>5. \A q \in Above(Head(links).path) : ~IsLink(tree, q)
    BY <1>4, <2>2 DEF MakeLink
  <2>6. Real(tree, Head(links).path) = Head(links).path
    BY <2>5, Straight
  <2>7. PICK t, u, a, c, k, m : /\ t = tree /\ u = tree' /\ a = archive /\ c = created
                                /\ k = links /\ m = links'
    OBVIOUS
  <2>8. DOMAIN u = DOMAIN t \cup {Head(k).path}
    BY <1>4, <2>3, <2>6, <2>7, MakeLinkTree
  <2>9. /\ k \in Seq(Entries) /\ k # <<>> /\ m = Tail(k) /\ Recorded(a, c, k)
        /\ Unmade(t, k)
    BY <2>1, <2>3, <2>4, <2>7, LinksType DEF UnmadeInv, Layering
  <2>10. Unmade(u, m)
    BY <2>8, <2>9, RestUnmade
  <2> QED BY <2>7, <2>10
<1>5. ASSUME NEW m \in modes, ApplyMode(m) PROVE UnmadeInv'
  <2>1. links' = <<>> /\ DOMAIN links' = {}
    BY <1>5, LenProperties, EmptySeq DEF ApplyMode
  <2> QED BY <2>1 DEF UnmadeInv, Unmade
<1>6. CASE Finish \/ Validate
  BY <1>6 DEF Finish, Validate, UnmadeInv
<1>7. CASE UNCHANGED vars
  BY <1>7 DEF vars, UnmadeInv
<1> QED BY <1>1, <1>2, <1>3, <1>4, <1>5, <1>6, <1>7 DEF Next

\* The first link that waits can be made.
LEMMA LinkCanBeMade ==
    ASSUME NEW l, IsFileSystem(l), NEW t, IsFileSystem(t), OpenRoot(t),
           NEW a \in Seq(Entries), NEW c, NEW k \in Seq(Entries), k # <<>>, Hardlinks(k),
           Layering(l, t, a, c, k, FALSE), Once(a), Parented(l, a), Grounded(l, a),
           Unmade(t, k)
    PROVE  CanLink(t, Head(k))
<1>1. 1 \in DOMAIN k /\ k[1] = Head(k)
  BY TailLess DEF Rest
<1>2. PICK i \in Listed(a) : a[i] = Head(k)
  BY <1>1 DEF Layering, Recorded
<1>3. PICK p, to : p = a[i].path /\ to = a[i].to
  OBVIOUS
<1>4. /\ PlainThere(l, t, a) /\ MadeThere(t, a) /\ LowerThere(l, t, a)
      /\ p \in Paths /\ a[i].kind = "hardlink" /\ p \notin DOMAIN t
  BY <1>1, <1>2, <1>3, ListedType DEF Layering, Hardlinks, Unmade
<1>5. \A q \in Above(p) : Kind(t, q) = "dir"
  BY <1>3, <1>4, ParentsStay
<1>6. Real(t, p) = p /\ Kind(t, Front(p)) = "dir" /\ Writable(t, p)
  <2>1. Real(t, p) = p
    BY <1>5, StraightBelowDirs
  <2>2. Kind(t, Front(p)) = "dir"
    BY <1>4, <1>5, FrontAbove DEF Kind
  <2> QED BY <2>1, <2>2, OpenWays
<1>7. /\ ~Buried(a, to) /\ \A j \in For(a, to) : a[j].kind = "file"
      /\ For(a, to) = {} => Kind(Visible(l, a), to) = "file"
  BY <1>3, <1>4 DEF Grounded
<1>8. to \in DOMAIN t /\ t[to].kind = "file"
  <2>1. CASE For(a, to) # {}
    <3>1. PICK j \in Listed(a) : a[j].path = to /\ j \in For(a, to)
      BY <2>1 DEF For
    <3>2. a[j].kind = "file" /\ ~Replaced(a, to, j)
      BY <1>7, <3>1 DEF Buried, Replaced
    <3>3. Placed(l, a, a[j]) = File("new")
      BY <3>2 DEF Placed
    <3>4. Holds(t, to, File("new"))
      BY <1>4, <3>1, <3>2, <3>3 DEF PlainThere
    <3> QED BY <3>4 DEF Holds, Same, File
  <2>2. CASE For(a, to) = {}
    <3>1. Kind(Visible(l, a), to) = "file"
      BY <1>7, <2>2
    <3>2. to \in DOMAIN Visible(l, a) /\ l[to].kind = "file"
      BY <3>1, VisibleDef DEF Kind, Exists
    <3>3. Holding(a, to) = {}
      BY <2>2, <3>1, NothingHeld
    <3>4. to \in DOMAIN t /\ Same(t[to], l[to])
      BY <1>4, <1>7, <2>2, <3>2, <3>3 DEF LowerThere
    <3> QED BY <3>2, <3>4 DEF Same
  <2> QED BY <2>1, <2>2
<1>9. Real(t, to) = to
  <2>1. \A q \in Above(to) : Kind(t, q) = "dir"
    BY <1>8 DEF IsFileSystem
  <2> QED BY <2>1, StraightBelowDirs
<1>10. Kind(t, to) = "file"
  BY <1>8, KindCases
<1> QED BY <1>2, <1>3, <1>4, <1>6, <1>8, <1>9, <1>10 DEF CanLink, Exists

\* In a well-formed layer no directory is listed below what is none.
LEMMA DirsAreKept ==
    ASSUME NEW l, NEW a \in Seq(Entries), Once(a), Parented(l, a)
    PROVE  DirsKept(a)
<1> SUFFICES ASSUME NEW i \in Dirs(a), NEW j \in Listed(a),
                    a[j].path \in Above(a[i].path), a[j].kind # "dir"
             PROVE  FALSE
  BY DEF DirsKept, Buried, Burying
<1>1. i \in DOMAIN a /\ a[i].kind \notin {"whiteout", "opaque"}
  BY DEF Dirs, Listed
<1>2. j \in For(a, a[j].path)
  BY DEF For
<1> QED BY <1>1, <1>2, DirsListed

\* An extraction fails for a reason.
FailInv ==
    /\ status = "failed" => through \/ ~OpenRoot(lower) \/ ~Sound(lower, archive)
    /\ status = "unfinished" =>
        \/ through \/ ~OpenRoot(lower)
        \/ ~Sound(lower, archive) \/ ~Grounded(lower, archive)

LEMMA EntryFails ==
    ASSUME TypeOK, OpenInv, LayerInv, FailInv, NEW e \in Entries, Extract(e)
    PROVE  FailInv'
<1>1. Reads(e)
  BY DEF Extract, ExtractDir, ExtractFile, ExtractSymlink, ExtractHardlink, Whiteout, Opaque,
         Special
<1>2. /\ status = "reading" /\ archive' = Append(archive, e) /\ lower' = lower
      /\ archive' \in Seq(Entries) /\ archive \in Seq(Entries)
      /\ ~through' => ~through
  BY <1>1, ReadsType DEF TypeOK, Reads
<1>3. status' \in {"reading", "failed"}
  BY <1>2 DEF Extract, ExtractDir, ExtractFile, ExtractSymlink, ExtractHardlink, Replaces, Whiteout,
         Opaque, Special, Hides, Fail
<1>4. SUFFICES ASSUME ~through', OpenRoot(lower), Sound(lower, archive')
               PROVE  status' = status
  BY <1>2, <1>3 DEF FailInv
<1>5. PICK l, a, b : l = lower /\ a = archive /\ b = archive'
  OBVIOUS
<1>6. Once(archive)
  <2>1. Grows(a, e, b) /\ a \in Seq(Entries) /\ b \in Seq(Entries) /\ Sound(l, b)
    BY <1>2, <1>4, <1>5 DEF Grows
  <2> QED BY <1>5, <2>1, SoundBefore DEF Sound
<1>7. Layering(lower, tree, archive, created, links, TRUE)
  BY <1>2, <1>4, <1>6 DEF LayerInv, Regular
<1>8. Ready(e)
  BY <1>2, <1>4, <1>7 DEF OpenInv, Ready
<1> QED BY <1>8, EntryDone

LEMMA NextFails ==
    ASSUME TypeOK, OpenInv, LayerInv, ModeInv, UnmadeInv, FailInv, [Next]_vars
    PROVE  FailInv'
<1>1. ASSUME NEW e \in Entries, Extract(e) PROVE FailInv'
  BY <1>1, EntryFails
<1>2. ASSUME NEW e \in Entries, Unread(e) PROVE FailInv'
  <2>1. /\ status = "failed" /\ status' = status /\ lower' = lower /\ through' = through
        /\ archive' = Append(archive, e)
    BY <1>2 DEF Unread
  <2>2. PICK l, a, b : l = lower /\ a = archive /\ b = archive'
    OBVIOUS
  <2>3. Grows(a, e, b) /\ a \in Seq(Entries) /\ b \in Seq(Entries)
    BY <2>1, <2>2, AppendProperties DEF Grows, TypeOK
  <2>4. Sound(l, b) => Sound(l, a)
    BY <2>3, SoundBefore
  <2> QED BY <2>1, <2>2, <2>4 DEF FailInv
<1>3. CASE EndOfArchive \/ Finish \/ Validate
  BY <1>3 DEF EndOfArchive, Finish, Validate, FailInv
<1>4. CASE MakeLink
  <2>1. /\ status = "ending" /\ status' \in {"ending", "unfinished"} /\ links # <<>>
        /\ UNCHANGED <<lower, archive>>
        /\ ~through' => ~through
        /\ CanLink(tree, Head(links)) => status' = status
    BY <1>4 DEF MakeLink
  <2>2. SUFFICES ASSUME ~through, OpenRoot(lower), Sound(lower, archive), Grounded(lower, archive)
                 PROVE  CanLink(tree, Head(links))
    BY <2>1 DEF FailInv
  <2>3. /\ IsFileSystem(lower) /\ IsFileSystem(tree) /\ OpenRoot(tree)
        /\ archive \in Seq(Entries) /\ Unmade(tree, links)
    BY <2>1, <2>2, LowersAssumption DEF TypeOK, OpenInv, UnmadeInv
  <2>4. Once(archive) /\ Parented(lower, archive)
    BY <2>2 DEF Sound
  <2>5. Layering(lower, tree, archive, created, links, FALSE)
    BY <2>1, <2>2, <2>4 DEF LayerInv, Regular
  <2>6. PICK l, t, a, c, k : /\ l = lower /\ t = tree /\ a = archive /\ c = created
                             /\ k = links
    OBVIOUS
  <2>7. CanLink(t, Head(k))
    BY <2>1, <2>2, <2>3, <2>4, <2>5, <2>6, LinksType, LinkCanBeMade
  <2> QED BY <2>6, <2>7
<1>5. ASSUME NEW m \in modes, ApplyMode(m) PROVE FailInv'
  <2>1. /\ status = "ending" /\ status' \in {"ending", "unfinished"}
        /\ UNCHANGED <<lower, archive, through>>
        /\ Exists(tree, Final(tree, m.path)) => status' = status
    BY <1>5 DEF ApplyMode
  <2>2. SUFFICES ASSUME ~through, Sound(lower, archive)
                 PROVE  Exists(tree, Final(tree, m.path))
    BY <2>1 DEF FailInv
  <2>3. PICK l, t, a, ms : l = lower /\ t = tree /\ a = archive /\ ms = modes
    OBVIOUS
  <2>4. a \in Seq(Entries) /\ IsFileSystem(t) /\ Once(a) /\ Parented(l, a)
    BY <2>2, <2>3 DEF TypeOK, Sound
  <2>5. DirsKept(a)
    BY <2>4, DirsAreKept
  <2>6. Regular
    BY <2>1, <2>2, <2>3, <2>4 DEF Regular
  <2>7. PlainThere(l, t, a)
    BY <2>3, <2>6, PlainNow
  <2>8. Moded(t, a, ms, FALSE)
    BY <2>1, <2>3, <2>5, <2>6 DEF ModeInv
  <2>9. PICK j \in Dirs(a) : m = ModeOf(a[j])
    BY <2>3, <2>8 DEF Moded
  <2>10. PICK p : p = a[j].path
    OBVIOUS
  <2>11. p \in DOMAIN t /\ Final(t, p) = p
    BY <2>4, <2>5, <2>7, <2>10, DirThere
  <2>12. m.path = p
    BY <2>9, <2>10 DEF ModeOf
  <2> QED BY <2>3, <2>11, <2>12 DEF Exists
<1>6. CASE UNCHANGED vars
  BY <1>6 DEF vars, FailInv
<1> QED BY <1>1, <1>2, <1>3, <1>4, <1>5, <1>6 DEF Next

\* Whatever the lower layers, as long as their directories are open for writing,
\* and whatever the order of the entries, a layer that lists parents before what
\* they hold, has files for its hard links and hides names in directories is not
\* refused: no entry fails for what entries before it did, each hard link that
\* waits can be made at the end, and each mode finds its directory.
THEOREM WellFormedLayersExtract == Spec => []WellFormedExtracts
<1>1. TypeOK /\ FailInv => WellFormedExtracts
  <2> SUFFICES ASSUME TypeOK, FailInv, status \in {"failed", "unfinished"}, ~through,
                      Once(archive), Grounded(lower, archive), Parented(lower, archive),
                      Hiding(lower, archive), \A p \in DOMAIN lower : lower[p].open
               PROVE  FALSE
    BY DEF WellFormedExtracts
  <2>1. PICK l, a : l = lower /\ a = archive
    OBVIOUS
  <2>2. Sourced(l, a)
    BY <2>1, GroundedSourced DEF TypeOK
  <2>3. Sound(lower, archive) /\ OpenRoot(lower)
    BY <2>1, <2>2 DEF Sound, OpenRoot
  <2> QED BY <2>3 DEF FailInv
<1>2. Init => OpenInv /\ UnmadeInv /\ FailInv
  <2> SUFFICES ASSUME Init PROVE OpenInv /\ UnmadeInv /\ FailInv
    OBVIOUS
  <2>1. tree = lower /\ links = <<>> /\ status = "reading" /\ DOMAIN links = {}
    BY LenProperties, EmptySeq DEF Init
  <2> QED BY <2>1 DEF OpenInv, UnmadeInv, Unmade, FailInv
<1>3. TypeOK /\ OpenInv /\ [Next]_vars => OpenInv'
  BY NextOpen
<1>4. TypeOK /\ LayerInv /\ UnmadeInv /\ [Next]_vars => UnmadeInv'
  BY NextUnmade
<1>5. TypeOK /\ OpenInv /\ LayerInv /\ ModeInv /\ UnmadeInv /\ FailInv /\ [Next]_vars => FailInv'
  BY NextFails
<1> QED BY <1>1, <1>2, <1>3, <1>4, <1>5, TypeCorrect, Layers, Modes, PTL DEF Spec
=============================================================================
