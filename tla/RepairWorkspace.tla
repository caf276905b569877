--------------------------- MODULE RepairWorkspace ---------------------------
(***************************************************************************)
(* internal/repairworkspace and internal/builder/repair_filter.go: the     *)
(* disposable Git repository around the copied sources, which decides what *)
(* of a Codex turn is kept.  A tree gives every path its content; Git      *)
(* itself is modelled by what its commands do to the tree.                 *)
(***************************************************************************)
EXTENDS Integers, FiniteSets

CONSTANTS
    Paths,          \* the paths of the workspace
    Contents,       \* what a path may hold besides Absent and Nested
    Text,           \* the contents isTextRepairFile accepts, or symlinks
    Generated,      \* the paths generatedPathReason names
    SourceNamed,    \* the paths knownTextRepairPath names
    Absent,         \* no such path
    Nested,         \* a directory with a Git repository of its own
    Same            \* in a patch: the path is left as it is

ASSUME ContentsAssumption ==
    /\ Contents \cap {Absent, Nested, Same} = {}
    /\ Absent # Nested /\ Same \notin {Absent, Nested}
    /\ Text \subseteq Contents
ASSUME PathsAssumption ==
    IsFiniteSet(Paths) /\ Generated \subseteq Paths /\ SourceNamed \subseteq Paths

Trees == [Paths -> Contents \cup {Absent, Nested}]

\* A patch gives the paths it changes their new contents.
Patches == [Paths -> Contents \cup {Absent, Nested, Same}]

Apply(patch, tree) == [p \in Paths |-> IF patch[p] = Same THEN tree[p] ELSE patch[p]]

Changed(from, to) == {p \in Paths : from[p] # to[p]}

Diff(from, to) == [p \in Paths |-> IF from[p] = to[p] THEN Same ELSE to[p]]

-----------------------------------------------------------------------------
\* codexRepairChangeFilter: whether a change of p to this content is kept.
Keep(p, content) ==
    /\ p \notin Generated
    /\ IF content = Absent THEN p \in SourceNamed ELSE content \in Text

-----------------------------------------------------------------------------
\* git diff --name-only pairs a deleted path with an added one of the same
\* content and names only the added one.  Which deletions are so hidden:

Deleted(from, to, c) == {p \in Paths : from[p] = c /\ to[p] = Absent}
Added(from, to, c) == {p \in Paths : from[p] = Absent /\ to[p] = c}

Least(m, n) == IF m <= n THEN m ELSE n

Hidden(from, to) ==
    {hidden \in SUBSET UNION {Deleted(from, to, c) : c \in Contents} :
        \A c \in Contents :
            Cardinality(hidden \cap Deleted(from, to, c)) =
                Least(Cardinality(Deleted(from, to, c)), Cardinality(Added(from, to, c)))}

\* Mutant: the listing is not filtered.
DiscardsNothing(head, work) == {{}}

\* The sets of paths CaptureAndCommitWithOptions may discard: the listed ones the
\* filter does not keep.
Discards(head, work) ==
    {{p \in Changed(head, work) \ hidden : ~Keep(p, work[p])} : hidden \in Hidden(head, work)}

\* discardPath: back to what HEAD has, or away.
Restored(paths, head, work) ==
    [p \in Paths |-> IF p \in paths THEN head[p] ELSE work[p]]

\* Mutant: a reset without git clean leaves what the turn has added.
ResetWithoutClean(ref, work) ==
    [p \in Paths |-> IF ref[p] = Absent THEN work[p] ELSE ref[p]]

\* ResetTo: git reset --hard and git clean -fdxq, which leaves a directory with a
\* repository of its own where it is.
ResetTo(ref, work) ==
    [p \in Paths |-> IF ref[p] = Absent /\ work[p] = Nested THEN Nested ELSE ref[p]]
=============================================================================
