----------------------- MODULE MCArtifactPublication -----------------------
(* Small instances of ArtifactPublication. *)
EXTENDS ArtifactPublication, TLC

CONSTANTS a, b, v1, v2, x, y

TwoBuilders == {a, b}
TwoVersions == {v1, v2}
TwoFiles == {x, y}

AllCalls == [reuse : BOOLEAN, dry : BOOLEAN]

\* Builders, files and versions are interchangeable.
Symmetry == {f @@ g @@ h : f \in Permutations(TwoBuilders),
                            g \in Permutations(TwoFiles), h \in Permutations(TwoVersions)}

\* Three builds, in turn or overlapping; edits between them, a damaged set, a
\* killed builder, two failed renames.
PublishBudget ==
    [call |-> 3, overlap |-> 2, edit |-> 1, race |-> 0, crash |-> 1,
     damage |-> 1, io |-> 2]
=============================================================================
