--------------------------- MODULE MCArtifactSet ---------------------------
(* A small instance of ArtifactSet. *)
EXTENDS ArtifactSet, TLC

CONSTANTS v1, v2

TwoVersions == {v1, v2}
VersionSymmetry == Permutations(TwoVersions)
=============================================================================
