SPECIFICATION Spec
CONSTANTS
    v1 = v1
    v2 = v2
    Versions <- TwoVersions
    MaxEdits = 1
    MaxHarm = 2
INVARIANTS HonestSetsPass AcceptedIsSealed EvidenceIsOriginal
SYMMETRY VersionSymmetry
