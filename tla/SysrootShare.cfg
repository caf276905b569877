SPECIFICATION Spec
CONSTANTS
    p1 = p1
    p2 = p2
    t1 = t1
    t2 = t2
    d1 = d1
    d2 = d2
    None = None
    Corrupt = Corrupt
    Procs <- TwoProcs
    Targets <- TwoTargets
    Digests <- TwoDigests
    Offers <- SharedTags
    Calls <- ShareCalls
    Budget <- ShareBudget
SYMMETRY ProcSymmetry
INVARIANT MutualExclusion
INVARIANT LockedMeansUsable
PROPERTY DigestStaysLocked
PROPERTY ImplementsPins
CHECK_DEADLOCK FALSE
