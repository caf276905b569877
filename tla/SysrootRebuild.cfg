SPECIFICATION Spec
CONSTANTS
    p1 = p1
    p2 = p2
    t1 = t1
    t2 = t2
    d1 = d1
    d2 = d2
    None = None
    Corrupt = Corrupt
    Procs <- OneProc
    Targets <- OneTarget
    Digests <- OneDigest
    Offers <- FixedTag
    Calls <- PurgeCalls
    Budget <- TornBudget
INVARIANT IncompleteRebuiltOnline
CHECK_DEADLOCK FALSE
