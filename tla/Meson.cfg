SPECIFICATION FairSpec
CONSTANTS
    Builds <- Three
    Offline <- Unplugged
    Budget = 2
INVARIANTS InstallsAlone RunsWholeMeson RepairsRuntime
PROPERTIES Returns
CHECK_DEADLOCK FALSE
