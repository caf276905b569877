SPECIFICATION RunFairSpec
CONSTANTS
    a = a
    b = b
    c = c
    N = 4
    Workers <- ThreeWorkers
    Own <- Builds
    FailFast = TRUE
    MayInterrupt = TRUE
INVARIANTS AllAccounted UnstartedAreCanceled
PROPERTIES Returns
