SPECIFICATION FairSpec
CONSTANTS
    MaxTurns = 2
    Persistent = TRUE
    Budget <- OneOfEach
INVARIANTS NothingRuns NoSpuriousFailure
PROPERTIES ImplementsTurns Returns
