SPECIFICATION FairSpec
CONSTANTS
    Callers <- Two
    Wants <- BothWant
    Tagged <- Tags
    Objects <- Registry
    Layers <- Pool
    Junk = "junk"
    Budget <- OneOfEach
INVARIANTS ResolvesWhatTagNames ExtractsVerified FailsForAReason
PROPERTIES Completes
CHECK_DEADLOCK FALSE
