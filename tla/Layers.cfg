SPECIFICATION Spec
CONSTANTS
    Names <- AllNames
    Lowers <- AllLowers
    Entries <- AllEntries
    MaxEntries = 3
    Required <- OneFile
INVARIANTS FollowsImageSpec WellFormedExtracts ModesAsListed
CHECK_DEADLOCK FALSE
