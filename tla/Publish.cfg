SPECIFICATION Spec
CONSTANTS
    a = a
    b = b
    v1 = v1
    v2 = v2
    x = x
    y = y
    Absent = Absent
    Builders <- TwoBuilders
    Versions <- TwoVersions
    Parts <- TwoFiles
    Calls <- AllCalls
    Budget <- PublishBudget
INVARIANTS FailureKeepsPrevious DigestIsHonest OnlyVerifiedVisible LatestSurvives
PROPERTIES ReuseIsCurrent ImplementsShelf
CHECK_DEADLOCK FALSE
SYMMETRY Symmetry
