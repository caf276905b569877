SPECIFICATION FairSpec
CONSTANTS
    Absent = Absent
    Nested = Nested
    Same = Same
    Paths <- AllPaths
    Contents <- AllContents
    Text = {"c1", "c2", "rules"}
    Generated = {"main.o"}
    SourceNamed = {"main.c", "Makefile", "CMakeLists.txt"}
    Original <- ShippedProject
    Edits <- RepairEdits
    Source = "main.c"
    Object = "main.o"
    BuildFiles <- SystemFiles
    ObjectOf <- Objects
    Mode = "port"
    MaxRepairs = 2
    CleanRule = TRUE
    MayFail = {"checkpoint", "capture", "patch", "result", "analyze", "interrupt"}
INVARIANTS PatchesReproduceSource RefusedIsUndone IncompleteIsNotPublished ProductIsCurrent
PROPERTIES PatchIsSourceOnly Ends
