SPECIFICATION Spec
CONSTANTS
    Absent = Absent
    Nested = Nested
    Same = Same
    Paths <- AllPaths
    Contents <- AllContents
    Text = {"c1", "c2", "rules"}
    Generated = {"main.o"}
    SourceNamed = {"main.c", "Makefile", "CMakeLists.txt"}
    Original <- MakeProject
    Edits <- RenamingEdits
    Source = "main.c"
    Object = "main.o"
    BuildFiles <- SystemFiles
    ObjectOf <- Objects
    Mode = "repair"
    MaxRepairs = 1
    CleanRule = TRUE
    MayFail = {}
PROPERTIES PatchIsSourceOnly
