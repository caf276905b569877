---------------------------- MODULE MCBuildRepair ----------------------------
(* Small instances of BuildRepair. *)
EXTENDS BuildRepair

\* One path of each kind.
AllPaths == {"main.c", "main.o", "Makefile", "CMakeLists.txt", "logo", "icon", "dep"}

\* A source in two versions, their objects, build files, and two images.
AllContents == {"c1", "c2", "o1", "o2", "rules", "png", "gif"}

Objects == [c \in AllContents |-> IF c = "c1" THEN "o1" ELSE "o2"]

SystemFiles == [s \in Systems |-> IF s = "cmake" THEN "CMakeLists.txt" ELSE "Makefile"]

Tree(present) ==
    [p \in AllPaths |-> IF p \in DOMAIN present THEN present[p] ELSE Absent]

MakeProject == Tree([p \in {"main.c", "Makefile", "logo"} |->
    CASE p = "main.c" -> "c1" [] p = "Makefile" -> "rules" [] OTHER -> "png"])
\* Shipped with an object that is not its source's.
ShippedProject == [MakeProject EXCEPT !["main.o"] = "o2"]

\* The patches over these paths that change at most n of them to these values.
TurnsOver(values, n) ==
    LET Picks(changed) == {f \in [changed -> UNION {values[p] : p \in changed}] :
                                \A p \in changed : f[p] \in values[p]}
        Patch(f) == [p \in AllPaths |-> IF p \in DOMAIN f THEN f[p] ELSE Same]
    IN  UNION {{Patch(f) : f \in Picks(changed)} :
               changed \in {c \in SUBSET DOMAIN values : Cardinality(c) <= n}}

\* The source, its object, an image, build files that come and go, and a clone of a
\* dependency.
RepairEdits == TurnsOver([p \in {"main.c", "main.o", "Makefile", "CMakeLists.txt", "logo", "dep"} |->
    CASE p = "main.c" -> {"c2"} [] p = "main.o" -> {"o1"}
      [] p = "Makefile" -> {"rules", Absent} [] p = "CMakeLists.txt" -> {"rules"}
      [] p = "dep" -> {Nested} [] OTHER -> {"gif"}], 2)

\* An image is moved: deleted here, added there.
RenamingEdits == TurnsOver([p \in {"main.c", "logo", "icon"} |->
    CASE p = "main.c" -> {"c2"} [] p = "logo" -> {Absent} [] OTHER -> {"png"}], 3)
=============================================================================
