---------------------------- MODULE LayerExtract ----------------------------
(***************************************************************************)
(* The extraction of one OCI layer over the root file system that the      *)
(* lower layers left: applyLayer and applyWhiteout of                      *)
(* internal/sysroot/extract.go, one action per kind of archive entry, with *)
(* the hard links and directory modes that wait for the end of the archive *)
(* and the check of the finished root.                                     *)
(*                                                                         *)
(* The reference is the image specification's: whiteouts hide what lower   *)
(* layers hold and nothing of their own layer, wherever in the archive     *)
(* they stand; the other entries replace what is at their path, in order.  *)
(***************************************************************************)
EXTENDS Integers, Sequences, SequencesExt

CONSTANTS
    Names,          \* names of files and directories
    Lowers,         \* root file systems the layer may be applied to
    Entries,        \* entries an archive may hold
    MaxEntries,     \* the longest archive (model bound)
    Required        \* sets of paths of which a usable root has one each

\* A file system maps the paths that exist to what is there.
Dir(open)   == [kind |-> "dir", open |-> open, data |-> "none", to |-> <<>>]
File(data)  == [kind |-> "file", open |-> TRUE, data |-> data, to |-> <<>>]
Link(to)    == [kind |-> "link", open |-> TRUE, data |-> "none", to |-> to]

Paths == Seq(Names) \ {<<>>}
Nodes == {n \in [kind : {"dir", "file", "link"}, open : BOOLEAN,
                 data : {"none", "old", "new"}, to : Seq(Names)] :
            /\ n.kind = "dir" \/ n.open
            /\ n.kind = "file" <=> n.data # "none"
            /\ n.kind = "link" \/ n.to = <<>>}

ListedKinds == {"dir", "file", "symlink", "hardlink"}
Kinds       == ListedKinds \cup {"whiteout", "opaque", "special"}

VARIABLES
    lower,          \* the root before the layer
    tree,           \* the root now
    archive,        \* its entries, as far as they are settled
    created,        \* paths the layer has made, as the archive spells them
    links,          \* hard links that wait for their target
    modes,          \* directory modes that wait for the end
    through,        \* a link stood on the way to an entry
    status          \* "reading", "ending", "read", "usable"; "failed", "unfinished",
                    \* "unusable"

vars == <<lower, tree, archive, created, links, modes, through, status>>

-----------------------------------------------------------------------------
(* Files.                                                                  *)

Exists(t, p) == p \in DOMAIN t
Kind(t, p)   == IF p = <<>> THEN "dir" ELSE IF Exists(t, p) THEN t[p].kind ELSE "none"
Open(t, p)   == p = <<>> \/ t[p].open
Under(t, p)  == {q \in DOMAIN t : IsPrefix(p, q)}
Children(t, p) == {q \in DOMAIN t : q # <<>> /\ Front(q) = p}
Above(p)     == {SubSeq(p, 1, i) : i \in 1..(Len(p) - 1)}

Without(t, ps) == [q \in DOMAIN t \ ps |-> t[q]]
With(t, p, n)  == [q \in DOMAIN t \cup {p} |-> IF q = p THEN n ELSE t[q]]

\* The path the system reaches: directories that are links are followed.
\* Links lead to directories that are none themselves, so two hops do.
IsLink(t, p) == Kind(t, p) = "link"
Hop(t, p) ==
    LET first == {q \in Above(p) : IsLink(t, q) /\ \A r \in Above(q) : ~IsLink(t, r)}
        link  == CHOOSE q \in first : TRUE
    IN  IF first = {} THEN p ELSE t[link].to \o SubSeq(p, Len(link) + 1, Len(p))
Real(t, p) == Hop(t, Hop(t, p))

\* Something on the way is no directory; a link on the way leads nowhere.
Stray(t, p)    == \E q \in Above(Real(t, p)) : Kind(t, q) \notin {"dir", "none"}
Dangling(t, p) == \E q \in Above(p) : IsLink(t, q) /\ ~Exists(t, t[q].to)

\* What os.Stat finds: a link at the end is followed, too.
Final(t, p) == IF IsLink(t, Real(t, p)) THEN t[Real(t, p)].to ELSE Real(t, p)

\* A name can be made or removed in a directory that is open for writing.
Writable(t, p) == Front(p) = <<>> \/ (Exists(t, Front(p)) => Open(t, Front(p)))

\* os.RemoveAll: each directory on the way down must let go of its names.
Removable(t, p) ==
    Exists(t, p) => /\ Writable(t, p)
                    /\ \A q \in Under(t, p) : Children(t, q) # {} => Open(t, q)
Removed(t, p) == Without(t, Under(t, p))

\* os.MkdirAll of the parents.
MissingAbove(t, p) == {q \in Above(p) : ~Exists(t, q)}
MadeAbove(t, p) ==
    [q \in DOMAIN t \cup MissingAbove(t, p) |-> IF Exists(t, q) THEN t[q] ELSE Dir(TRUE)]
CanMakeAbove(t, p) ==
    \A q \in Above(p) : ~Exists(t, q) => Writable(t, q)
CanPut(t, p) == CanMakeAbove(t, p) /\ (Exists(t, Front(p)) => Writable(t, p))

\* Everything is in a directory.
IsFileSystem(t) ==
    /\ t \in [DOMAIN t -> Nodes] /\ DOMAIN t \subseteq Paths
    /\ \A p \in DOMAIN t : \A q \in Above(p) : Kind(t, q) = "dir"

ASSUME LowersAssumption == \A t \in Lowers : IsFileSystem(t)

\* The permissions an entry lists: they let its owner write, they do not, or there
\* are none at all.
Permissions == {"open", "closed", "none"}

\* directoryPermission: a directory that lists none gets 0755.
Opens(mode) == mode # "closed"

\* Only an opaque whiteout may be about the root itself.
ASSUME EntriesAssumption ==
    /\ Entries \subseteq [kind : Kinds, path : Seq(Names), to : Seq(Names), mode : Permissions]
    /\ \A e \in Entries : e.kind # "opaque" => e.path # <<>>

-----------------------------------------------------------------------------

Init ==
    /\ lower \in Lowers
    /\ tree = lower
    /\ archive = <<>> /\ created = {} /\ links = <<>> /\ modes = {}
    /\ through = FALSE
    /\ status = "reading"

Fail ==
    /\ status' = "failed"
    /\ UNCHANGED <<tree, created, links, modes>>

\* The next entry of the archive is e.
Reads(e) ==
    /\ status = "reading" /\ Len(archive) < MaxEntries
    /\ archive' = Append(archive, e)
    /\ through' = \/ through
                  \/ \E q \in Above(e.path) : IsLink(tree, q)
                  \/ e.kind = "opaque" /\ IsLink(tree, e.path)
    /\ UNCHANGED lower

Blocked(e) == Stray(tree, e.path) \/ Dangling(tree, e.path)

\* Mutant: the mode of a directory that is there already is forgotten.
KeptDir(e) ==
    /\ e.kind = "dir" /\ Reads(e)
    /\ LET p    == Real(tree, e.path)
           kept == Kind(tree, p) = "dir"
           base == IF kept THEN tree ELSE Removed(tree, p)
           ok   == ~Blocked(e) /\ (kept \/ (Removable(tree, p) /\ CanPut(base, p)))
       IN  \/ ~ok /\ Fail
           \/ /\ ok
              /\ tree' = IF kept THEN tree ELSE With(MadeAbove(base, p), p, Dir(TRUE))
              /\ modes' = IF kept THEN modes
                          ELSE modes \cup {[path |-> e.path, open |-> Opens(e.mode)]}
              /\ created' = created \cup {e.path}
              /\ UNCHANGED <<links, status>>

\* A directory keeps what a directory holds and replaces anything else.
ExtractDir(e) ==
    /\ e.kind = "dir" /\ Reads(e)
    /\ LET p    == Real(tree, e.path)
           kept == Kind(tree, p) = "dir"
           base == IF kept THEN tree ELSE Removed(tree, p)
           ok   == ~Blocked(e) /\ (kept \/ (Removable(tree, p) /\ CanPut(base, p)))
       IN  \/ ~ok /\ Fail
           \/ /\ ok
              /\ tree' = IF kept THEN tree ELSE With(MadeAbove(base, p), p, Dir(TRUE))
              /\ modes' = modes \cup {[path |-> e.path, open |-> Opens(e.mode)]}
              /\ created' = created \cup {e.path}
              /\ UNCHANGED <<links, status>>

\* Files and symbolic links replace whatever is at their path.
Replaces(e, node) ==
    LET p    == Real(tree, e.path)
        base == Removed(tree, p)
        ok   == ~Blocked(e) /\ Removable(tree, p) /\ CanPut(base, p)
    IN  \/ ~ok /\ Fail
        \/ /\ ok
           /\ tree' = With(MadeAbove(base, p), p, node)
           /\ created' = created \cup {e.path}
           /\ UNCHANGED <<links, modes, status>>

ExtractFile(e)    == e.kind = "file" /\ Reads(e) /\ Replaces(e, File("new"))
ExtractSymlink(e) == e.kind = "symlink" /\ Reads(e) /\ Replaces(e, Link(e.to))

\* Mutant: hard links do not wait.
HardlinkAtOnce(e) ==
    /\ e.kind = "hardlink" /\ Reads(e)
    /\ LET p    == Real(tree, e.path)
           base == MadeAbove(Removed(tree, p), p)
           from == Real(base, e.to)
           ok   == ~Blocked(e) /\ Removable(tree, p) /\ Kind(base, from) \in {"file", "link"}
       IN  \/ ~ok /\ Fail
           \/ /\ ok
              /\ created' = created \cup {e.path}
              /\ tree' = With(base, p, base[from])
              /\ UNCHANGED <<links, modes, status>>

\* A hard link whose target is not there yet waits for the end.
ExtractHardlink(e) ==
    /\ e.kind = "hardlink" /\ Reads(e)
    /\ LET p    == Real(tree, e.path)
           base == MadeAbove(Removed(tree, p), p)
           from == Real(base, e.to)
           ok   == /\ ~Blocked(e) /\ Removable(tree, p) /\ CanPut(Removed(tree, p), p)
                   /\ ~Stray(base, e.to) /\ Kind(base, from) # "dir"
       IN  \/ ~ok /\ Fail
           \/ /\ ok
              /\ created' = created \cup {e.path}
              /\ IF Exists(base, from)
                   THEN tree' = With(base, p, base[from]) /\ UNCHANGED links
                   ELSE tree' = base /\ links' = Append(links, e)
              /\ UNCHANGED <<modes, status>>

\* The path q of the file system, as the archive would spell it below p.
Spelled(p, q) == p \o SubSeq(q, Len(Real(tree, p)) + 1, Len(q))

\* Mutant: whiteouts forget what the layer has made.
AllUnder(p) == Under(tree, Real(tree, p))

\* What a whiteout of path p removes: everything at and below it but what
\* the layer has made, and the directories on the way there.
LowerPart(p) ==
    {q \in Under(tree, Real(tree, p)) :
        LET s == Spelled(p, q)
        IN  /\ s \notin created
            /\ Kind(tree, q) = "dir" => \A c \in created : ~IsStrictPrefix(s, c)}

\* The whiteouts of these paths.
Hides(e, ps) ==
    LET gone == UNION {LowerPart(p) : p \in ps}
        ok   == ~Stray(tree, e.path) /\ \A q \in gone : Writable(tree, q)
    IN  \/ ~ok /\ Fail
        \/ ok /\ tree' = Without(tree, gone) /\ UNCHANGED <<created, links, modes, status>>

Whiteout(e) == e.kind = "whiteout" /\ Reads(e) /\ Hides(e, {e.path})

\* An opaque whiteout hides the names its directory holds now.
Opaque(e) ==
    /\ e.kind = "opaque" /\ Reads(e)
    /\ LET parent == e.path
           at     == Final(tree, parent)
       IN  IF Kind(tree, at) \in {"file", "link"} THEN Fail
           ELSE Hides(e, {Append(parent, Last(q)) : q \in Children(tree, at)})

\* Devices, fifos and sockets are passed over.
Special(e) ==
    /\ e.kind = "special" /\ Reads(e)
    /\ IF Blocked(e) THEN Fail ELSE UNCHANGED <<tree, created, links, modes, status>>

\* The end of the archive ...
EndOfArchive ==
    /\ status = "reading"
    /\ status' = "ending"
    /\ UNCHANGED <<lower, tree, archive, created, links, modes, through>>

\* ... where the hard links that wait are made, in order; the first that fails
\* ends the extraction.
CanLink(t, e) ==
    LET p == Real(t, e.path) from == Real(t, e.to)
    IN  /\ Exists(t, from) /\ Kind(t, from) # "dir"
        /\ ~Exists(t, p) /\ Kind(t, Front(p)) = "dir" /\ Writable(t, p)

MakeLink ==
    /\ status = "ending" /\ links # <<>>
    /\ LET e == Head(links)
       IN  IF CanLink(tree, e)
             THEN /\ tree' = With(tree, Real(tree, e.path), tree[Real(tree, e.to)])
                  /\ links' = Tail(links)
                  /\ UNCHANGED status
             ELSE status' = "unfinished" /\ UNCHANGED <<tree, links>>
    /\ through' = (through \/ \E q \in Above(Head(links).path) : IsLink(tree, q))
    /\ UNCHANGED <<lower, archive, created, modes>>

\* Then the modes, the deepest paths first and otherwise in any order: the sort
\* is not stable.
ApplyMode(m) ==
    /\ status = "ending" /\ links = <<>>
    /\ \A n \in modes : Len(n.path) <= Len(m.path)
    /\ LET p == Final(tree, m.path)
       IN  IF Exists(tree, p)
             THEN /\ tree' = IF Kind(tree, p) = "dir" THEN [tree EXCEPT ![p].open = m.open]
                                                     ELSE tree
                  /\ modes' = modes \ {m}
                  /\ UNCHANGED status
             ELSE status' = "unfinished" /\ UNCHANGED <<tree, modes>>
    /\ UNCHANGED <<lower, archive, created, links, through>>

Finish ==
    /\ status = "ending" /\ links = <<>> /\ modes = {}
    /\ status' = "read"
    /\ UNCHANGED <<lower, tree, archive, created, links, modes, through>>

\* The finished root must hold one regular file of each requirement.
Meets(t) == \A ps \in Required : \E p \in ps : Kind(t, Final(t, p)) = "file"

Validate ==
    /\ status = "read"
    /\ status' = IF Meets(tree) THEN "usable" ELSE "unusable"
    /\ UNCHANGED <<lower, tree, archive, created, links, modes, through>>

Extract(e) ==
    \/ ExtractDir(e) \/ ExtractFile(e) \/ ExtractSymlink(e) \/ ExtractHardlink(e)
    \/ Whiteout(e) \/ Opaque(e) \/ Special(e)

\* What the archive holds after the entry that failed.
Unread(e) ==
    /\ status = "failed" /\ Len(archive) < MaxEntries
    /\ archive' = Append(archive, e)
    /\ UNCHANGED <<lower, tree, created, links, modes, through, status>>

Next ==
    \/ \E e \in Entries : Extract(e) \/ Unread(e)
    \/ EndOfArchive
    \/ MakeLink
    \/ \E m \in modes : ApplyMode(m)
    \/ Finish
    \/ Validate

Spec == Init /\ [][Next]_vars

-----------------------------------------------------------------------------
(* The image specification's layer: what the entries of a make of a root l. *)

Of(a, kind) == {a[i] : i \in {j \in DOMAIN a : a[j].kind = kind}}

\* What the layer's whiteouts leave of the lower layers.
Visible(l, a) ==
    Without(l, (UNION {Under(l, e.path) : e \in Of(a, "whiteout")})
               \cup (UNION {Under(l, e.path) \ {e.path} : e \in Of(a, "opaque")}))

\* Of the entries of a path the only one counts.  A later entry above it that
\* is no directory replaces it; a directory is merged with what is there, and
\* one that is not listed is made for what it holds.
Listed(a)     == {i \in DOMAIN a : a[i].kind \in ListedKinds}
For(a, p)     == {i \in Listed(a) : a[i].path = p}
Holding(a, p) == {i \in Listed(a) : p \in Above(a[i].path)}

\* The layer lists something else than a directory above this path.
Burying(a, p)     == {i \in Listed(a) : a[i].path \in Above(p) /\ a[i].kind # "dir"}
Buried(a, p)      == Burying(a, p) # {}
Replaced(a, p, i) == \E j \in Burying(a, p) : j > i

Placed(l, a, e) ==
    CASE e.kind = "dir" -> Dir(TRUE)
      [] e.kind = "file" -> File("new")
      [] e.kind = "symlink" -> Link(e.to)
      [] e.kind = "hardlink" -> IF For(a, e.to) # {} THEN File("new") ELSE l[e.to]

Layered(l, a) ==
    [p \in {q \in UNION {Above(a[i].path) \cup {a[i].path} : i \in Listed(a)} :
                \E i \in For(a, q) \cup Holding(a, q) : ~Replaced(a, q, i)}
           \cup {q \in DOMAIN Visible(l, a) : For(a, q) = {} /\ ~Buried(a, q)} |->
        IF For(a, p) # {} THEN Placed(l, a, a[CHOOSE i \in For(a, p) : TRUE])
        ELSE IF Holding(a, p) # {} THEN Dir(TRUE) ELSE l[p]]

\* Names and contents; the modes have a property of their own.
Shape(t) == [p \in DOMAIN t |-> [t[p] EXCEPT !.open = TRUE]]

\* A well-formed layer lists a path once, ...
Once(a) == \A i, j \in Listed(a) : a[i].path = a[j].path => i = j

\* ... files its hard links lead to, before or after, unless they lead to a
\* lower file, ...
Clean(l, p) == \A q \in Above(p) : Kind(l, q) \in {"dir", "none"}

Grounded(l, a) == \A i \in Listed(a) : a[i].kind = "hardlink" =>
    LET to == a[i].to
    IN  /\ ~Buried(a, to)
        /\ \A j \in For(a, to) : a[j].kind = "file"
        /\ \/ \E j \in For(a, to) : j < i
           \/ For(a, to) # {} /\ ~Exists(l, to) /\ Clean(l, to)
           \/ For(a, to) = {} /\ Kind(Visible(l, a), to) = "file"

\* ... hides names that are in directories ...
Hiding(l, a) == \A i \in DOMAIN a :
    LET p  == a[i].path
        on == IF a[i].kind = "opaque" THEN Above(p) \cup {p} ELSE Above(p)
    IN  a[i].kind \in {"whiteout", "opaque"} =>
            /\ \A q \in on : Kind(l, q) \in {"dir", "none"}
            /\ \A j \in Listed(a) : a[j].path \in on => a[j].kind = "dir"

\* ... and lists parents before what they hold.
Parented(l, a) == \A i \in DOMAIN a : a[i].kind \notin {"whiteout", "opaque"} =>
    \A q \in Above(a[i].path) :
        IF For(a, q) = {} THEN Kind(Visible(l, a), q) = "dir"
                          ELSE \E j \in For(a, q) : j < i /\ a[j].kind = "dir"

-----------------------------------------------------------------------------
(* Properties.                                                             *)

\* The root stays a file system: everything is in a directory, and waiting
\* links and modes belong to paths the layer has made.
TypeOK ==
    /\ lower \in Lowers /\ IsFileSystem(tree)
    /\ archive \in Seq(Entries)
    /\ created \subseteq Paths
    /\ links \in Seq({e \in Entries : e.kind = "hardlink" /\ e.path \in created})
    /\ modes \subseteq [path : created, open : BOOLEAN]
    /\ through \in BOOLEAN
    /\ status \in {"reading", "ending", "read", "usable", "failed", "unfinished", "unusable"}

\* What is extracted is what the image specification says: whiteouts spare
\* their own layer and opaque directories keep what it lists, in any order
\* (created of applyLayer, removeLowerPathPreservingCreated).
FollowsImageSpec ==
    status = "read" /\ ~through /\ Once(archive) /\ Grounded(lower, archive) =>
        Shape(tree) = Shape(Layered(lower, archive))

\* A layer that lists parents first and has files for its hard links is never
\* refused, when the lower directories are open for writing.
WellFormedExtracts ==
    status \in {"failed", "unfinished"} =>
        \/ ~Once(archive) \/ ~Grounded(lower, archive)
        \/ ~Parented(lower, archive) \/ ~Hiding(lower, archive)
        \/ through \/ \E p \in DOMAIN lower : ~lower[p].open

\* The directories a layer lists end open for writing or closed as it lists them,
\* also those it closes before it fills them and those a lower layer has closed;
\* one listed without any permission ends open (directories of applyLayer, applied
\* last).
ModesAsListed ==
    status = "read" /\ ~through /\ Once(archive)
        /\ (\A e \in Of(archive, "dir") : ~Buried(archive, e.path)) =>
            \A e \in Of(archive, "dir") :
                Kind(tree, e.path) = "dir" /\ (tree[e.path].open <=> e.mode # "closed")
=============================================================================
