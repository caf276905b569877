--------------------------- MODULE MCLayerExtract ---------------------------
(* Small instances of LayerExtract. *)
EXTENDS LayerExtract

d == <<"d">>
da == <<"d", "a">>
ds == <<"d", "s">>
dsx == <<"d", "s", "x">>
e == <<"e">>
ea == <<"e", "a">>
es == <<"e", "s">>

Entry(kind, path, to, mode) == [kind |-> kind, path |-> path, to |-> to, mode |-> mode]
Plain(kind, paths) == {Entry(kind, p, <<>>, "open") : p \in paths}

AllEntries ==
    Plain("dir", {d, ds, e}) \cup {Entry("dir", d, <<>>, m) : m \in {"closed", "none"}}
    \cup Plain("file", {d, da, ds, dsx, e, es}) \cup Plain("whiteout", {d, da, ds, dsx, e})
    \cup Plain("opaque", {d, ds}) \cup Plain("special", {da})
    \cup {Entry("symlink", p, e, "open") : p \in {d, ds}}
    \cup {Entry("hardlink", da, p, "open") : p \in {dsx, e, es}}
    \cup {Entry("hardlink", e, p, "open") : p \in {da, dsx}}

Over(ps, node) == [p \in ps |-> node]
Join(f, g) == [p \in DOMAIN f \cup DOMAIN g |-> IF p \in DOMAIN f THEN f[p] ELSE g[p]]

Files(ps) == Over(ps, File("old"))
Dirs(ps)  == Over(ps, Dir(TRUE))

\* An empty root; directories; a full one; one with a closed directory; one
\* with a link; files where directories may come.
AllLowers == {
    <<>>,
    Dirs({d, ds, e}),
    Join(Dirs({d, ds, e}), Files({da, dsx, e})),
    Join(Over({d}, Dir(FALSE)), Files({da, e})),
    Join(Join(Dirs({e, es}), Over({d}, Link(e))), Files({ea})),
    Files({d, e})}

AllNames == {"a", "d", "e", "s", "x"}

OneFile == {{da, e}}
=============================================================================
