---------------------------- MODULE MCImageFetch ----------------------------
(* Small instances of ImageFetch. *)
EXTENDS ImageFetch

AMD == [arch |-> "amd64", variant |-> "plain"]
V7  == [arch |-> "arm", variant |-> "v7"]
V6  == [arch |-> "arm", variant |-> "v6"]

Two == {"c1", "c2"}

\* One call for any amd64 image, one for the seventh arm.
BothWant == [p \in Two |-> IF p = "c1" THEN [AMD EXCEPT !.variant = "any"] ELSE V7]

Blob(d) == [digest |-> d, size |-> "right"]
Image(platform, layers) ==
    [kind |-> "manifest", entries |-> <<>>, platform |-> platform, layers |-> layers,
     size |-> "right"]
Index(entries) ==
    [kind |-> "index", entries |-> entries, platform |-> AMD, layers |-> <<>>,
     size |-> "right"]
Entry(platform, digest) == [platform |-> platform, digest |-> digest]

\* Two indexes whose images share a layer; the second lies about its arm image.
\* The third object is nothing miruri knows.
Registry == [
    i1 |-> Index(<<Entry(V6, "m6"), Entry(AMD, "m1"), Entry(V7, "m7")>>),
    i2 |-> Index(<<Entry(AMD, "m2"), Entry(V7, "m6")>>),
    m1 |-> Image(AMD, <<Blob("base"), Blob("top")>>),
    m2 |-> Image(AMD, <<Blob("top"), [digest |-> "base", size |-> "wrong"]>>),
    m6 |-> Image(V6, <<Blob("top")>>),
    m7 |-> Image(V7, <<Blob("base")>>),
    x |-> [Index(<<>>) EXCEPT !.kind = "other"]]

Pool == {"base", "top"}
Tags == {"i1", "i2", "x"}
OneOfEach == [f \in Faults |-> 1]
=============================================================================
