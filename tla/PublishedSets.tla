---------------------------- MODULE PublishedSets ----------------------------
(***************************************************************************)
(* What publishing promises whoever looks at dist/<target>, without        *)
(* builders, labels and failing renames: at any moment the place is empty  *)
(* or holds one set that came there whole; a set is never replaced where   *)
(* it is, the old one goes aside first; what is put back was there before; *)
(* and the last published set is never thrown away.                        *)
(***************************************************************************)
CONSTANTS
    Complete,       \* the sets that may be published
    Nothing         \* no set is in place

VARIABLES
    visible,        \* what is in place
    aside,          \* sets moved away and not deleted
    latest          \* the set published last

shelf == <<visible, aside, latest>>

Spoiled(set)  == [set EXCEPT !.intact = FALSE]
Pristine(set) == [set EXCEPT !.intact = TRUE]

\* The set published last is there, in place or aside, damaged or not.
Kept ==
    latest # Nothing =>
        \E set \in ({visible} \cup aside) \ {Nothing} : Pristine(set) = latest

Init ==
    /\ visible = Nothing
    /\ aside = {}
    /\ latest = Nothing

Publish(set) ==
    /\ visible = Nothing
    /\ visible' = set
    /\ latest' = set
    /\ UNCHANGED aside

Hide ==
    /\ visible # Nothing
    /\ visible' = Nothing
    /\ aside' = aside \cup {visible}
    /\ UNCHANGED latest

\* Of two equal sets that are aside one may stay there.
PutBack(set) ==
    /\ visible = Nothing
    /\ visible' = set
    /\ aside' \in {aside, aside \ {set}}
    /\ UNCHANGED latest

Discard(set) ==
    /\ aside' = aside \ {set}
    /\ Kept'
    /\ UNCHANGED <<visible, latest>>

Spoil ==
    /\ visible # Nothing /\ visible.intact
    /\ visible' = Spoiled(visible)
    /\ UNCHANGED <<aside, latest>>

Next ==
    \/ \E set \in Complete : Publish(set)
    \/ \E set \in aside : PutBack(set) \/ Discard(set)
    \/ Hide
    \/ Spoil

Spec == Init /\ [][Next]_shelf
=============================================================================
