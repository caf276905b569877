----------------------------- MODULE SysrootPins -----------------------------
(***************************************************************************)
(* What the managed sysroot cache promises its callers, without files and  *)
(* locks: digests become usable and stay so, a target is pinned to a       *)
(* usable digest, keeps it until it is unpinned, and moves to another only *)
(* when refreshes are allowed.                                             *)
(***************************************************************************)
CONSTANTS
    Targets, Digests,
    Free,           \* a target that is pinned to nothing
    Refreshes,      \* the targets that may be moved
    Removes         \* the targets that may be unpinned

VARIABLES
    pin,            \* the digest of each target, or Free
    usable          \* the digests whose root file system is complete

pins == <<pin, usable>>

Init ==
    /\ pin = [t \in Targets |-> Free]
    /\ usable = {}

Provide(d) ==
    /\ usable' = usable \cup {d}
    /\ UNCHANGED pin

Pin(t, d) ==
    /\ d \in usable
    /\ pin[t] = Free \/ t \in Refreshes
    /\ pin' = [pin EXCEPT ![t] = d]
    /\ UNCHANGED usable

Unpin(t) ==
    /\ t \in Removes
    /\ pin' = [pin EXCEPT ![t] = Free]
    /\ UNCHANGED usable

Next ==
    \/ \E d \in Digests : Provide(d)
    \/ \E t \in Targets : Unpin(t) \/ \E d \in Digests : Pin(t, d)

Spec == Init /\ [][Next]_pins
=============================================================================
