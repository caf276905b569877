--------------------------- MODULE MCManagedMeson ---------------------------
(* Small instances of ManagedMeson. *)
EXTENDS ManagedMeson

Three == {"b1", "b2", "b3"}
Unplugged == {"b3"}
=============================================================================
