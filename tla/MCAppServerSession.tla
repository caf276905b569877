------------------------- MODULE MCAppServerSession -------------------------
(* Small instances of AppServerSession. *)
EXTENDS AppServerSession

\* One fault of every kind, over two turns.
OneOfEach == [kind \in Faults |-> 1]

=============================================================================
