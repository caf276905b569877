---------------------------- MODULE MCMatrixRun ----------------------------
(* Small instances of MatrixRun. *)
EXTENDS MatrixRun

CONSTANTS a, b, c

ThreeWorkers == {a, b, c}

\* Builds that succeed or fail; the second is reused.
Builds == [i \in 1..N |-> IF i = 2 THEN {"reused", "failed"}
                                   ELSE {"succeeded", "failed"}]
=============================================================================
