--------------------------- MODULE MCSysrootCache ---------------------------
(* Instances of SysrootCache for TLC. *)
EXTENDS SysrootCache, TLC

CONSTANTS p1, p2, t1, t2, d1, d2

Call(kind, t, refresh, offline, purge) ==
    [kind |-> kind, target |-> t, refresh |-> refresh, offline |-> offline,
     purge |-> purge]
Ensure(t)   == Call("ensure", t, FALSE, FALSE, FALSE)
Refresh(t)  == Call("ensure", t, TRUE, FALSE, FALSE)
Offline(t)  == Call("ensure", t, FALSE, TRUE, FALSE)
Lookup(t)   == Call("lookup", t, FALSE, FALSE, FALSE)
Remove(t)   == Call("remove", t, FALSE, FALSE, FALSE)
Purge(t)    == Call("remove", t, FALSE, FALSE, TRUE)

OneProc    == {p1}
TwoProcs   == {p1, p2}
OneTarget  == {t1}
TwoTargets == {t1, t2}
OneDigest  == {d1}
TwoDigests == {d1, d2}

\* Two targets whose tags may name one digest; a tag that never moves.
SharedTags == t1 :> {d1, d2} @@ t2 :> {d2}
FixedTag   == t1 :> {d1}

ShareCalls == {Ensure(t1), Refresh(t1), Offline(t1), Remove(t1), Ensure(t2)}
FaultCalls == {Ensure(t1), Lookup(t1), Purge(t1)}
PurgeCalls == {Ensure(t1), Offline(t1), Purge(t1)}

Bound(calls, moves, crashes, expiries, damages, failures) ==
    ("call" :> calls) @@ ("move" :> moves) @@ ("crash" :> crashes)
    @@ ("expire" :> expiries) @@ ("damage" :> damages) @@ ("stuck" :> failures)
ShareBudget  == Bound(3, 1, 0, 0, 0, 0)
FaultBudget  == Bound(3, 0, 1, 1, 1, 1)
TornBudget   == Bound(4, 0, 1, 0, 0, 0)

ProcSymmetry == Permutations(TwoProcs)

\* The faults of one behaviour are of at most two kinds, any two.
Faults == {"crash", "expire", "damage", "stuck"}
FewFaults == Cardinality({k \in Faults : ~Never(k)}) <= 2

\* One of the processes runs; the other may stop anywhere, for ever.
OneFairSpec == Spec /\ FairTo(p1)

\* Every Ensure, Lookup and Remove returns, whatever other processes do, whoever died
\* or lost its lease, unless it waits for a lock file that is old and cannot be
\* removed: stated for one of the processes, which are interchangeable
\* (acquireFileLock).
OneReturns == Running(p1) ~> (~Running(p1) \/ Spins(p1))
=============================================================================
