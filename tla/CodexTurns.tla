----------------------------- MODULE CodexTurns -----------------------------
(***************************************************************************)
(* What the repair loop relies on when it asks Codex for a turn, without   *)
(* processes and messages: one turn at a time, each answered by the text   *)
(* Codex wrote for it or not at all, the workspace edited only on behalf   *)
(* of the turn that is open or was given up, and nothing after the close.  *)
(***************************************************************************)
EXTENDS Integers, Sequences

CONSTANTS
    Limit,          \* the most turns that may be asked for
    Answer(_),      \* the answer Codex writes for the n-th turn
    Refusal         \* the result of a turn that failed

VARIABLES
    state,          \* "free", "asked", "failed" or "closed"
    results,        \* what the turns asked for so far came to
    editor          \* the turn on whose behalf the workspace was edited last

turns == <<state, results, editor>>

Init == state = "free" /\ results = <<>> /\ editor = 0

Ask ==
    /\ state = "free" /\ Len(results) < Limit
    /\ state' = "asked"
    /\ UNCHANGED <<results, editor>>

\* The open turn, and one that was given up, may edit; no other.
Edit ==
    /\ \/ state = "asked" /\ editor' = Len(results) + 1
       \/ state = "failed" /\ editor' = Len(results)
    /\ UNCHANGED <<state, results>>

Reply ==
    /\ state = "asked"
    /\ state' = "free"
    /\ results' = Append(results, Answer(Len(results) + 1))
    /\ UNCHANGED editor

GiveUp ==
    /\ state = "asked"
    /\ state' = "failed"
    /\ results' = Append(results, Refusal)
    /\ UNCHANGED editor

Close ==
    /\ state \in {"free", "failed"}
    /\ state' = "closed"
    /\ UNCHANGED <<results, editor>>

Next == Ask \/ Edit \/ Reply \/ GiveUp \/ Close

Spec == Init /\ [][Next]_turns
=============================================================================
