----------------------------- MODULE MatrixRun -----------------------------
(***************************************************************************)
(* internal/matrix/matrix.go, Run: one sender hands target indexes to a    *)
(* pool of workers over an unbuffered channel; a worker plans or builds    *)
(* its target; with FailFast the first failed or blocked result cancels    *)
(* the context that sender, workers and builds share.                      *)
(***************************************************************************)
EXTENDS Integers, FiniteSets

CONSTANTS
    N,          \* number of targets
    Workers,    \* the pool: config.Jobs goroutines
    Own,        \* Own[i]: how target i may end when it is left alone
    FailFast,   \* config.FailFast
    MayInterrupt    \* whether the caller may cancel its context

TargetStatuses == {"planned", "succeeded", "reused", "failed", "blocked"}
Indexes == 1..N

ASSUME SizeAssumption == N \in Nat \ {0} /\ Workers # {}
ASSUME OwnAssumption == Own \in [Indexes -> SUBSET TargetStatuses]
ASSUME FlagsAssumption == FailFast \in BOOLEAN /\ MayInterrupt \in BOOLEAN

VARIABLES
    next,       \* the sender's index
    sender,     \* Run's goroutine: sending, waiting for the workers, or returned
    at, task,   \* each worker's next operation and the index it took
    fate,       \* how the target a worker runs will end by itself
    result,     \* report.Results[i].Status, "none" for ""
    context,    \* workerContext: live, or cancelled by fail-fast or by the caller
    unstarted   \* ghost: the targets not started when the context was cancelled

runVars == <<next, sender, at, task, fate, result, context, unstarted>>

Bad == {"failed", "blocked"}

RunTypeOK ==
    /\ next \in 1..(N + 1)
    /\ sender \in {"send", "wait", "returned"}
    /\ at \in [Workers -> {"idle", "check", "run", "done"}]
    /\ task \in [Workers -> Indexes]
    /\ fate \in [Workers -> TargetStatuses]
    /\ result \in [Indexes -> TargetStatuses \cup {"none", "canceled"}]
    /\ context \in {"live", "failfast", "interrupted"}
    /\ unstarted \in SUBSET Indexes

RunInit ==
    /\ next = 1 /\ sender = "send"
    /\ at = [w \in Workers |-> "idle"]
    /\ task = [w \in Workers |-> 1]
    /\ fate = [w \in Workers |-> "failed"]
    /\ result = [i \in Indexes |-> "none"]
    /\ context = "live"
    /\ unstarted = {}

Goto(w, label) == at' = [at EXCEPT ![w] = label]

Started(i) == result[i] # "none" \/ \E w \in Workers : at[w] = "run" /\ task[w] = i

cancelled == context # "live"

\* cancel(): workerContext is done from here on.
Cancel(cause) ==
    IF cancelled THEN UNCHANGED <<context, unstarted>>
    ELSE /\ context' = cause
         /\ unstarted' = {i \in Indexes : ~Started(i)}

-----------------------------------------------------------------------------
\* The sender.

\* A send and a receive on the unbuffered channel are one step.
Send(w) ==
    /\ sender = "send" /\ next <= N
    /\ at[w] = "idle"
    /\ task' = [task EXCEPT ![w] = next]
    /\ next' = next + 1
    /\ Goto(w, "check")
    /\ UNCHANGED <<sender, fate, result, context, unstarted>>

\* What is left, the target about to be sent included, is canceled.
CancelFrom(first) ==
    result' = [i \in Indexes |-> IF i >= first /\ result[i] = "none" THEN "canceled"
                                                                 ELSE result[i]]

\* Mutant: only the targets after it are canceled.
GiveUpForgets ==
    /\ sender = "send" /\ next <= N
    /\ cancelled
    /\ CancelFrom(next + 1)
    /\ next' = N + 1
    /\ UNCHANGED <<sender, at, task, fate, context, unstarted>>

\* The select's other case, ready as soon as the context is cancelled.
GiveUp ==
    /\ sender = "send" /\ next <= N
    /\ cancelled
    /\ CancelFrom(next)
    /\ next' = N + 1
    /\ UNCHANGED <<sender, at, task, fate, context, unstarted>>

\* Mutant: a sender that gave up does not close the channel.
CloseUnlessCancelled ==
    /\ sender = "send" /\ next = N + 1 /\ ~cancelled
    /\ sender' = "wait"
    /\ UNCHANGED <<next, at, task, fate, result, context, unstarted>>

Close ==
    /\ sender = "send" /\ next = N + 1
    /\ sender' = "wait"
    /\ UNCHANGED <<next, at, task, fate, result, context, unstarted>>

\* workers.Wait has returned: what has no status yet is canceled, and the report
\* is written.
Report ==
    /\ sender = "wait" /\ \A w \in Workers : at[w] = "done"
    /\ CancelFrom(1)
    /\ sender' = "returned"
    /\ UNCHANGED <<next, at, task, fate, context, unstarted>>

-----------------------------------------------------------------------------
\* A worker.

Skip(w) ==
    /\ at[w] = "check" /\ cancelled
    /\ result' = [result EXCEPT ![task[w]] = IF @ = "none" THEN "canceled" ELSE @]
    /\ Goto(w, "idle")
    /\ UNCHANGED <<next, sender, task, fate, context, unstarted>>

\* Mutant: a worker does not look at the context before it starts.
StartAnyway(w) ==
    /\ at[w] = "check"
    /\ \E s \in Own[task[w]] : fate' = [fate EXCEPT ![w] = s]
    /\ Goto(w, "run")
    /\ UNCHANGED <<next, sender, task, result, context, unstarted>>

Start(w) ==
    /\ at[w] = "check" /\ ~cancelled
    /\ \E s \in Own[task[w]] : fate' = [fate EXCEPT ![w] = s]
    /\ Goto(w, "run")
    /\ UNCHANGED <<next, sender, task, result, context, unstarted>>

\* A build has the worker's context, so it may fail once that is cancelled; a
\* plan ignores it.
Outcome(w) ==
    {fate[w]} \cup (IF cancelled /\ fate[w] \in {"succeeded", "reused"}
                    THEN {"failed"} ELSE {})

\* The result is stored and fail-fast applied under resultMu.
Finish(w) ==
    /\ at[w] = "run"
    /\ \E s \in Outcome(w) :
          /\ result' = [result EXCEPT ![task[w]] = s]
          /\ IF FailFast /\ s \in Bad THEN Cancel("failfast")
             ELSE UNCHANGED <<context, unstarted>>
    /\ Goto(w, "idle")
    /\ UNCHANGED <<next, sender, task, fate>>

\* The range over the channel ends when it is closed.
Exit(w) ==
    /\ at[w] = "idle" /\ sender # "send"
    /\ Goto(w, "done")
    /\ UNCHANGED <<next, sender, task, fate, result, context, unstarted>>

-----------------------------------------------------------------------------
\* The caller cancels: a signal, or a deadline.
Interrupt ==
    /\ MayInterrupt /\ ~cancelled /\ sender # "returned"
    /\ Cancel("interrupted")
    /\ UNCHANGED <<next, sender, at, task, fate, result>>

Work(w) == Skip(w) \/ Start(w) \/ Finish(w) \/ Exit(w)
Sender == (\E w \in Workers : Send(w)) \/ GiveUp \/ Close \/ Report

RunFinished == sender = "returned" /\ UNCHANGED runVars

RunNext == Sender \/ (\E w \in Workers : Work(w)) \/ Interrupt \/ RunFinished

RunSpec == RunInit /\ [][RunNext]_runVars

\* Go runs every goroutine that can run; each build ends, since its commands,
\* its Codex turns and its sysroot work have deadlines (--timeout, ...).
RunFairSpec == RunSpec /\ WF_runVars(Sender) /\ \A w \in Workers : WF_runVars(Work(w))

-----------------------------------------------------------------------------
\* Properties.

\* A target is given to one worker only, so its result is written once: no
\* cancellation overwrites a real result, and no result a cancellation.
ResultsAreFinal ==
    [][\A i \in Indexes : result[i] # "none" => result'[i] = result[i]]_runVars

\* Two workers never have the same target: they would share its work directory.
OneWorkerPerTarget ==
    \A v, w \in Workers :
        v # w /\ at[v] \in {"check", "run"} /\ at[w] \in {"check", "run"}
        => task[v] # task[w]

\* When all workers are done each target has its status, without the last pass
\* over the results: each was sent or cancelled by the sender, and each that was
\* sent was answered.
AllAccounted ==
    sender # "send" /\ (\A w \in Workers : at[w] = "done")
    => \A i \in Indexes : result[i] # "none"

\* A canceled target has a cause: the caller's interrupt, or with FailFast a
\* target that is reported failed or blocked.
CanceledHasCause ==
    (\E i \in Indexes : result[i] = "canceled")
    => \/ context = "interrupted"
       \/ FailFast /\ \E i \in Indexes : result[i] \in Bad

\* A target that was not started when the context was cancelled is never
\* started, although the sender's select may still hand it to a worker: it ends
\* canceled (docs/architecture.ja.md:378).
UnstartedAreCanceled ==
    \A i \in unstarted :
        /\ result[i] \in {"none", "canceled"}
        /\ \A w \in Workers : ~(at[w] = "run" /\ task[w] = i)

\* Run returns, whatever is cancelled when.
Returns == <>(sender = "returned")

=============================================================================
