-------------------------- MODULE AppServerSession --------------------------
(***************************************************************************)
(* The Codex turns of one build: the app-server session of                 *)
(* internal/codex/appserver.go (JSON-RPC over one WebSocket to a child     *)
(* process), the codex exec transport of codex.go that replaces it when    *)
(* the session cannot be started, and the loop of builder.go that asks for *)
(* the turns, one at a time, and stops at the first that fails.            *)
(*                                                                         *)
(* The app-server itself is external.  It is modelled from the messages    *)
(* this client reads: it answers requests in order, runs one turn at a     *)
(* time, speaks while it edits, and may fail, fall silent or die anywhere. *)
(***************************************************************************)
EXTENDS Integers, Sequences, FiniteSets

CONSTANTS
    MaxTurns,       \* MaxRepairs: the attempts the loop may make
    Persistent,     \* whether the mode (port, auto) asks for a session
    Budget          \* how often each kind of fault may happen (model bound)

Faults == {"error", "death", "late", "unasked", "io", "orphan"}

ASSUME TurnsAssumption == MaxTurns \in Nat /\ Persistent \in BOOLEAN
ASSUME BudgetAssumption == Budget \in [Faults -> Nat]

VARIABLES
    call,           \* where the caller is, see Calls
    session,        \* "untried", "up" or "none": codexSession of the loop
    process,        \* the child: "none", "running", "exited" or "reaped"
    orphan,         \* a command of codex exec outlives it and holds its pipes
    nextID,         \* the id of the next request
    turn,           \* what RunTurn has read: turnID, deltas, completedText
    results,        \* what the turns came to, in order
    toServer,       \* frames written and not yet read by the app-server
    toClient,       \* frames written and not yet read by miruri
    server,         \* what the app-server is doing
    editor,         \* the turn on whose behalf the workspace was edited last
    causes,         \* what went wrong around the current turn
    budget          \* faults left of each kind

vars == <<call, session, process, orphan, nextID, turn, results, toServer,
          toClient, server, editor, causes, budget>>

clientVars == <<call, session, results, turn, nextID>>
wires      == <<toServer, toClient>>

Startup == {"listen", "dial", "initialize", "thread"}
Calls   == Startup \cup {"free", "turn", "settle", "exec", "done"}

-----------------------------------------------------------------------------
(* Texts and messages.  A text is the sequence of the parts it holds.      *)

Parts   == [turn : 1..MaxTurns, part : {"commentary", "final"}]
Answer(n) == <<[turn |-> n, part |-> "final"]>>
Refusal   == <<>>

\* The frames this client tells apart: responses carry an id and no method,
\* notifications a method and no id (0), requests of the server both.
Message(id, method, n, text, ok) ==
    [id |-> id, method |-> method, turn |-> n, text |-> text, ok |-> ok]
Response(id, n, ok)         == Message(id, "none", n, <<>>, ok)
Notification(method, n, text, ok) == Message(0, method, n, text, ok)

\* What miruri may send; an app-server may also name a turn of its own.
Methods  == {"none", "initialize", "initialized", "thread/start", "turn/start", "delta",
             "item", "completed", "approval", "notice"}
Frames(ns) == [id : Nat, method : Methods, turn : ns, text : Seq(Parts), ok : BOOLEAN]
Requests == Frames(0..MaxTurns)
Messages == Frames(0..MaxTurns + 1)

\* The frame to be read next, if there is one.
First(frames) == {frames[i] : i \in {1} \cap DOMAIN frames}

\* The id of the request the client waits for: ids are handed out in order.
Awaited == nextID - 1

Quiet    == [turn |-> 0, text |-> <<>>, deltas |-> <<>>]
Idle     == [phase |-> "idle", turn |-> 0, owed |-> 0, said |-> {}]
Servers  == [phase : {"idle", "starting", "serving", "waiting"}, turn : 0..MaxTurns,
             owed : Nat, said : SUBSET {"commentary", "final"}]
asked    == Len(results) + 1

-----------------------------------------------------------------------------

Init ==
    /\ call = "free"
    /\ session = IF Persistent THEN "untried" ELSE "none"
    /\ process = "none"
    /\ orphan = FALSE
    /\ nextID = 1
    /\ turn = Quiet
    /\ results = <<>>
    /\ toServer = <<>> /\ toClient = <<>>
    /\ server = Idle
    /\ editor = 0
    /\ causes = {}
    /\ budget = Budget

May(kind) == budget[kind] > 0

\* A fault of this kind happens, and is remembered with the current turn.
Happens(kind) ==
    /\ May(kind)
    /\ budget' = [budget EXCEPT ![kind] = @ - 1]
    /\ causes' = causes \cup {kind}

Healthy == UNCHANGED <<causes, budget>>

failed == results # <<>> /\ results[Len(results)] = Refusal

-----------------------------------------------------------------------------
(* The start of a session.                                                 *)

\* The first attempt of a persistent mode spawns the app-server.
StartSession ==
    /\ call = "free" /\ session = "untried" /\ MaxTurns > 0
    /\ call' = "listen"
    /\ process' = "running"
    /\ server' = [Idle EXCEPT !.phase = "starting"]
    /\ Healthy
    /\ UNCHANGED <<session, orphan, nextID, turn, results, wires, editor>>

\* The binary is missing or the process cannot be created.
StartFails ==
    /\ call = "free" /\ session = "untried" /\ MaxTurns > 0
    /\ session' = "none"
    /\ Happens("io")
    /\ UNCHANGED <<call, process, orphan, nextID, turn, results, wires, server,
                   editor>>

\* The scanner of stderr has seen the URL of the listener.
ReadListener ==
    /\ call = "listen" /\ server.phase # "starting"
    /\ call' = "dial"
    /\ Healthy
    /\ UNCHANGED <<session, process, orphan, nextID, turn, results, wires,
                   server, editor>>

\* A request takes the next id and is written as one frame.
Send(method, n) ==
    /\ toServer' = Append(toServer, Message(nextID, method, n, <<>>, TRUE))
    /\ nextID' = nextID + 1

\* The upgrade succeeds, and initialize asks first.
Dial ==
    /\ call = "dial" /\ process = "running"
    /\ call' = "initialize"
    /\ Send("initialize", 0)
    /\ Healthy
    /\ UNCHANGED <<session, process, orphan, turn, results, toClient, server,
                   editor>>

\* request() skips every frame but the response with its id.
Skip ==
    /\ call \in {"initialize", "thread"}
    /\ \E m \in First(toClient) : m.id # Awaited
    /\ toClient' = Tail(toClient)
    /\ Healthy
    /\ UNCHANGED <<clientVars, process, orphan, toServer, server, editor>>

Accepted(at) ==
    /\ call = at
    /\ \E m \in First(toClient) : m.id = Awaited /\ m.ok
    /\ toClient' = Tail(toClient)

\* The response to initialize: the client is ready and asks for a thread.
Initialized ==
    /\ Accepted("initialize")
    /\ call' = "thread"
    /\ toServer' = toServer \o <<Notification("initialized", 0, <<>>, TRUE),
                                 Message(nextID, "thread/start", 0, <<>>, TRUE)>>
    /\ nextID' = nextID + 1
    /\ Healthy
    /\ UNCHANGED <<session, process, orphan, turn, results, server, editor>>

\* The response to thread/start: the session stands.
ThreadStarted ==
    /\ Accepted("thread")
    /\ call' = "free" /\ session' = "up"
    /\ Healthy
    /\ UNCHANGED <<process, orphan, nextID, turn, results, toServer, server,
                   editor>>

\* Close: the socket is closed, the process killed and waited for.
Closed ==
    /\ process' = IF process = "none" THEN "none" ELSE "reaped"
    /\ toServer' = <<>> /\ toClient' = <<>>
    /\ server' = Idle

\* Mutant: a failed start forgets to close the session.
StartupLeaves ==
    /\ call \in Startup
    /\ call' = "free" /\ session' = "none"
    /\ causes' = {}
    /\ UNCHANGED <<process, orphan, nextID, turn, results, wires, server, editor,
                   budget>>

\* The deadline of the start passes, the process or the connection ends, or a
\* response is an error: the session is closed and the loop goes on without.
StartupFails ==
    /\ call \in Startup
    /\ Closed
    /\ call' = "free" /\ session' = "none"
    /\ causes' = {}
    /\ UNCHANGED <<orphan, nextID, turn, results, editor, budget>>

-----------------------------------------------------------------------------
(* A turn of the session.                                                  *)

\* Mutant: the loop goes on after a turn that failed.
AsksAgain == call = "free" /\ session # "untried" /\ Len(results) < MaxTurns

Asks == call = "free" /\ session # "untried" /\ ~failed /\ Len(results) < MaxTurns

\* The loop asks for the next turn: turn/start is written in one frame.
Ask ==
    /\ Asks /\ session = "up"
    /\ call' = "turn"
    /\ turn' = Quiet
    /\ Send("turn/start", asked)
    /\ Healthy
    /\ UNCHANGED <<session, process, orphan, results, toClient, server, editor>>

\* The turn comes to this result, and the loop goes on or stops.
Finish(result) ==
    /\ results' = Append(results, result)
    /\ call' = "free"

\* Mutant: reads have no deadline.
TurnWaits ==
    /\ call = "turn" /\ process # "running"
    /\ UNCHANGED causes
    /\ Finish(Refusal)
    /\ UNCHANGED <<session, process, orphan, nextID, turn, wires, server,
                   editor, budget>>

\* The deadline of the turn, the end of the connection, a failed write: the
\* app-server is not told, and works on until the session is closed.
TurnBreaks ==
    /\ call = "turn"
    /\ \/ causes' = causes \cup {"deadline"}
       \/ process # "running" /\ UNCHANGED causes
    /\ Finish(Refusal)
    /\ UNCHANGED <<session, process, orphan, nextID, turn, wires, server,
                   editor, budget>>

\* RunTurn takes the next frame.
Takes(message) ==
    /\ call = "turn"
    /\ message \in First(toClient)
    /\ toClient' = Tail(toClient)
    /\ Healthy
    /\ UNCHANGED <<session, process, orphan, nextID, toServer, server, editor>>

\* The response to turn/start names the turn; a request of the app-server
\* with the same id is taken for it, and names none.
ReadResponse == \E m \in First(toClient) :
    /\ Takes(m) /\ m.id = Awaited /\ m.ok
    /\ turn' = [turn EXCEPT !.turn = m.turn]
    /\ UNCHANGED <<call, results>>

\* An error response, or a response that belongs to no open request.
ReadRefusal == \E m \in First(toClient) :
    /\ Takes(m)
    /\ \/ m.id = Awaited /\ ~m.ok
       \/ m.id \notin {0, Awaited} /\ m.method = "none"
    /\ Finish(Refusal)
    /\ UNCHANGED turn

\* Everything else with a method is a notification.
ReadText == \E m \in First(toClient) :
    /\ Takes(m) /\ m.id # Awaited
    /\ \/ m.method = "delta" /\ turn' = [turn EXCEPT !.deltas = @ \o m.text]
       \/ m.method = "item" /\ turn' = [turn EXCEPT !.text = m.text]
       \/ m.method \in {"approval", "notice"} /\ UNCHANGED turn
    /\ UNCHANGED <<call, results>>

\* The completion of another turn than the one the response has named.
Foreign(m) == turn.turn # 0 /\ m.turn # turn.turn

ReadForeign == \E m \in First(toClient) :
    /\ Takes(m) /\ m.method = "completed" /\ Foreign(m)
    /\ UNCHANGED <<call, results, turn>>

\* Mutant: the completion of any turn is taken for this one's.
AnyCompleted == \E m \in First(toClient) :
    /\ Takes(m) /\ m.method = "completed"
    /\ LET text == IF turn.text # <<>> THEN turn.text ELSE turn.deltas
       IN  /\ turn' = [turn EXCEPT !.text = text]
           /\ \/ /\ m.ok /\ text # <<>>
                 /\ call' = "settle" /\ UNCHANGED results
              \/ /\ ~m.ok \/ text = <<>>
                 /\ Finish(Refusal)

\* The last message wins over the deltas; a turn that failed, or said nothing,
\* is an error.
ReadCompleted == \E m \in First(toClient) :
    /\ Takes(m) /\ m.method = "completed" /\ ~Foreign(m)
    /\ LET text == IF turn.text # <<>> THEN turn.text ELSE turn.deltas
       IN  /\ turn' = [turn EXCEPT !.text = text]
           /\ \/ /\ m.ok /\ text # <<>>
                 /\ call' = "settle" /\ UNCHANGED results
              \/ /\ ~m.ok \/ text = <<>>
                 /\ Finish(Refusal)

\* repairViaAppServer writes the log and the response and decodes it.
WellFormed(text) == Len(text) = 1 /\ text[1].part = "final"

Settle ==
    /\ call = "settle"
    /\ Finish(IF WellFormed(turn.text) THEN turn.text ELSE Refusal)
    /\ Healthy
    /\ UNCHANGED <<session, process, orphan, nextID, turn, wires, server, editor>>

SettleFails ==
    /\ call = "settle"
    /\ Finish(Refusal)
    /\ Happens("io")
    /\ UNCHANGED <<session, process, orphan, nextID, turn, wires, server, editor>>

-----------------------------------------------------------------------------
(* A turn of codex exec, when there is no session.                         *)

StartExec ==
    /\ Asks /\ session = "none"
    /\ call' = "exec"
    /\ process' = "running"
    /\ Healthy
    /\ UNCHANGED <<session, orphan, nextID, turn, results, wires, server, editor>>

\* The process ends by itself, or is killed at the deadline or because the
\* event log cannot be written; a command it started may keep its pipes open.
ExecEnds ==
    /\ call = "exec" /\ process = "running"
    /\ process' = "exited"
    /\ \/ UNCHANGED <<orphan, budget>> /\ causes' \in {causes, causes \cup {"deadline"}}
       \/ \E kind \in {"death", "io"} : Happens(kind) /\ UNCHANGED orphan
       \/ Happens("orphan") /\ orphan' = TRUE
    /\ UNCHANGED <<clientVars, wires, server, editor>>

OrphanEnds ==
    /\ orphan /\ orphan' = FALSE
    /\ UNCHANGED <<clientVars, process, wires, server, editor, causes, budget>>

\* Both pipes are at their end, so the process is waited for; its response
\* counts only if it ended by itself.
ExecReturns ==
    /\ call = "exec" /\ process = "exited" /\ ~orphan
    /\ process' = "reaped"
    /\ Finish(IF causes \subseteq {"orphan"} THEN Answer(asked) ELSE Refusal)
    /\ UNCHANGED <<session, orphan, nextID, turn, wires, server, editor, causes,
                   budget>>

\* The build is over, or gives up after a failed turn: the deferred Close.
Close ==
    /\ call = "free"
    /\ call' = "done"
    /\ Closed
    /\ Healthy
    /\ UNCHANGED <<session, orphan, nextID, turn, results, editor>>

-----------------------------------------------------------------------------
(* The app-server.                                                         *)

Serves == process = "running" /\ server.phase # "idle"

Says(messages) == toClient' = toClient \o messages

Announce ==
    /\ Serves /\ server.phase = "starting"
    /\ server' = [server EXCEPT !.phase = "serving"]
    /\ Healthy
    /\ UNCHANGED <<clientVars, process, orphan, wires, editor>>

\* It reads requests in order, one turn at a time.
Accept == \E m \in First(toServer) :
    /\ Serves /\ server.turn = 0 /\ server.owed = 0
    /\ toServer' = Tail(toServer)
    /\ server' = [server EXCEPT !.turn = m.turn, !.owed = m.id, !.said = {}]
    /\ Healthy
    /\ UNCHANGED <<clientVars, process, orphan, toClient, editor>>

\* The response: a result, or an error that starts no turn.
Respond ==
    /\ Serves /\ server.owed # 0
    /\ \/ /\ Says(<<Response(server.owed, server.turn, TRUE)>>)
          /\ server' = [server EXCEPT !.owed = 0]
          /\ Healthy
       \/ /\ Says(<<Response(server.owed, 0, FALSE)>>)
          /\ server' = [Idle EXCEPT !.phase = "serving"]
          /\ Happens("error")
    /\ UNCHANGED <<clientVars, process, orphan, toServer, editor>>

Working == Serves /\ server.phase = "serving" /\ server.turn # 0

\* A message of the turn: its delta, and the item unless only deltas are sent.
Speak == \E part \in {"commentary", "final"} \ server.said :
    LET text == <<[turn |-> server.turn, part |-> part]>>
    IN  /\ Working /\ "final" \notin server.said
        /\ \E whole \in BOOLEAN :
             /\ whole \/ (part = "final" /\ server.said = {})
             /\ Says(<<Notification("delta", server.turn, text, TRUE)>> \o
                     IF whole THEN <<Notification("item", server.turn, text, TRUE)>>
                              ELSE <<>>)
        /\ server' = [server EXCEPT !.said = @ \cup {part}]
        /\ Healthy
        /\ UNCHANGED <<clientVars, process, orphan, toServer, editor>>

\* The end of the turn: after its last message, as a failure, or in silence.
\* The response to turn/start may be late, even later than the completion.
Complete ==
    /\ Working
    /\ \/ server.owed = 0 /\ "final" \in server.said /\ Healthy
          /\ Says(<<Notification("completed", server.turn, <<>>, TRUE)>>)
       \/ server.owed # 0 /\ "final" \in server.said /\ Happens("late")
          /\ Says(<<Notification("completed", server.turn, <<>>, TRUE)>>)
       \/ server.owed = 0 /\ Happens("error")
          /\ \E ok \in {FALSE, "final" \in server.said} :
               Says(<<Notification("completed", server.turn, <<>>, ok)>>)
    /\ server' = [server EXCEPT !.turn = 0, !.said = {}]
    /\ UNCHANGED <<clientVars, process, orphan, toServer, editor>>

\* It sends what nobody here asked for.
Unasked(messages) ==
    /\ Serves /\ May("unasked")
    /\ Says(messages)
    /\ budget' = [budget EXCEPT !["unasked"] = @ - 1]
    /\ UNCHANGED <<clientVars, process, orphan, toServer, editor, causes>>

\* A request, under an id of its own count: the app-server waits for the
\* answer that this client never gives.
Request ==
    /\ Working
    /\ \E id \in 1..nextID : Unasked(<<Message(id, "approval", 0, <<>>, TRUE)>>)
    /\ server' = [server EXCEPT !.phase = "waiting"]

\* A notice, or the completion of a turn of its own (a compaction).
Aside ==
    /\ server.phase = "serving" /\ UNCHANGED server
    /\ \/ Unasked(<<Notification("notice", 0, <<>>, TRUE)>>)
       \/ /\ server.turn # 0 /\ server.owed = 0
          /\ Unasked(<<Notification("completed", MaxTurns + 1, <<>>, TRUE)>>)

\* Codex edits the workspace, from the app-server or from codex exec.
Edit ==
    /\ \/ Working /\ editor' = server.turn
       \/ call = "exec" /\ (process = "running" \/ orphan) /\ editor' = asked
    /\ Healthy
    /\ UNCHANGED <<clientVars, process, orphan, wires, server>>

Die ==
    /\ Serves
    /\ process' = "exited"
    /\ Happens("death")
    /\ UNCHANGED <<clientVars, orphan, wires, server, editor>>

-----------------------------------------------------------------------------

Caller == \/ StartSession \/ StartFails \/ ReadListener \/ Dial \/ Skip \/ Initialized
          \/ ThreadStarted \/ StartupFails \/ Ask \/ TurnBreaks \/ ReadResponse
          \/ ReadRefusal \/ ReadText \/ ReadForeign \/ ReadCompleted
          \/ Settle \/ SettleFails \/ StartExec \/ ExecReturns \/ Close

Next ==
    \/ Caller \/ ExecEnds \/ OrphanEnds
    \/ Announce \/ Accept \/ Respond \/ Speak \/ Complete \/ Request
    \/ Aside \/ Edit \/ Die
    \/ call = "done" /\ UNCHANGED vars

Spec == Init /\ [][Next]_vars

\* The caller runs, and deadlines pass: the reads of a session end at their
\* deadline, codex exec is killed at its own.  Nothing is assumed of Codex.
FairSpec == Spec /\ WF_vars(Caller) /\ WF_vars(ExecEnds)

-----------------------------------------------------------------------------
(* Properties.                                                             *)

\* Every variable keeps its type, and no turn is open beyond the last attempt.
TypeOK ==
    /\ call \in Calls
    /\ session \in {"untried", "up", "none"}
    /\ process \in {"none", "running", "exited", "reaped"}
    /\ orphan \in BOOLEAN
    /\ nextID \in Nat \ {0}
    /\ turn \in [turn : 0..MaxTurns + 1, text : Seq(Parts), deltas : Seq(Parts)]
    /\ results \in Seq(Seq(Parts)) /\ Len(results) <= MaxTurns
    /\ call \in {"turn", "settle", "exec"} => Len(results) < MaxTurns
    /\ toServer \in Seq(Requests) /\ toClient \in Seq(Messages)
    /\ server \in Servers
    /\ editor \in 0..MaxTurns
    /\ causes \subseteq Faults \cup {"deadline"}
    /\ budget \in [Faults -> Nat]

\* Whatever fails, no Codex process outlives its use: between turns only the
\* one of a session that stands may run, and none after the build
\* (StartAppServerSession's Close on every error path, Repair's Wait).
NothingRuns ==
    call \in {"free", "done"} =>
        process \in {"none", "reaped"} \/ (session = "up" /\ call = "free")

\* A turn fails only for a cause of its own time: no frame left over from an
\* earlier turn, and no order of texts and response, makes a good turn fail,
\* unless the response to turn/start came after the completion.
NoSpuriousFailure == failed => causes # {}

\* The session implements one turn at a time: a turn is answered by the text
\* written for it, and the workspace is edited only on behalf of the turn that
\* is open or was given up, never after the close.
Turns == INSTANCE CodexTurns WITH
    Limit <- MaxTurns,
    state <- IF call \in {"turn", "settle", "exec"} THEN "asked"
             ELSE IF call = "done" THEN "closed"
             ELSE IF failed THEN "failed" ELSE "free"

ImplementsTurns == Turns!Spec

\* Every start and every turn comes back, though Codex may fall silent; only
\* a command that outlives codex exec and holds its pipes can keep Repair.
Returns == call \notin {"free", "done"} ~> call \in {"free", "done"} \/ orphan

=============================================================================
