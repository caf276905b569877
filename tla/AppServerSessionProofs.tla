----------------------- MODULE AppServerSessionProofs -----------------------
(***************************************************************************)
(* Theorems about AppServerSession for any number of turns and faults, and *)
(* an app-server that may send whatever the model lets it.  Three          *)
(* invariants build on each other: Processes ties the process to the       *)
(* caller and the session, Fitting says which frames may be under way at   *)
(* each stage of a session and of a turn, and Blameless what more holds    *)
(* of them while nothing has gone wrong.                                   *)
(***************************************************************************)
EXTENDS AppServerSession, SequenceTheorems, TLAPS

-----------------------------------------------------------------------------
(* The processes.                                                          *)

Processes ==
    /\ NothingRuns
    /\ call \in {"turn", "settle"} => session = "up"

LEMMA InitProcesses == Init => Processes
BY DEF Init, Processes, NothingRuns

\* The start of a session, and its failures.
LEMMA StartProcesses ==
    ASSUME Processes,
           \/ StartSession \/ StartFails \/ ReadListener \/ Dial \/ Skip
           \/ Initialized \/ ThreadStarted \/ StartupFails
    PROVE  Processes'
<1> USE DEF Processes, NothingRuns
<1>1. CASE StartSession
  BY <1>1 DEF StartSession
<1>2. CASE StartFails
  BY <1>2 DEF StartFails
<1>3. CASE ReadListener
  BY <1>3 DEF ReadListener
<1>4. CASE Dial
  BY <1>4 DEF Dial
<1>5. CASE Skip
  BY <1>5 DEF Skip, clientVars
<1>6. CASE Initialized
  BY <1>6 DEF Initialized
<1>7. CASE ThreadStarted
  BY <1>7 DEF ThreadStarted
<1>8. CASE StartupFails
  BY <1>8 DEF StartupFails, Closed
<1> QED BY <1>1, <1>2, <1>3, <1>4, <1>5, <1>6, <1>7, <1>8

LEMMA TurnProcesses ==
    ASSUME Processes,
           \/ Ask \/ TurnBreaks \/ ReadResponse \/ ReadRefusal \/ ReadText \/ ReadForeign
           \/ ReadCompleted \/ Settle \/ SettleFails
    PROVE  Processes'
<1>1. UNCHANGED <<session, process>>
  BY DEF Ask, TurnBreaks, ReadResponse, ReadRefusal, ReadText, ReadForeign, ReadCompleted,
         Takes, Settle, SettleFails
<1>2. session = "up"
  BY DEF Processes, Ask, TurnBreaks, ReadResponse, ReadRefusal, ReadText, ReadForeign,
         ReadCompleted, Takes, Settle, SettleFails
<1>3. call' # "done"
  BY DEF Ask, TurnBreaks, ReadResponse, ReadRefusal, ReadText, ReadForeign, ReadCompleted,
         Takes, Settle, SettleFails, Finish
<1> QED BY <1>1, <1>2, <1>3 DEF Processes, NothingRuns

LEMMA ExecProcesses ==
    ASSUME Processes, StartExec \/ ExecEnds \/ OrphanEnds \/ ExecReturns \/ Close
    PROVE  Processes'
<1> USE DEF Processes, NothingRuns
<1>1. CASE StartExec
  BY <1>1 DEF StartExec
<1>2. CASE ExecEnds
  BY <1>2 DEF ExecEnds, clientVars
<1>3. CASE OrphanEnds
  BY <1>3 DEF OrphanEnds, clientVars
<1>4. CASE ExecReturns
  BY <1>4 DEF ExecReturns, Finish
<1>5. CASE Close
  BY <1>5 DEF Close, Closed
<1> QED BY <1>1, <1>2, <1>3, <1>4, <1>5

LEMMA ServerProcesses ==
    ASSUME Processes,
           \/ Announce \/ Accept \/ Respond \/ Speak \/ Complete \/ Request \/ Aside
           \/ Edit \/ Die
    PROVE  Processes'
<1> USE DEF Processes, NothingRuns, clientVars
<1>1. CASE Die
  BY <1>1 DEF Die, Serves
<1>2. CASE Announce \/ Accept \/ Respond \/ Speak \/ Complete \/ Edit
  BY <1>2 DEF Announce, Accept, Respond, Speak, Complete, Edit
<1>3. CASE Request \/ Aside
  BY <1>3 DEF Request, Aside, Unasked
<1> QED BY <1>1, <1>2, <1>3

LEMMA NextProcesses == Processes /\ [Next]_vars => Processes'
<1> SUFFICES ASSUME Processes, [Next]_vars PROVE Processes'
  OBVIOUS
<1>1. CASE UNCHANGED vars
  BY <1>1 DEF Processes, NothingRuns, vars
<1>2. CASE Caller \/ ExecEnds \/ OrphanEnds
  BY <1>2, StartProcesses, TurnProcesses, ExecProcesses DEF Caller
<1> QED BY <1>1, <1>2, ServerProcesses DEF Next

\* Between two turns only the process of a session that stands may run, and none
\* after the build, whatever dies, falls silent or cannot be written (the Close on
\* every error path of StartAppServerSession, the Wait of Repair).
THEOREM NoProcessStays == Spec => []NothingRuns
<1>1. Processes => NothingRuns
  BY DEF Processes
<1> QED BY <1>1, InitProcesses, NextProcesses, PTL DEF Spec

-----------------------------------------------------------------------------
(* The types.                                                              *)

LEMMA IdleTyped ==
    Idle \in Servers /\ \A phase \in {"starting", "serving"} :
                            [Idle EXCEPT !.phase = phase] \in Servers
<1>1. Idle = [phase |-> "idle", turn |-> 0, owed |-> 0, said |-> {}] /\ 0 \in 0..MaxTurns
  BY TurnsAssumption DEF Idle
<1> QED BY <1>1 DEF Servers

LEMMA AppendTyped ==
    ASSUME NEW S, NEW s \in Seq(S), NEW e \in S
    PROVE  Append(s, e) \in Seq(S)
OBVIOUS

LEMMA ConcatTyped ==
    ASSUME NEW S, NEW s \in Seq(S), NEW t \in Seq(S)
    PROVE  s \o t \in Seq(S)
OBVIOUS

LEMMA OneTyped ==
    ASSUME NEW S, NEW e \in S
    PROVE  <<e>> \in Seq(S)
OBVIOUS

LEMMA PairTyped ==
    ASSUME NEW S, NEW a \in S, NEW b \in S
    PROVE  <<a, b>> \in Seq(S)
OBVIOUS

LEMMA InitTyped == Init => TypeOK
<1> SUFFICES ASSUME Init PROVE TypeOK
  OBVIOUS
<1>1. turn \in [turn : 0..MaxTurns + 1, text : Seq(Parts), deltas : Seq(Parts)]
  BY TurnsAssumption DEF Init, Quiet
<1>2. server \in Servers
  BY IdleTyped DEF Init
<1>3. editor \in 0..MaxTurns /\ nextID \in Nat \ {0} /\ Len(results) <= MaxTurns
  BY TurnsAssumption DEF Init
<1>4. budget \in [Faults -> Nat] /\ causes = {} /\ results \in Seq(Seq(Parts))
      /\ toServer \in Seq(Requests) /\ toClient \in Seq(Messages)
  BY BudgetAssumption DEF Init
<1>5. /\ call = "free" /\ session \in {"untried", "up", "none"} /\ process = "none"
      /\ orphan = FALSE
  BY DEF Init
<1> QED BY <1>1, <1>2, <1>3, <1>4, <1>5 DEF TypeOK, Calls

\* The next frame is a message, and what follows it are messages.
LEMMA FirstTyped ==
    ASSUME NEW S, NEW frames \in Seq(S), NEW m \in First(frames)
    PROVE  m \in S /\ Tail(frames) \in Seq(S)
<1>1. 1 \in DOMAIN frames /\ m = frames[1]
  BY DEF First
<1>2. frames # <<>>
  BY <1>1
<1> QED BY <1>1, <1>2

\* Faults and causes.
LEMMA HappensTyped ==
    ASSUME TypeOK, NEW kind \in Faults, Happens(kind)
    PROVE  causes' \subseteq Faults \cup {"deadline"} /\ budget' \in [Faults -> Nat]
<1>1. budget[kind] \in Nat /\ budget[kind] > 0
  BY DEF TypeOK, Happens, May
<1>2. budget[kind] - 1 \in Nat
  BY <1>1
<1> QED BY <1>2 DEF TypeOK, Happens

\* A turn that is open may come to a result.
LEMMA FinishTyped ==
    ASSUME TypeOK, call \in {"turn", "settle", "exec"}, NEW result \in Seq(Parts),
           Finish(result)
    PROVE  /\ results' \in Seq(Seq(Parts)) /\ Len(results') <= MaxTurns
           /\ call' = "free"
<1>1. results' = Append(results, result) /\ results \in Seq(Seq(Parts)) /\ Len(results) < MaxTurns
  BY DEF TypeOK, Finish
<1>2. Len(results') = Len(results) + 1 /\ Len(results) \in Nat
  BY <1>1
<1> QED BY <1>1, <1>2, TurnsAssumption DEF Finish

LEMMA RefusalTyped == Refusal \in Seq(Parts)
BY DEF Refusal

\* The requests miruri makes.
LEMMA SendTyped ==
    ASSUME TypeOK, NEW method \in Methods, NEW n \in 0..MaxTurns, Send(method, n)
    PROVE  toServer' \in Seq(Requests) /\ nextID' \in Nat \ {0}
<1>0. nextID \in Nat /\ nextID + 1 \in Nat \ {0} /\ toServer \in Seq(Requests)
  BY DEF TypeOK
<1>1. Message(nextID, method, n, <<>>, TRUE) \in Requests
  BY <1>0 DEF Message, Requests, Frames
<1>2. Append(toServer, Message(nextID, method, n, <<>>, TRUE)) \in Seq(Requests)
  BY <1>0, <1>1, AppendTyped
<1> QED BY <1>0, <1>2 DEF Send

LEMMA StartTyped ==
    ASSUME TypeOK,
           \/ StartSession \/ StartFails \/ ReadListener \/ Dial \/ Skip
           \/ Initialized \/ ThreadStarted \/ StartupFails
    PROVE  TypeOK'
<1> USE DEF TypeOK, Healthy, wires, clientVars
<1>1. CASE StartSession
  BY <1>1, IdleTyped DEF StartSession, Calls, Startup
<1>2. CASE StartFails
  BY <1>2, HappensTyped DEF StartFails, Faults
<1>3. CASE ReadListener
  BY <1>3 DEF ReadListener, Calls, Startup
<1>4. CASE Dial
  <2>1. Send("initialize", 0)
    BY <1>4 DEF Dial
  <2>2. toServer' \in Seq(Requests) /\ nextID' \in Nat \ {0}
    <3>1. "initialize" \in Methods /\ 0 \in 0..MaxTurns
      BY TurnsAssumption DEF Methods
    <3> QED BY <2>1, <3>1, SendTyped
  <2> QED BY <1>4, <2>2 DEF Dial, Calls, Startup
<1>5. CASE Skip
  BY <1>5, FirstTyped DEF Skip
<1>6. CASE Initialized
  <2>1. toClient' \in Seq(Messages)
    BY <1>6, FirstTyped DEF Initialized, Accepted
  <2>2. /\ Notification("initialized", 0, <<>>, TRUE) \in Requests
        /\ Message(nextID, "thread/start", 0, <<>>, TRUE) \in Requests
    BY TurnsAssumption DEF Notification, Message, Requests, Frames, Methods
  <2>3. toServer' \in Seq(Requests)
    <3>1. <<Notification("initialized", 0, <<>>, TRUE),
            Message(nextID, "thread/start", 0, <<>>, TRUE)>> \in Seq(Requests)
      BY <2>2, PairTyped
    <3> QED BY <1>6, <3>1, ConcatTyped DEF Initialized
  <2>4. nextID' \in Nat \ {0} /\ call' = "thread"
    BY <1>6 DEF Initialized
  <2> QED BY <1>6, <2>1, <2>3, <2>4 DEF Initialized, Calls, Startup
<1>7. CASE ThreadStarted
  <2>1. toClient' \in Seq(Messages)
    BY <1>7, FirstTyped DEF ThreadStarted, Accepted
  <2> QED BY <1>7, <2>1 DEF ThreadStarted, Accepted, Calls
<1>8. CASE StartupFails
  BY <1>8, IdleTyped DEF StartupFails, Closed, Calls
<1> QED BY <1>1, <1>2, <1>3, <1>4, <1>5, <1>6, <1>7, <1>8

\* What a read leaves of the frames.
LEMMA TakesTyped ==
    ASSUME TypeOK, NEW m, Takes(m)
    PROVE  /\ m \in Messages /\ toClient' \in Seq(Messages)
           /\ call = "turn" /\ m \in First(toClient)
           /\ UNCHANGED <<session, process, orphan, nextID, toServer, server, editor, causes,
                          budget>>
BY FirstTyped DEF TypeOK, Takes, Healthy

LEMMA TurnTyped ==
    ASSUME TypeOK,
           \/ Ask \/ TurnBreaks \/ ReadResponse \/ ReadRefusal \/ ReadText \/ ReadForeign
           \/ ReadCompleted \/ Settle \/ SettleFails
    PROVE  TypeOK'
<1> DEFINE Collected == [turn : 0..MaxTurns + 1, text : Seq(Parts), deltas : Seq(Parts)]
<1>0. turn \in Collected /\ Refusal \in Seq(Parts)
  BY DEF TypeOK, Refusal
<1>1. CASE Ask
  <2>1. Len(results) < MaxTurns /\ asked \in 0..MaxTurns
    BY <1>1, TurnsAssumption DEF Ask, Asks, asked, TypeOK
  <2>2. Send("turn/start", asked) /\ "turn/start" \in Methods
    BY <1>1 DEF Ask, Methods
  <2>3. toServer' \in Seq(Requests) /\ nextID' \in Nat \ {0}
    BY <2>1, <2>2, SendTyped
  <2>4. turn' \in Collected
    BY <1>1, TurnsAssumption DEF Ask, Quiet
  <2> QED BY <1>1, <2>1, <2>3, <2>4 DEF Ask, TypeOK, Healthy, Calls
<1>2. CASE TurnBreaks
  <2>1. call = "turn" /\ Finish(Refusal)
    BY <1>2 DEF TurnBreaks
  <2>2. /\ results' \in Seq(Seq(Parts)) /\ Len(results') <= MaxTurns
        /\ call' = "free"
    BY <1>0, <2>1, FinishTyped
  <2> QED BY <1>2, <2>2 DEF TurnBreaks, TypeOK, Calls, wires
<1>3. CASE ReadResponse
  <2>1. PICK m : Takes(m) /\ turn' = [turn EXCEPT !.turn = m.turn] /\ UNCHANGED <<call, results>>
    BY <1>3 DEF ReadResponse
  <2>2. m \in Messages
    BY <2>1, TakesTyped
  <2>3. turn' \in Collected
    BY <1>0, <2>1, <2>2 DEF Messages, Frames
  <2> QED BY <2>1, <2>3, TakesTyped DEF TypeOK
<1>4. CASE ReadRefusal
  <2>1. PICK m : Takes(m) /\ Finish(Refusal) /\ UNCHANGED turn
    BY <1>4 DEF ReadRefusal
  <2>2. /\ results' \in Seq(Seq(Parts)) /\ Len(results') <= MaxTurns
        /\ call' = "free"
    BY <1>0, <2>1, TakesTyped, FinishTyped
  <2> QED BY <2>1, <2>2, TakesTyped DEF TypeOK, Calls
<1>5. CASE ReadText
  <2>1. PICK m : /\ Takes(m) /\ UNCHANGED <<call, results>>
                 /\ turn' \in {turn, [turn EXCEPT !.deltas = @ \o m.text],
                              [turn EXCEPT !.text = m.text]}
    BY <1>5 DEF ReadText
  <2>2. m \in Messages
    BY <2>1, TakesTyped
  <2>3. m.text \in Seq(Parts) /\ turn.deltas \o m.text \in Seq(Parts)
    BY <1>0, <2>2, ConcatTyped DEF Messages, Frames
  <2>4. turn' \in Collected
    BY <1>0, <2>1, <2>3
  <2> QED BY <2>1, <2>4, TakesTyped DEF TypeOK
<1>6. CASE ReadForeign
  <2>1. PICK m : Takes(m) /\ UNCHANGED <<call, results, turn>>
    BY <1>6 DEF ReadForeign
  <2> QED BY <2>1, TakesTyped DEF TypeOK
<1>7. CASE ReadCompleted
  <2>1. PICK m : /\ Takes(m)
                 /\ \E text \in {turn.text, turn.deltas} : turn' = [turn EXCEPT !.text = text]
                 /\ \/ call' = "settle" /\ UNCHANGED results
                    \/ Finish(Refusal)
    BY <1>7 DEF ReadCompleted
  <2>2. turn' \in Collected
    BY <1>0, <2>1
  <2>3. CASE call' = "settle" /\ UNCHANGED results
    BY <2>1, <2>2, <2>3, TakesTyped DEF TypeOK, Calls
  <2>4. CASE Finish(Refusal)
    <3>1. /\ results' \in Seq(Seq(Parts)) /\ Len(results') <= MaxTurns
          /\ call' = "free"
      BY <1>0, <2>1, <2>4, TakesTyped, FinishTyped
    <3> QED BY <2>1, <2>2, <3>1, TakesTyped DEF TypeOK, Calls
  <2> QED BY <2>1, <2>3, <2>4
<1>8. CASE Settle \/ SettleFails
  <2>1. PICK result \in {turn.text, Refusal} : call = "settle" /\ Finish(result)
    BY <1>8 DEF Settle, SettleFails
  <2>2. /\ results' \in Seq(Seq(Parts)) /\ Len(results') <= MaxTurns
        /\ call' = "free"
    BY <1>0, <2>1, FinishTyped
  <2>3. causes' \subseteq Faults \cup {"deadline"} /\ budget' \in [Faults -> Nat]
    BY <1>8, HappensTyped DEF Settle, SettleFails, Healthy, Faults, TypeOK
  <2> QED BY <1>8, <2>2, <2>3 DEF Settle, SettleFails, TypeOK, Calls, wires
<1> QED BY <1>1, <1>2, <1>3, <1>4, <1>5, <1>6, <1>7, <1>8

LEMMA ExecTyped ==
    ASSUME TypeOK, StartExec \/ ExecEnds \/ OrphanEnds \/ ExecReturns \/ Close
    PROVE  TypeOK'
<1>1. CASE StartExec
  BY <1>1 DEF StartExec, Asks, TypeOK, Healthy, Calls, wires
<1>2. CASE ExecEnds
  <2>1. causes' \subseteq Faults \cup {"deadline"} /\ budget' \in [Faults -> Nat]
    <3>1. CASE UNCHANGED <<orphan, budget>> /\ causes' \in {causes, causes \cup {"deadline"}}
      BY <3>1 DEF TypeOK
    <3>2. CASE \E kind \in {"death", "io", "orphan"} : Happens(kind)
      BY <3>2, HappensTyped DEF Faults
    <3> QED BY <1>2, <3>1, <3>2 DEF ExecEnds
  <2>2. orphan' \in BOOLEAN /\ process' = "exited" /\ UNCHANGED <<clientVars, wires, server, editor>>
    BY <1>2 DEF ExecEnds, TypeOK
  <2> QED BY <2>1, <2>2 DEF TypeOK, clientVars, wires
<1>3. CASE OrphanEnds
  BY <1>3 DEF OrphanEnds, TypeOK, clientVars, wires
<1>4. CASE ExecReturns
  <2>1. Len(results) < MaxTurns /\ asked \in 1..MaxTurns
    BY <1>4, TurnsAssumption DEF ExecReturns, TypeOK, asked
  <2>2. Answer(asked) \in Seq(Parts) /\ Refusal \in Seq(Parts)
    BY <2>1 DEF Answer, Refusal, Parts
  <2>3. /\ results' \in Seq(Seq(Parts)) /\ Len(results') <= MaxTurns
        /\ call' = "free"
    BY <1>4, <2>2, FinishTyped DEF ExecReturns
  <2> QED BY <1>4, <2>3 DEF ExecReturns, TypeOK, Calls, wires
<1>5. CASE Close
  BY <1>5, IdleTyped DEF Close, Closed, TypeOK, Healthy, Calls
<1> QED BY <1>1, <1>2, <1>3, <1>4, <1>5

\* What the app-server says.
LEMMA SaysTyped ==
    ASSUME TypeOK, NEW messages \in Seq(Messages), Says(messages)
    PROVE  toClient' \in Seq(Messages)
BY ConcatTyped DEF TypeOK, Says

LEMMA MessageTyped ==
    ASSUME NEW id \in Nat, NEW method \in Methods, NEW n \in 0..MaxTurns + 1,
           NEW text \in Seq(Parts), NEW ok \in BOOLEAN
    PROVE  Message(id, method, n, text, ok) \in Messages
BY DEF Message, Messages, Frames

LEMMA UnaskedTyped ==
    ASSUME TypeOK, NEW messages \in Seq(Messages), Unasked(messages), server' \in Servers
    PROVE  TypeOK'
<1>1. budget' \in [Faults -> Nat]
  <2>1. budget["unasked"] \in Nat /\ budget["unasked"] > 0
    BY DEF TypeOK, Unasked, May, Faults
  <2>2. budget["unasked"] - 1 \in Nat
    BY <2>1
  <2> QED BY <2>2 DEF TypeOK, Unasked
<1>2. toClient' \in Seq(Messages)
  BY SaysTyped DEF Unasked
<1> QED BY <1>1, <1>2 DEF Unasked, TypeOK, clientVars

LEMMA ServerTyped ==
    ASSUME TypeOK,
           \/ Announce \/ Accept \/ Respond \/ Speak \/ Complete \/ Request \/ Aside
           \/ Edit \/ Die
    PROVE  TypeOK'
<1>0. /\ server \in Servers /\ server.turn \in 0..MaxTurns /\ server.owed \in Nat
      /\ server.turn \in 0..MaxTurns + 1 /\ 0 \in 0..MaxTurns + 1 /\ 0 \in 0..MaxTurns
      /\ MaxTurns + 1 \in 0..MaxTurns + 1 /\ <<>> \in Seq(Parts)
  BY TurnsAssumption DEF TypeOK, Servers
<1>1. CASE Announce
  <2>1. server' \in Servers
    BY <1>0, <1>1 DEF Announce, Servers
  <2> QED BY <1>1, <2>1 DEF Announce, TypeOK, Healthy, clientVars, wires
<1>2. CASE Accept
  <2>1. PICK m \in First(toServer) :
          /\ toServer' = Tail(toServer)
          /\ server' = [server EXCEPT !.turn = m.turn, !.owed = m.id, !.said = {}]
    BY <1>2 DEF Accept
  <2>2. m \in Requests /\ toServer' \in Seq(Requests)
    BY <2>1, FirstTyped DEF TypeOK
  <2>3. m.turn \in 0..MaxTurns /\ m.id \in Nat
    BY <2>2 DEF Requests, Frames
  <2>4. server' \in Servers
    BY <1>0, <2>1, <2>3 DEF Servers
  <2> QED BY <1>2, <2>2, <2>4 DEF Accept, TypeOK, Healthy, clientVars
<1>3. CASE Respond
  <2>1. CASE /\ Says(<<Response(server.owed, server.turn, TRUE)>>)
             /\ server' = [server EXCEPT !.owed = 0]
             /\ Healthy
    <3>1. Response(server.owed, server.turn, TRUE) \in Messages
      BY <1>0, MessageTyped DEF Response, Methods
    <3>2. toClient' \in Seq(Messages)
      BY <2>1, <3>1, OneTyped, SaysTyped
    <3>3. server' \in Servers
      BY <1>0, <2>1 DEF Servers
    <3> QED BY <1>3, <2>1, <3>2, <3>3 DEF Respond, TypeOK, Healthy, clientVars
  <2>2. CASE /\ Says(<<Response(server.owed, 0, FALSE)>>)
             /\ server' = [Idle EXCEPT !.phase = "serving"]
             /\ Happens("error")
    <3>1. Response(server.owed, 0, FALSE) \in Messages
      BY <1>0, MessageTyped DEF Response, Methods
    <3>2. toClient' \in Seq(Messages)
      BY <2>2, <3>1, OneTyped, SaysTyped
    <3>3. causes' \subseteq Faults \cup {"deadline"} /\ budget' \in [Faults -> Nat]
      BY <2>2, HappensTyped DEF Faults
    <3> QED BY <1>3, <2>2, <3>2, <3>3, IdleTyped DEF Respond, TypeOK, clientVars
  <2> QED BY <1>3, <2>1, <2>2 DEF Respond
<1>4. CASE Speak
  <2>1. PICK part \in {"commentary", "final"} \ server.said, whole \in BOOLEAN :
          /\ Working
          /\ LET text == <<[turn |-> server.turn, part |-> part]>>
             IN  Says(<<Notification("delta", server.turn, text, TRUE)>> \o
                      IF whole THEN <<Notification("item", server.turn, text, TRUE)>>
                               ELSE <<>>)
          /\ server' = [server EXCEPT !.said = @ \cup {part}]
          /\ Healthy
          /\ UNCHANGED <<clientVars, process, orphan, toServer, editor>>
    BY <1>4 DEF Speak
  <2> DEFINE text == <<[turn |-> server.turn, part |-> part]>>
             delta == Notification("delta", server.turn, text, TRUE)
             item == Notification("item", server.turn, text, TRUE)
  <2>2. text \in Seq(Parts)
    <3>1. server.turn \in 1..MaxTurns
      BY <1>0, <2>1, TurnsAssumption DEF Working
    <3>2. [turn |-> server.turn, part |-> part] \in Parts
      BY <3>1 DEF Parts
    <3> QED BY <3>2
  <2>3. delta \in Messages /\ item \in Messages
    BY <1>0, <2>2, MessageTyped DEF Notification, Methods
  <2> HIDE DEF delta, item
  <2>4. <<delta>> \o (IF whole THEN <<item>> ELSE <<>>) \in Seq(Messages)
    <3>1. <<delta>> \in Seq(Messages) /\ <<item>> \in Seq(Messages) /\ <<>> \in Seq(Messages)
      BY <2>3
    <3> QED BY <3>1, ConcatTyped
  <2>5. toClient' \in Seq(Messages)
    BY <2>1, <2>4, SaysTyped DEF delta, item
  <2>6. server' \in Servers
    BY <1>0, <2>1 DEF Servers
  <2> QED BY <2>1, <2>5, <2>6 DEF TypeOK, Healthy, clientVars
<1>5. CASE Complete
  <2>1. PICK ok \in BOOLEAN : Says(<<Notification("completed", server.turn, <<>>, ok)>>)
    <3>1. CASE Says(<<Notification("completed", server.turn, <<>>, TRUE)>>)
      BY <3>1
    <3>2. CASE \E ok \in {FALSE, "final" \in server.said} :
                   Says(<<Notification("completed", server.turn, <<>>, ok)>>)
      <4>1. {FALSE, "final" \in server.said} \subseteq BOOLEAN
        OBVIOUS
      <4> QED BY <3>2, <4>1
    <3> QED BY <1>5, <3>1, <3>2 DEF Complete
  <2>2. Notification("completed", server.turn, <<>>, ok) \in Messages
    BY <1>0, MessageTyped DEF Notification, Methods
  <2>3. toClient' \in Seq(Messages)
    BY <2>1, <2>2, OneTyped, SaysTyped
  <2>4. causes' \subseteq Faults \cup {"deadline"} /\ budget' \in [Faults -> Nat]
    BY <1>5, HappensTyped DEF Complete, Healthy, Faults, TypeOK
  <2>5. server' \in Servers
    BY <1>0, <1>5 DEF Complete, Servers
  <2> QED BY <1>5, <2>3, <2>4, <2>5 DEF Complete, TypeOK, clientVars
<1>6. CASE Request
  <2>1. PICK id \in 1..nextID : Unasked(<<Message(id, "approval", 0, <<>>, TRUE)>>)
    BY <1>6 DEF Request
  <2>2. Message(id, "approval", 0, <<>>, TRUE) \in Messages
    <3>1. id \in Nat
      BY DEF TypeOK
    <3> QED BY <1>0, <3>1, MessageTyped DEF Methods
  <2>3. server' \in Servers
    BY <1>0, <1>6 DEF Request, Servers
  <2> QED BY <2>1, <2>2, <2>3, OneTyped, UnaskedTyped
<1>7. CASE Aside
  <2>1. /\ Notification("notice", 0, <<>>, TRUE) \in Messages
        /\ Notification("completed", MaxTurns + 1, <<>>, TRUE) \in Messages
    BY <1>0, MessageTyped DEF Notification, Methods
  <2>2. server' \in Servers
    BY <1>0, <1>7 DEF Aside
  <2> QED BY <1>7, <2>1, <2>2, OneTyped, UnaskedTyped DEF Aside
<1>8. CASE Edit
  <2>1. editor' \in 0..MaxTurns
    <3>1. CASE Working /\ editor' = server.turn
      BY <1>0, <3>1
    <3>2. CASE call = "exec" /\ editor' = asked
      BY <3>2, TurnsAssumption DEF TypeOK, asked
    <3> QED BY <1>8, <3>1, <3>2 DEF Edit
  <2> QED BY <1>8, <2>1 DEF Edit, TypeOK, Healthy, clientVars, wires
<1>9. CASE Die
  <2>1. causes' \subseteq Faults \cup {"deadline"} /\ budget' \in [Faults -> Nat]
    BY <1>9, HappensTyped DEF Die, Faults
  <2> QED BY <1>9, <2>1 DEF Die, TypeOK, clientVars, wires
<1> QED BY <1>1, <1>2, <1>3, <1>4, <1>5, <1>6, <1>7, <1>8, <1>9

LEMMA NextTyped == TypeOK /\ [Next]_vars => TypeOK'
<1> SUFFICES ASSUME TypeOK, [Next]_vars PROVE TypeOK'
  OBVIOUS
<1>1. CASE UNCHANGED vars
  BY <1>1 DEF TypeOK, vars
<1>2. CASE Caller \/ ExecEnds \/ OrphanEnds
  BY <1>2, StartTyped, TurnTyped, ExecTyped DEF Caller
<1> QED BY <1>1, <1>2, ServerTyped DEF Next

\* Every variable of the session model keeps its type, whatever frames come, and
\* no turn is open beyond the last attempt of the loop (builder.go 350-553).
THEOREM TypeCorrect == Spec => []TypeOK
BY InitTyped, NextTyped, PTL DEF Spec

-----------------------------------------------------------------------------
(* The frames under way.  n is the turn asked for, a the id that is waited *)
(* for, t the turn the response has named.                                 *)

Text(n, part) == <<[turn |-> n, part |-> part]>>
Texts(n)      == {Text(n, "commentary"), Text(n, "final")}

\* Frames that say nothing of a turn, and the completions of this turn and of
\* turns nobody asked for.
Silent(m, a) == (m.method = "none" /\ m.id <= a) \/ (m.method = "notice" /\ m.id = 0)
Own(m, n)    == m.method = "completed" /\ m.turn = n
Strange(m)   == m.method = "completed" /\ m.turn = MaxTurns + 1
Names(m, n, a) == m.method = "none" /\ m.id = a /\ m.turn = n

Plain(frames, a) == \A i \in DOMAIN frames : Silent(frames[i], a)

Fits(m, n, a) ==
    \/ Silent(m, a)
    \/ m.method \in {"delta", "item"} /\ m.id = 0 /\ m.text \in Texts(n)
    \/ m.method = "completed" /\ m.id = 0 /\ m.turn \in {n, MaxTurns + 1}
    \/ m.method = "approval"

\* Nothing of a turn comes after its completion; what is read before a strange
\* completion cannot change the turn that was named.
Ordered(frames, n, a) ==
    \A i, j \in DOMAIN frames : i < j =>
        /\ Own(frames[i], n) => Silent(frames[j], a)
        /\ Strange(frames[j]) =>
              /\ frames[i].method # "approval"
              /\ frames[i].id = a => frames[i].turn = n

\* Before a strange completion the response is read that names this turn.
Named(frames, n, a, t) ==
    \A i \in DOMAIN frames : Strange(frames[i]) =>
        t = n \/ \E j \in DOMAIN frames : j < i /\ Names(frames[j], n, a)

FramesFit(frames, n, a, t) ==
    /\ \A i \in DOMAIN frames : Fits(frames[i], n, a)
    /\ Ordered(frames, n, a)
    /\ Named(frames, n, a, t)

OfTurn(text, n) == \A k \in DOMAIN text : text[k].turn = n

-----------------------------------------------------------------------------
(* The app-server and the turn.                                            *)

\* The request is on its way: nothing of the turn has been said.
Unserved ==
    /\ server.turn = 0 /\ server.owed < Awaited
    /\ Len(toServer) = 1
    /\ turn = Quiet
    /\ Plain(toClient, Awaited - 1)

\* The app-server works on the turn.
Serving ==
    /\ server.turn = asked /\ toServer = <<>>
    /\ server.owed \in {0, Awaited}
    /\ \A i \in DOMAIN toClient :
          /\ ~Own(toClient[i], asked)
          /\ toClient[i].method = "none" /\ toClient[i].id = Awaited =>
                toClient[i].turn = asked /\ server.owed = 0
          /\ server.owed # 0 => toClient[i].method # "completed"
          /\ server.phase = "serving" => toClient[i].method # "approval"
    /\ server.owed = 0 /\ server.phase = "serving" =>
          turn.turn = asked \/ \E i \in DOMAIN toClient : Names(toClient[i], asked, Awaited)

\* It has ended it, or refused it.
Served == server.turn = 0 /\ toServer = <<>>

Open == call = "turn" =>
    /\ OfTurn(turn.text, asked) /\ OfTurn(turn.deltas, asked)
    /\ \A i \in DOMAIN toServer : toServer[i].turn = asked /\ toServer[i].id = Awaited
    /\ FramesFit(toClient, asked, Awaited, turn.turn)
    /\ Unserved \/ Serving \/ Served

\* Where the caller is, and whether there is a session.
Live == call \in Startup \/ (session = "up" /\ call # "done")

Stages ==
    /\ call \in {"turn", "settle", "exec"} => ~failed
    /\ call \in Startup => session = "untried"
    /\ session = "untried" => results = <<>>
    /\ session = "up" \/ call \in {"initialize", "thread"} => nextID > 1
    /\ call = "exec" => session = "none"
    /\ server.phase = "starting" => call = "listen"
    /\ server.phase = "waiting" => server.turn # 0
    /\ server.owed < nextID
    /\ ~Live => server = Idle /\ toServer = <<>> /\ toClient = <<>>

\* While the session starts nothing names a turn, and until the last request is
\* read there is no answer to it.
Starts == call \in Startup =>
    /\ server.turn = 0 /\ Plain(toClient, Awaited)
    /\ \A i \in DOMAIN toServer : toServer[i].turn = 0 /\ toServer[i].id < nextID
    /\ call \in {"listen", "dial"} => toServer = <<>>
    /\ toServer # <<>> =>
          /\ server.owed < Awaited /\ Plain(toClient, Awaited - 1)
          /\ \A i \in DOMAIN toServer : i < Len(toServer) => toServer[i].id < Awaited

\* Between two turns nothing of a turn is under way; after one that was given up
\* all that is under way is of that turn.
Between ==
    /\ session = "up" /\ ~failed /\ call \in {"free", "settle"} =>
          Served /\ Plain(toClient, Awaited)
    /\ call = "settle" => OfTurn(turn.text, asked)
    /\ session = "up" /\ failed /\ call = "free" =>
          /\ server.turn \in {0, Len(results)}
          /\ \A i \in DOMAIN toServer : toServer[i].turn = Len(results)
                                        /\ toServer[i].id < nextID

Fitting    == Stages /\ Starts /\ Between /\ Open
SessionInv == TypeOK /\ Processes /\ Fitting

-----------------------------------------------------------------------------
(* Frames that are read and frames that are written.                       *)

LEMMA FirstAt ==
    ASSUME NEW S, NEW frames \in Seq(S), NEW m \in First(frames)
    PROVE  /\ 1 \in DOMAIN frames /\ frames[1] = m /\ DOMAIN frames \subseteq Nat \ {0}
           /\ \A j \in DOMAIN frames : ~(j < 1)
BY DEF First

LEMMA RestAt ==
    ASSUME NEW S, NEW frames \in Seq(S), NEW m \in First(frames),
           NEW rest, rest = Tail(frames)
    PROVE  /\ 1 \in DOMAIN frames /\ frames[1] = m /\ DOMAIN frames \subseteq Nat \ {0}
           /\ \A i \in DOMAIN rest : i \in Nat \ {0} /\ i + 1 \in DOMAIN frames
                                     /\ rest[i] = frames[i + 1]
           /\ \A i \in DOMAIN frames : i # 1 => i - 1 \in DOMAIN rest
                                                /\ rest[i - 1] = frames[i]
<1>1. 1 \in DOMAIN frames /\ frames[1] = m
  BY DEF First
<1>2. DOMAIN frames = 1..Len(frames) /\ Len(frames) \in Nat /\ frames # <<>>
  BY <1>1
<1>3. DOMAIN rest = 1..Len(frames) - 1 /\ \A i \in 1..Len(frames) - 1 : rest[i] = frames[i + 1]
  BY <1>2
<1> QED BY <1>1, <1>2, <1>3

LEMMA LongerAt ==
    ASSUME NEW S, NEW frames \in Seq(S), NEW m, NEW longer, longer = frames \o <<m>>
    PROVE  /\ Len(frames) + 1 \in DOMAIN longer /\ longer[Len(frames) + 1] = m
           /\ \A i \in DOMAIN frames : i \in Nat /\ i \in DOMAIN longer
                                       /\ longer[i] = frames[i] /\ i < Len(frames) + 1
           /\ \A i \in DOMAIN longer : i = Len(frames) + 1 \/ i \in DOMAIN frames
           /\ Len(frames) \in Nat
<1>1. DOMAIN frames = 1..Len(frames) /\ Len(frames) \in Nat /\ Len(<<m>>) = 1
  OBVIOUS
<1>2. DOMAIN longer = 1..Len(frames) + 1
  BY <1>1
<1>3. \A i \in 1..Len(frames) : longer[i] = frames[i]
  BY <1>1
<1>4. longer[Len(frames) + 1] = m
  BY <1>1
<1> QED BY <1>1, <1>2, <1>3, <1>4

\* A frame that is read fits, and a completion nobody asked for is known as one;
\* what is left after the completion of the turn says nothing of it.
LEMMA FirstFits ==
    ASSUME NEW n, NEW a, NEW t, NEW frames \in Seq(Messages), FramesFit(frames, n, a, t),
           NEW m \in First(frames)
    PROVE  /\ Fits(m, n, a)
           /\ Strange(m) => t = n
<1>1. 1 \in DOMAIN frames /\ frames[1] = m /\ \A j \in DOMAIN frames : ~(j < 1)
  BY FirstAt
<1> QED BY <1>1 DEF FramesFit, Named

LEMMA LastFits ==
    ASSUME NEW n, NEW a, NEW t, NEW frames \in Seq(Messages), FramesFit(frames, n, a, t),
           NEW m \in First(frames), Own(m, n), NEW rest, rest = Tail(frames)
    PROVE  Plain(rest, a)
<1>1. /\ 1 \in DOMAIN frames /\ frames[1] = m
      /\ \A i \in DOMAIN rest : i \in Nat \ {0} /\ i + 1 \in DOMAIN frames
                                /\ rest[i] = frames[i + 1]
  BY RestAt
<1>2. ASSUME NEW i \in DOMAIN rest PROVE Silent(rest[i], a)
  <2>1. i + 1 \in DOMAIN frames /\ 1 < i + 1 /\ rest[i] = frames[i + 1]
    BY <1>1
  <2> QED BY <1>1, <2>1 DEF FramesFit, Ordered
<1> QED BY <1>2 DEF Plain

\* What is left still fits.
LEMMA RestFits ==
    ASSUME NEW n \in 1..MaxTurns, NEW a \in Nat \ {0}, NEW t,
           NEW frames \in Seq(Messages), FramesFit(frames, n, a, t),
           NEW m \in First(frames), NEW rest, rest = Tail(frames),
           NEW u, m.id = a => u = m.turn, m.id # a => u = t
    PROVE  FramesFit(rest, n, a, u)
<1>1. /\ 1 \in DOMAIN frames /\ frames[1] = m /\ DOMAIN frames \subseteq Nat \ {0}
      /\ \A i \in DOMAIN rest : i \in Nat \ {0} /\ i + 1 \in DOMAIN frames
                                /\ rest[i] = frames[i + 1]
      /\ \A i \in DOMAIN frames : i # 1 => i - 1 \in DOMAIN rest
                                           /\ rest[i - 1] = frames[i]
  BY RestAt
<1>2. \A i \in DOMAIN rest : Fits(rest[i], n, a)
  BY <1>1 DEF FramesFit
<1>3. Ordered(rest, n, a)
  <2> SUFFICES ASSUME NEW i \in DOMAIN rest, NEW j \in DOMAIN rest, i < j
               PROVE  /\ Own(rest[i], n) => Silent(rest[j], a)
                      /\ Strange(rest[j]) => /\ rest[i].method # "approval"
                                             /\ rest[i].id = a => rest[i].turn = n
    BY DEF Ordered
  <2>1. i + 1 \in DOMAIN frames /\ j + 1 \in DOMAIN frames /\ i + 1 < j + 1
        /\ rest[i] = frames[i + 1] /\ rest[j] = frames[j + 1]
    BY <1>1
  <2> QED BY <2>1 DEF FramesFit, Ordered
<1>4. Named(rest, n, a, u)
  <2> SUFFICES ASSUME NEW i \in DOMAIN rest, Strange(rest[i])
               PROVE  u = n \/ \E j \in DOMAIN rest : j < i /\ Names(rest[j], n, a)
    BY DEF Named
  <2>1. i + 1 \in DOMAIN frames /\ Strange(frames[i + 1]) /\ 1 < i + 1 /\ i \in Nat
    BY <1>1
  <2>2. CASE m.id = a
    <3>1. m.turn = n
      BY <1>1, <2>1, <2>2 DEF FramesFit, Ordered
    <3> QED BY <2>2, <3>1
  <2>3. CASE m.id # a
    <3>1. t = n \/ \E j \in DOMAIN frames : j < i + 1 /\ Names(frames[j], n, a)
      BY <2>1 DEF FramesFit, Named
    <3>2. ASSUME NEW j \in DOMAIN frames, j < i + 1, Names(frames[j], n, a)
          PROVE  j - 1 \in DOMAIN rest /\ j - 1 < i /\ Names(rest[j - 1], n, a)
      <4>1. j # 1
        BY <1>1, <2>3, <3>2 DEF Names
      <4>2. j \in Nat
        BY <1>1
      <4> QED BY <1>1, <2>1, <3>2, <4>1, <4>2
    <3> QED BY <2>3, <3>1, <3>2
  <2> QED BY <2>2, <2>3
<1> QED BY <1>2, <1>3, <1>4 DEF FramesFit

\* A frame may be written that fits and keeps the order.
LEMMA LongerFits ==
    ASSUME NEW n, NEW a, NEW t, NEW frames \in Seq(Messages), FramesFit(frames, n, a, t),
           NEW m, NEW longer, longer = frames \o <<m>>, Fits(m, n, a),
           \A i \in DOMAIN frames : Own(frames[i], n) => Silent(m, a),
           Strange(m) =>
               /\ \A i \in DOMAIN frames : /\ frames[i].method # "approval"
                                           /\ frames[i].id = a => frames[i].turn = n
               /\ t = n \/ \E i \in DOMAIN frames : Names(frames[i], n, a)
    PROVE  FramesFit(longer, n, a, t)
<1> DEFINE last == Len(frames) + 1
<1>1. /\ last \in DOMAIN longer /\ longer[last] = m /\ last \in Nat
      /\ \A i \in DOMAIN frames : i \in Nat /\ i \in DOMAIN longer
                                  /\ longer[i] = frames[i] /\ i < last
      /\ \A i \in DOMAIN longer : i = last \/ i \in DOMAIN frames
  BY LongerAt
<1> HIDE DEF last
<1>2. \A i \in DOMAIN longer : Fits(longer[i], n, a)
  BY <1>1 DEF FramesFit
<1>3. Ordered(longer, n, a)
  <2> SUFFICES ASSUME NEW i \in DOMAIN longer, NEW j \in DOMAIN longer, i < j
               PROVE  /\ Own(longer[i], n) => Silent(longer[j], a)
                      /\ Strange(longer[j]) => /\ longer[i].method # "approval"
                                               /\ longer[i].id = a => longer[i].turn = n
    BY DEF Ordered
  <2>1. i \in DOMAIN frames
    BY <1>1
  <2>2. CASE j = last
    BY <1>1, <2>1, <2>2
  <2>3. CASE j \in DOMAIN frames
    BY <1>1, <2>1, <2>3 DEF FramesFit, Ordered
  <2> QED BY <1>1, <2>2, <2>3
<1>4. Named(longer, n, a, t)
  <2> SUFFICES ASSUME NEW i \in DOMAIN longer, Strange(longer[i]), t # n
               PROVE  \E j \in DOMAIN longer : j < i /\ Names(longer[j], n, a)
    BY DEF Named
  <2>1. CASE i = last
    BY <1>1, <2>1
  <2>2. CASE i \in DOMAIN frames
    <3>1. PICK j \in DOMAIN frames : j < i /\ Names(frames[j], n, a)
      BY <1>1, <2>2 DEF FramesFit, Named
    <3> QED BY <1>1, <2>2, <3>1
  <2> QED BY <1>1, <2>1, <2>2
<1> QED BY <1>2, <1>3, <1>4 DEF FramesFit

\* Frames that say nothing may come at any time.
LEMMA PlainLonger ==
    ASSUME NEW a, NEW frames \in Seq(Messages), Plain(frames, a), NEW m, Silent(m, a),
           NEW longer, longer = frames \o <<m>>
    PROVE  Plain(longer, a)
<1>1. \A i \in DOMAIN longer : longer[i] = m \/ \E j \in DOMAIN frames : longer[i] = frames[j]
  BY LongerAt
<1> QED BY <1>1 DEF Plain

LEMMA PlainRest ==
    ASSUME NEW a, NEW frames \in Seq(Messages), Plain(frames, a), NEW m \in First(frames),
           NEW rest, rest = Tail(frames)
    PROVE  Plain(rest, a) /\ Silent(m, a)
<1>1. /\ m = frames[1] /\ 1 \in DOMAIN frames
      /\ \A i \in DOMAIN rest : i + 1 \in DOMAIN frames /\ rest[i] = frames[i + 1]
  BY RestAt
<1>2. \A i \in DOMAIN rest : Silent(rest[i], a)
  BY <1>1 DEF Plain
<1> QED BY <1>1, <1>2 DEF Plain

LEMMA PlainWider ==
    ASSUME NEW a \in Int, NEW b \in Int, a <= b, NEW frames \in Seq(Messages), Plain(frames, a)
    PROVE  Plain(frames, b)
<1>1. \A i \in DOMAIN frames : frames[i] \in Messages
  OBVIOUS
<1>2. \A i \in DOMAIN frames : frames[i].id \in Nat
  BY <1>1 DEF Messages, Frames
<1> QED BY <1>2 DEF Plain, Silent

LEMMA PlainFits ==
    ASSUME NEW n \in 1..MaxTurns, NEW a, NEW t, NEW frames, Plain(frames, a)
    PROVE  FramesFit(frames, n, a, t)
<1>1. \A i \in DOMAIN frames : ~Own(frames[i], n) /\ ~Strange(frames[i]) /\ Fits(frames[i], n, a)
  BY DEF Plain, Silent, Own, Strange, Fits
<1>2. Ordered(frames, n, a) /\ Named(frames, n, a, t)
  BY <1>1 DEF Ordered, Named
<1> QED BY <1>1, <1>2 DEF FramesFit

-----------------------------------------------------------------------------
(* The caller's steps.                                                     *)

\* What the types say of the numbers, and of the frames.
LEMMA Numbers ==
    ASSUME TypeOK
    PROVE  /\ nextID \in Nat \ {0} /\ Awaited \in Nat /\ Awaited + 1 = nextID
           /\ asked \in Nat \ {0} /\ Len(results) \in Nat /\ asked = Len(results) + 1
           /\ call \in {"turn", "settle", "exec"} => asked \in 1..MaxTurns
           /\ toClient \in Seq(Messages) /\ toServer \in Seq(Requests)
           /\ server.owed \in Nat /\ server.turn \in 0..MaxTurns
BY TurnsAssumption DEF TypeOK, Awaited, asked, Servers

LEMMA FailedFacts ==
    /\ results = <<>> => ~failed
    /\ UNCHANGED results => (failed' <=> failed) /\ asked' = asked
BY DEF failed, asked

LEMMA AppendAt ==
    ASSUME NEW S, NEW s \in Seq(S), NEW e \in S
    PROVE  LET longer == Append(s, e)
           IN  Len(longer) = Len(s) + 1 /\ longer[Len(longer)] = e /\ longer # <<>>
OBVIOUS

\* A turn comes to a result.
LEMMA FinishFacts ==
    ASSUME TypeOK, NEW result \in Seq(Parts), results' = Append(results, result)
    PROVE  /\ Len(results') = asked /\ asked' = asked + 1
           /\ failed' <=> result = Refusal
<1>1. results \in Seq(Seq(Parts))
  BY DEF TypeOK
<1>2. Len(results') = asked /\ results'[Len(results')] = result /\ results' # <<>>
  BY <1>1, AppendAt DEF asked
<1> QED BY <1>2 DEF failed, asked

LEMMA PlainEmpty == \A a : Plain(<<>>, a)
BY DEF Plain

LEMMA SpawnFits ==
    ASSUME SessionInv, StartSession \/ StartFails \/ ReadListener \/ StartupFails \/ Close
    PROVE  Fitting'
<1> USE DEF SessionInv, Fitting
<1>1. CASE StartSession
  <2>1. ~Live /\ results = <<>> /\ ~failed /\ call = "free" /\ session = "untried"
    BY <1>1, FailedFacts DEF StartSession, Stages, Live, Startup
  <2>2. /\ UNCHANGED <<results, nextID, toServer, toClient, session>> /\ call' = "listen"
        /\ server' = [Idle EXCEPT !.phase = "starting"] /\ toServer = <<>> /\ toClient = <<>>
    BY <1>1, <2>1 DEF StartSession, Stages, wires
  <2>3. server'.turn = 0 /\ server'.phase = "starting" /\ server'.owed = 0
    BY <2>2 DEF Idle
  <2>4. Stages'
    BY <2>1, <2>2, <2>3, Numbers DEF Stages, Live, Startup
  <2>5. Starts' /\ Between' /\ Open'
    BY <2>1, <2>2, <2>3, Numbers, PlainEmpty DEF Starts, Between, Open
  <2> QED BY <2>4, <2>5
<1>2. CASE StartFails
  <2>1. ~Live /\ results = <<>> /\ call' = "free" /\ session' = "none"
        /\ UNCHANGED <<results, nextID, wires, server>>
    BY <1>2 DEF StartFails, Stages, Live, Startup
  <2> QED BY <2>1 DEF Stages, Starts, Between, Open, Live, Startup, wires
<1>3. CASE ReadListener
  <2>1. call = "listen" /\ call' = "dial" /\ server.phase # "starting"
        /\ UNCHANGED <<session, nextID, turn, results, toServer, toClient, server>>
    BY <1>3 DEF ReadListener, wires
  <2>2. Stages'
    BY <2>1, FailedFacts DEF Stages, Live, Startup
  <2>3. Starts' /\ Between' /\ Open'
    BY <2>1 DEF Starts, Between, Open, Awaited, Startup
  <2> QED BY <2>2, <2>3
<1>4. CASE StartupFails \/ Close
  <2>1. /\ toServer' = <<>> /\ toClient' = <<>> /\ server' = Idle
        /\ UNCHANGED <<nextID, results>>
        /\ \/ call' = "free" /\ session' = "none"
           \/ call' = "done" /\ UNCHANGED session
    BY <1>4 DEF StartupFails, Close, Closed
  <2>2. Stages'
    <3>1. session' = "untried" => results' = <<>>
      BY <2>1 DEF Stages
    <3>2. session' = "up" => nextID' > 1
      BY <2>1 DEF Stages
    <3> QED BY <2>1, <3>1, <3>2, Numbers DEF Stages, Live, Startup, Idle
  <2>3. Starts' /\ Between' /\ Open'
    BY <2>1 DEF Starts, Between, Open, Startup
  <2> QED BY <2>2, <2>3
<1> QED BY <1>1, <1>2, <1>3, <1>4

\* The answer that is accepted is the last of what was asked for.
LEMMA AcceptedFacts ==
    ASSUME SessionInv, NEW at \in {"initialize", "thread"}, Accepted(at)
    PROVE  /\ call = at /\ toServer = <<>> /\ Plain(toClient', Awaited) /\ server.turn = 0
           /\ Stages /\ session = "untried" /\ server.owed < nextID
           /\ server.phase # "starting"
<1> USE DEF SessionInv, Fitting
<1>1. PICK m \in First(toClient) : m.id = Awaited
  BY DEF Accepted
<1>2. call = at /\ toClient' = Tail(toClient)
  BY DEF Accepted
<1>3. Plain(toClient, Awaited) /\ server.turn = 0
  BY <1>2 DEF Starts, Startup
<1>4. Plain(toClient', Awaited)
  BY <1>1, <1>2, <1>3, Numbers, PlainRest
<1>5. ~Plain(toClient, Awaited - 1)
  <2>1. Awaited > 0
    BY <1>2, Numbers DEF Stages
  <2>2. SUFFICES ASSUME Plain(toClient, Awaited - 1) PROVE FALSE
    OBVIOUS
  <2>3. Silent(m, Awaited - 1)
    BY <1>1, <2>2, Numbers, PlainRest
  <2> QED BY <1>1, <2>1, <2>3, Numbers DEF Silent
<1>6. toServer = <<>>
  BY <1>2, <1>5 DEF Starts, Startup
<1> QED BY <1>2, <1>3, <1>4, <1>6 DEF Stages, Startup

\* The handshake: what is written is read in order, so the last answer comes
\* when nothing is left to be read.
LEMMA HandshakeFits ==
    ASSUME SessionInv, Dial \/ Skip \/ Initialized \/ ThreadStarted
    PROVE  Fitting'
<1> USE DEF SessionInv, Fitting
<1>1. CASE Dial
  <2> DEFINE m == Message(nextID, "initialize", 0, <<>>, TRUE)
  <2>1. /\ call = "dial" /\ call' = "initialize" /\ toServer' = Append(toServer, m)
        /\ nextID' = nextID + 1 /\ UNCHANGED <<session, turn, results, toClient, server>>
    BY <1>1 DEF Dial, Send
  <2>2. toServer = <<>> /\ server.turn = 0 /\ Plain(toClient, Awaited) /\ server.owed < nextID
    BY <2>1 DEF Starts, Stages, Startup
  <2>3. toServer' = <<m>> /\ m.turn = 0 /\ m.id = nextID /\ Awaited' = nextID
        /\ Awaited' - 1 = Awaited
    BY <2>1, <2>2, Numbers DEF Message, Awaited
  <2> HIDE DEF m
  <2>4. Stages'
    BY <2>1, <2>2, Numbers, FailedFacts DEF Stages, Live, Startup
  <2>5. Plain(toClient', Awaited') /\ Plain(toClient', Awaited' - 1)
    <3>1. Plain(toClient, Awaited + 1)
      BY <2>2, Numbers, PlainWider
    <3> QED BY <2>1, <2>2, <2>3, <3>1, Numbers
  <2>6. Starts'
    BY <2>1, <2>2, <2>3, <2>5, Numbers DEF Starts
  <2> QED BY <2>1, <2>4, <2>6 DEF Between, Open
<1>2. CASE Skip
  <2>1. PICK m \in First(toClient) : m.id # Awaited
    BY <1>2 DEF Skip
  <2>2. /\ call \in {"initialize", "thread"} /\ toClient' = Tail(toClient)
        /\ UNCHANGED <<call, session, turn, results, nextID, toServer, server>>
    BY <1>2 DEF Skip, clientVars
  <2>3. /\ \A a : Plain(toClient, a) => Plain(toClient', a)
    BY <2>1, <2>2, Numbers, PlainRest
  <2>4. Awaited' = Awaited /\ Live /\ Live'
    BY <2>2 DEF Awaited, Live, Startup
  <2>5. Stages'
    BY <2>2, <2>4, FailedFacts DEF Stages
  <2>6. Starts'
    BY <2>2, <2>3, <2>4 DEF Starts
  <2> QED BY <2>2, <2>5, <2>6 DEF Between, Open
<1>3. ASSUME NEW at \in {"initialize", "thread"}, Accepted(at)
      PROVE  /\ call = at /\ toServer = <<>> /\ Plain(toClient', Awaited) /\ server.turn = 0
             /\ Stages /\ session = "untried" /\ server.owed < nextID
             /\ server.phase # "starting"
  BY <1>3, AcceptedFacts
<1>4. CASE Initialized
  <2> DEFINE m1 == Notification("initialized", 0, <<>>, TRUE)
             m2 == Message(nextID, "thread/start", 0, <<>>, TRUE)
  <2>1. /\ Accepted("initialize") /\ call' = "thread"
        /\ toServer' = toServer \o <<m1, m2>>
        /\ nextID' = nextID + 1 /\ UNCHANGED <<session, turn, results, server>>
    BY <1>4 DEF Initialized
  <2>2. /\ call = "initialize" /\ toServer = <<>> /\ Plain(toClient', Awaited)
        /\ server.turn = 0 /\ server.owed < nextID /\ server.phase # "starting"
        /\ session = "untried"
    BY <1>3, <2>1
  <2>3. /\ toServer' = <<m1, m2>> /\ Awaited' = nextID /\ Awaited' - 1 = Awaited
        /\ m1.turn = 0 /\ m1.id = 0 /\ m2.turn = 0 /\ m2.id = nextID
    BY <2>1, <2>2, Numbers DEF Message, Notification, Awaited
  <2> HIDE DEF m1, m2
  <2>4. Stages'
    BY <2>1, <2>2, Numbers, FailedFacts DEF Stages, Live, Startup
  <2>5. Plain(toClient', Awaited') /\ Plain(toClient', Awaited' - 1)
    <3>1. toClient' \in Seq(Messages)
      BY <2>1, Numbers, FirstTyped DEF Accepted
    <3>2. Plain(toClient', Awaited + 1)
      BY <2>2, <3>1, Numbers, PlainWider
    <3> QED BY <2>2, <2>3, <3>2, Numbers
  <2>6. /\ DOMAIN toServer' = {1, 2} /\ Len(toServer') = 2
        /\ toServer'[1] = m1 /\ toServer'[2] = m2
    BY <2>3
  <2>7. Starts'
    BY <2>1, <2>2, <2>3, <2>5, <2>6, Numbers DEF Starts
  <2> QED BY <2>1, <2>4, <2>7 DEF Between, Open
<1>5. CASE ThreadStarted
  <2>1. /\ Accepted("thread") /\ call' = "free" /\ session' = "up"
        /\ UNCHANGED <<nextID, turn, results, toServer, server>>
    BY <1>5 DEF ThreadStarted
  <2>2. /\ call = "thread" /\ toServer = <<>> /\ Plain(toClient', Awaited)
        /\ server.turn = 0 /\ server.owed < nextID /\ server.phase # "starting"
        /\ session = "untried" /\ results = <<>> /\ nextID > 1
    BY <1>3, <2>1 DEF Stages
  <2>3. ~failed' /\ Awaited' = Awaited
    BY <2>1, <2>2, FailedFacts DEF Awaited
  <2>4. Stages'
    BY <2>1, <2>2, <2>3 DEF Stages, Live, Startup
  <2>5. Between'
    BY <2>1, <2>2, <2>3 DEF Between, Served
  <2> QED BY <2>1, <2>4, <2>5 DEF Starts, Open, Startup
<1> QED BY <1>1, <1>2, <1>4, <1>5

LEMMA AskFits ==
    ASSUME SessionInv, Ask
    PROVE  Fitting'
<1> USE DEF SessionInv, Fitting
<1> DEFINE m == Message(nextID, "turn/start", asked, <<>>, TRUE)
<1>1. /\ call = "free" /\ session = "up" /\ ~failed /\ Len(results) < MaxTurns
      /\ call' = "turn" /\ turn' = Quiet /\ toServer' = Append(toServer, m)
      /\ nextID' = nextID + 1 /\ UNCHANGED <<session, results, toClient, server>>
  BY DEF Ask, Asks, Send
<1>2. /\ server.turn = 0 /\ toServer = <<>> /\ Plain(toClient, Awaited)
      /\ server.owed < nextID /\ nextID > 1
  BY <1>1 DEF Between, Served, Stages
<1>3. /\ toServer' = <<m>> /\ Awaited' = nextID /\ Awaited' - 1 = Awaited
      /\ asked' = asked /\ ~failed' /\ m.turn = asked /\ m.id = nextID
      /\ asked \in 1..MaxTurns
  BY <1>1, <1>2, Numbers, FailedFacts, TurnsAssumption DEF Message, Awaited, asked
<1> HIDE DEF m
<1>4. Stages'
  BY <1>1, <1>2, <1>3, Numbers DEF Stages, Live, Startup
<1>5. Plain(toClient, Awaited') /\ FramesFit(toClient, asked, Awaited', 0)
  <2>1. Plain(toClient, nextID)
    BY <1>2, Numbers, PlainWider
  <2> QED BY <1>3, <2>1, PlainFits
<1>6. Unserved'
  BY <1>1, <1>2, <1>3 DEF Unserved
<1>7. \A i \in DOMAIN toServer' : toServer'[i].turn = asked' /\ toServer'[i].id = Awaited'
  BY <1>1, <1>3
<1>8. OfTurn(turn'.text, asked') /\ OfTurn(turn'.deltas, asked') /\ turn'.turn = 0
  BY <1>1 DEF Quiet, OfTurn
<1>9. Open'
  BY <1>1, <1>3, <1>5, <1>6, <1>7, <1>8 DEF Open
<1> QED BY <1>1, <1>4, <1>9 DEF Starts, Between, Startup

\* However the turn fails, only frames of its own are under way.
LEMMA GivesUp ==
    ASSUME SessionInv, call = "turn", Finish(Refusal),
           UNCHANGED <<session, nextID, toServer, server>>
    PROVE  Fitting'
<1> USE DEF SessionInv, Fitting
<1>1. /\ Len(results') = asked /\ failed' /\ call' = "free" /\ session = "up"
      /\ Awaited' = Awaited
  BY RefusalTyped, FinishFacts DEF Finish, Processes, Awaited
<1>2. Stages'
  BY <1>1 DEF Stages, Live, Startup
<1>3. /\ server.turn \in {0, asked}
      /\ \A i \in DOMAIN toServer : toServer[i].turn = asked /\ toServer[i].id = Awaited
  BY DEF Open, Unserved, Serving, Served
<1>4. Between'
  BY <1>1, <1>3, Numbers DEF Between
<1> QED BY <1>1, <1>2, <1>4 DEF Starts, Open, Startup

\* What a read does to the frames.
LEMMA TakesFits ==
    ASSUME SessionInv, NEW m, Takes(m), NEW u, u = IF m.id = Awaited THEN m.turn ELSE turn.turn
    PROVE  /\ m \in First(toClient) /\ toClient' = Tail(toClient)
           /\ m \in Messages /\ toClient' \in Seq(Messages)
           /\ call = "turn" /\ session = "up"
           /\ asked \in 1..MaxTurns /\ Awaited \in Nat \ {0}
           /\ UNCHANGED <<session, nextID, toServer, server>> /\ Awaited' = Awaited
           /\ Fits(m, asked, Awaited) /\ FramesFit(toClient', asked, Awaited, u)
           /\ Strange(m) => turn.turn = asked
           /\ Own(m, asked) => Plain(toClient', Awaited)
<1> USE DEF SessionInv, Fitting
<1>1. /\ call = "turn" /\ m \in First(toClient) /\ toClient' = Tail(toClient)
      /\ UNCHANGED <<session, nextID, toServer, server>> /\ Awaited' = Awaited
  BY DEF Takes, Awaited
<1>2. session = "up" /\ asked \in 1..MaxTurns /\ Awaited \in Nat \ {0}
  BY <1>1, Numbers DEF Processes, Stages
<1>3. FramesFit(toClient, asked, Awaited, turn.turn) /\ toClient \in Seq(Messages)
  BY <1>1, Numbers DEF Open
<1>4. m \in Messages /\ toClient' \in Seq(Messages)
  BY TakesTyped
<1>5. m.id = Awaited => u = m.turn
  OBVIOUS
<1>6. m.id # Awaited => u = turn.turn
  OBVIOUS
<1>7. Fits(m, asked, Awaited) /\ (Strange(m) => turn.turn = asked)
  BY <1>1, <1>3, FirstFits
<1>8. FramesFit(toClient', asked, Awaited, u)
  BY <1>1, <1>2, <1>3, <1>5, <1>6, RestFits
<1>9. Own(m, asked) => Plain(toClient', Awaited)
  BY <1>1, <1>3, LastFits
<1> QED BY <1>1, <1>2, <1>4, <1>7, <1>8, <1>9

\* A read that neither ends the turn nor breaks it.
LEMMA ReadFits ==
    ASSUME SessionInv, NEW m, Takes(m), UNCHANGED <<call, results>>,
           turn'.turn = IF m.id = Awaited THEN m.turn ELSE turn.turn,
           OfTurn(turn'.text, asked), OfTurn(turn'.deltas, asked),
           Unserved => UNCHANGED turn
    PROVE  Fitting'
<1> USE DEF SessionInv, Fitting
<1>1. /\ m \in First(toClient) /\ toClient' = Tail(toClient)
      /\ call = "turn" /\ session = "up" /\ asked' = asked
      /\ asked \in 1..MaxTurns /\ Awaited \in Nat \ {0}
      /\ UNCHANGED <<session, nextID, toServer, server>> /\ Awaited' = Awaited
      /\ Fits(m, asked, Awaited) /\ FramesFit(toClient', asked, Awaited, turn'.turn)
  BY TakesFits, FailedFacts
<1>2. Stages'
  BY <1>1, FailedFacts DEF Stages, Live, Startup
<1>3. /\ 1 \in DOMAIN toClient /\ toClient[1] = m /\ DOMAIN toClient \subseteq Nat \ {0}
      /\ \A i \in DOMAIN toClient' : i \in Nat \ {0} /\ i + 1 \in DOMAIN toClient
                                     /\ toClient'[i] = toClient[i + 1]
      /\ \A i \in DOMAIN toClient : i # 1 => i - 1 \in DOMAIN toClient'
                                             /\ toClient'[i - 1] = toClient[i]
  BY SMTT(30), <1>1, Numbers, RestAt
<1> SUFFICES Unserved' \/ Serving' \/ Served'
  <2>1. \A i \in DOMAIN toServer' : toServer'[i].turn = asked' /\ toServer'[i].id = Awaited'
    BY <1>1 DEF Open
  <2>2. ASSUME Unserved' \/ Serving' \/ Served' PROVE Open'
    BY <1>1, <2>1, <2>2 DEF Open
  <2> QED BY <1>1, <1>2, <2>2 DEF Starts, Between, Startup
<1>4. CASE Unserved
  <2>1. UNCHANGED turn /\ Plain(toClient', Awaited - 1)
    BY <1>1, <1>4, Numbers, PlainRest DEF Unserved
  <2>2. Unserved'
    BY <1>1, <1>4, <2>1 DEF Unserved
  <2> QED BY <2>2
<1>5. CASE Serving
  <2>1. ASSUME NEW i \in DOMAIN toClient'
        PROVE  /\ ~Own(toClient'[i], asked)
               /\ toClient'[i].method = "none" /\ toClient'[i].id = Awaited =>
                     toClient'[i].turn = asked /\ server.owed = 0
               /\ server.owed # 0 => toClient'[i].method # "completed"
               /\ server.phase = "serving" => toClient'[i].method # "approval"
    BY <1>3, <1>5 DEF Serving
  <2>2. ASSUME server.owed = 0, server.phase = "serving"
        PROVE  turn'.turn = asked \/ \E i \in DOMAIN toClient' : Names(toClient'[i], asked, Awaited)
    <3>1. CASE m.id = Awaited
      <4>1. m.method = "none"
        BY <1>1, <1>3, <1>5, <2>2, <3>1 DEF Fits, Silent, Serving
      <4>2. m.turn = asked
        BY <1>3, <1>5, <3>1, <4>1 DEF Serving
      <4> QED BY <3>1, <4>2
    <3>2. CASE m.id # Awaited
      <4>1. turn.turn = asked \/ \E i \in DOMAIN toClient : Names(toClient[i], asked, Awaited)
        BY <1>5, <2>2 DEF Serving
      <4>2. ASSUME NEW i \in DOMAIN toClient, Names(toClient[i], asked, Awaited)
            PROVE  \E j \in DOMAIN toClient' : Names(toClient'[j], asked, Awaited)
        <5>1. i # 1
          BY <1>3, <3>2, <4>2 DEF Names
        <5> QED BY <1>3, <4>2, <5>1
      <4> QED BY <3>2, <4>1, <4>2
    <3> QED BY <3>1, <3>2
  <2>3. Serving'
    BY <1>1, <1>5, <2>1, <2>2 DEF Serving
  <2> QED BY <2>3
<1>6. CASE Served
  BY <1>1, <1>6 DEF Served
<1>7. Unserved \/ Serving \/ Served
  BY <1>1 DEF Open
<1> QED BY <1>4, <1>5, <1>6, <1>7

\* Texts of one turn, put together.
LEMMA TogetherOfTurn ==
    ASSUME NEW n, NEW s \in Seq(Parts), OfTurn(s, n), NEW text \in Texts(n)
    PROVE  OfTurn(text, n) /\ OfTurn(s \o text, n)
<1>1. PICK p : text = <<[turn |-> n, part |-> p]>>
  BY DEF Texts, Text
<1> DEFINE e == [turn |-> n, part |-> p]
<1>2. e.turn = n /\ text = <<e>>
  BY <1>1
<1> HIDE DEF e
<1>3. \A k \in DOMAIN (s \o <<e>>) : k \in DOMAIN s \/ k = Len(s) + 1
  OBVIOUS
<1>4. \A k \in DOMAIN s : (s \o <<e>>)[k] = s[k]
  OBVIOUS
<1>5. (s \o <<e>>)[Len(s) + 1] = e
  OBVIOUS
<1>6. OfTurn(s \o <<e>>, n)
  BY <1>2, <1>3, <1>4, <1>5 DEF OfTurn
<1>7. OfTurn(<<e>>, n)
  BY <1>2 DEF OfTurn
<1> QED BY <1>2, <1>6, <1>7

LEMMA ReadsFit ==
    ASSUME SessionInv, ReadResponse \/ ReadText \/ ReadForeign
    PROVE  Fitting'
<1>0. /\ call = "turn" => turn \in [turn : 0..MaxTurns + 1, text : Seq(Parts), deltas : Seq(Parts)]
      /\ call = "turn" => OfTurn(turn.text, asked) /\ OfTurn(turn.deltas, asked)
  BY DEF SessionInv, Fitting, TypeOK, Open
<1>1. CASE ReadResponse
  <2>1. PICK m : /\ Takes(m) /\ m.id = Awaited /\ m.ok
                 /\ turn' = [turn EXCEPT !.turn = m.turn] /\ UNCHANGED <<call, results>>
    BY <1>1 DEF ReadResponse
  <2>2. call = "turn" /\ m \in First(toClient) /\ Awaited \in Nat \ {0} /\ Fits(m, asked, Awaited)
    BY <2>1, TakesFits
  <2>3. turn'.turn = m.turn /\ turn'.text = turn.text /\ turn'.deltas = turn.deltas
    BY <1>0, <2>1, <2>2
  <2>4. ~Unserved
    <3>1. Unserved => Silent(m, Awaited - 1)
      BY <2>2, Numbers, PlainRest DEF Unserved, SessionInv
    <3> QED BY <2>1, <2>2, <3>1 DEF Silent
  <2> QED BY <1>0, <2>1, <2>2, <2>3, <2>4, ReadFits
<1>2. CASE ReadText
  <2>1. PICK m : /\ Takes(m) /\ m.id # Awaited /\ UNCHANGED <<call, results>>
                 /\ \/ m.method = "delta" /\ turn' = [turn EXCEPT !.deltas = @ \o m.text]
                    \/ m.method = "item" /\ turn' = [turn EXCEPT !.text = m.text]
                    \/ m.method \in {"approval", "notice"} /\ UNCHANGED turn
    BY <1>2 DEF ReadText
  <2>2. call = "turn" /\ m \in First(toClient) /\ Awaited \in Nat \ {0} /\ Fits(m, asked, Awaited)
    BY <2>1, TakesFits
  <2>3. m.method \in {"delta", "item"} => m.text \in Texts(asked)
    BY <2>2 DEF Fits, Silent
  <2>4. /\ turn'.turn = turn.turn
        /\ turn'.text \in {turn.text} \cup {x \in {m.text} : m.method = "item"}
        /\ turn'.deltas \in {turn.deltas} \cup {x \in {turn.deltas \o m.text} : m.method = "delta"}
    BY <1>0, <2>1, <2>2
  <2>5. OfTurn(turn'.text, asked) /\ OfTurn(turn'.deltas, asked)
    BY <1>0, <2>2, <2>3, <2>4, TogetherOfTurn
  <2>6. Unserved => UNCHANGED turn
    <3>1. Unserved => Silent(m, Awaited - 1)
      BY <2>2, Numbers, PlainRest DEF Unserved, SessionInv
    <3> QED BY <2>1, <2>2, <3>1 DEF Silent
  <2> QED BY <2>1, <2>4, <2>5, <2>6, ReadFits
<1>3. CASE ReadForeign
  <2>1. PICK m : /\ Takes(m) /\ m.method = "completed" /\ Foreign(m)
                 /\ UNCHANGED <<call, results, turn>>
    BY <1>3 DEF ReadForeign
  <2>2. call = "turn" /\ Awaited \in Nat \ {0} /\ Fits(m, asked, Awaited)
        /\ (Strange(m) => turn.turn = asked)
    BY <2>1, TakesFits
  <2>3. m.id = 0
    BY <2>1, <2>2 DEF Fits, Silent
  <2> QED BY <1>0, <2>1, <2>2, <2>3, ReadFits
<1> QED BY <1>1, <1>2, <1>3

\* A completion that is not taken for a foreign one is the turn's own, and the
\* app-server is done with the turn.
LEMMA CompletedFacts ==
    ASSUME SessionInv, NEW m, Takes(m), m.method = "completed", ~Foreign(m)
    PROVE  Own(m, asked) /\ Served
<1> USE DEF SessionInv, Fitting
<1>1. /\ call = "turn" /\ m \in First(toClient) /\ asked \in 1..MaxTurns
      /\ Fits(m, asked, Awaited) /\ (Strange(m) => turn.turn = asked)
  BY TakesFits
<1>2. Own(m, asked)
  BY <1>1 DEF Fits, Silent, Own, Strange, Foreign
<1>3. ~Unserved
  <2>1. Unserved => Silent(m, Awaited - 1)
    BY <1>1, Numbers, PlainRest DEF Unserved
  <2> QED BY <2>1 DEF Silent
<1>4. ~Serving
  <2>1. 1 \in DOMAIN toClient /\ toClient[1] = m
    BY <1>1, Numbers, FirstAt
  <2> QED BY <1>2, <2>1 DEF Serving
<1> QED BY <1>1, <1>2, <1>3, <1>4 DEF Open

LEMMA EndsFit ==
    ASSUME SessionInv, ReadRefusal \/ TurnBreaks \/ ReadCompleted \/ Settle \/ SettleFails
    PROVE  Fitting'
<1> USE DEF SessionInv, Fitting
<1>1. CASE TurnBreaks
  <2>1. call = "turn" /\ Finish(Refusal) /\ UNCHANGED <<session, nextID, toServer, server>>
    BY <1>1 DEF TurnBreaks, wires
  <2> QED BY <2>1, GivesUp
<1>2. CASE ReadRefusal
  <2>1. call = "turn" /\ Finish(Refusal) /\ UNCHANGED <<session, nextID, toServer, server>>
    BY <1>2 DEF ReadRefusal, Takes
  <2> QED BY <2>1, GivesUp
<1>3. CASE ReadCompleted
  <2>1. PICK m : /\ Takes(m) /\ m.method = "completed" /\ ~Foreign(m)
                 /\ turn' = [turn EXCEPT !.text = IF turn.text # <<>> THEN turn.text
                                                                    ELSE turn.deltas]
                 /\ \/ call' = "settle" /\ UNCHANGED results
                    \/ Finish(Refusal)
    BY <1>3 DEF ReadCompleted
  <2>2. /\ call = "turn" /\ m \in First(toClient) /\ asked \in 1..MaxTurns
        /\ session = "up" /\ Awaited \in Nat \ {0} /\ Awaited' = Awaited
        /\ UNCHANGED <<session, nextID, toServer, server>>
        /\ Fits(m, asked, Awaited) /\ (Strange(m) => turn.turn = asked)
        /\ (Own(m, asked) => Plain(toClient', Awaited))
    BY <2>1, TakesFits
  <2>3. CASE Finish(Refusal)
    BY <2>2, <2>3, GivesUp
  <2>4. CASE call' = "settle" /\ UNCHANGED results
    <3>1. Own(m, asked) /\ Served
      BY <2>1, CompletedFacts
    <3>2. OfTurn(turn'.text, asked')
      BY <2>1, <2>2, <2>4, FailedFacts DEF Open, TypeOK
    <3>3. Served' /\ Plain(toClient', Awaited') /\ ~failed'
      BY <2>2, <2>4, <3>1, FailedFacts DEF Served, Stages
    <3>4. Between'
      BY <2>2, <2>4, <3>2, <3>3 DEF Between
    <3>5. Stages'
      BY <2>2, <2>4, <3>3 DEF Stages, Live, Startup
    <3> QED BY <2>4, <3>4, <3>5 DEF Starts, Open, Startup
  <2> QED BY <2>1, <2>3, <2>4
<1>4. CASE Settle \/ SettleFails
  <2>1. PICK result \in {turn.text, Refusal} :
          /\ call = "settle" /\ Finish(result)
          /\ UNCHANGED <<session, nextID, toServer, toClient, server>>
    BY <1>4 DEF Settle, SettleFails, wires
  <2>2. results' = Append(results, result) /\ call' = "free" /\ session = "up"
    BY <2>1 DEF Finish, Processes
  <2>3. Served /\ Plain(toClient, Awaited) /\ Awaited' = Awaited
    BY <2>1, <2>2 DEF Between, Stages, Awaited
  <2>4. Served' /\ Plain(toClient', Awaited') /\ server'.turn = 0 /\ toServer' = <<>>
    BY <2>1, <2>3 DEF Served
  <2>5. Between'
    BY <2>2, <2>4 DEF Between
  <2>6. Stages'
    BY <2>1, <2>2, <2>3 DEF Stages, Live, Startup, Served
  <2> QED BY <2>2, <2>5, <2>6 DEF Starts, Open, Startup
<1> QED BY <1>1, <1>2, <1>3, <1>4

LEMMA ExecFits ==
    ASSUME SessionInv, StartExec \/ ExecEnds \/ OrphanEnds \/ ExecReturns
    PROVE  Fitting'
<1> USE DEF SessionInv, Fitting
<1>1. CASE StartExec
  <2>1. /\ call = "free" /\ session = "none" /\ call' = "exec" /\ ~failed
        /\ UNCHANGED <<session, nextID, results, toServer, toClient, server>>
    BY <1>1 DEF StartExec, Asks, wires
  <2>2. Stages'
    BY <2>1, FailedFacts DEF Stages, Live, Startup
  <2> QED BY <2>1, <2>2 DEF Starts, Between, Open, Startup
<1>2. CASE ExecEnds \/ OrphanEnds
  <2>1. UNCHANGED <<call, session, nextID, turn, results, toServer, toClient, server>>
    BY <1>2 DEF ExecEnds, OrphanEnds, clientVars, wires
  <2> QED BY <2>1 DEF Stages, Starts, Between, Open, Live, Awaited, asked, failed, Served,
             Unserved, Serving
<1>3. CASE ExecReturns
  <2>1. /\ call = "exec" /\ call' = "free"
        /\ UNCHANGED <<session, nextID, toServer, toClient, server>>
    BY <1>3 DEF ExecReturns, Finish, wires
  <2>2. session = "none"
    BY <2>1 DEF Stages
  <2>3. Stages'
    BY <2>1, <2>2 DEF Stages, Live, Startup
  <2> QED BY <2>1, <2>2, <2>3 DEF Starts, Between, Open, Startup
<1> QED BY <1>1, <1>2, <1>3

-----------------------------------------------------------------------------
(* The app-server's steps.                                                 *)

\* The app-server acts while the session starts or stands.
LEMMA ServesFacts ==
    ASSUME SessionInv, Serves
    PROVE  /\ Live /\ call \in Startup \cup {"free", "turn", "settle"}
           /\ call \in {"free", "turn", "settle"} => session = "up"
BY DEF SessionInv, Fitting, Stages, Serves, Live, Idle, TypeOK, Calls, Startup

LEMMA ClientFacts ==
    ASSUME UNCHANGED clientVars
    PROVE  /\ asked' = asked /\ Awaited' = Awaited /\ failed' = failed /\ Live' = Live
           /\ UNCHANGED <<call, session, results, turn, nextID>>
BY DEF clientVars, asked, Awaited, failed, Live

\* The app-server's state with a field changed.
LEMMA ServerFields ==
    ASSUME TypeOK, NEW t, NEW o, NEW s, NEW p,
           server' = [server EXCEPT !.phase = p, !.turn = t, !.owed = o, !.said = s]
    PROVE  server'.phase = p /\ server'.turn = t /\ server'.owed = o /\ server'.said = s
BY DEF TypeOK, Servers

\* Steps that neither read nor write frames and leave the turn open.
LEMMA QuietFits ==
    ASSUME SessionInv, UNCHANGED <<clientVars, toServer, toClient>>, Serves,
           server'.turn = server.turn, server'.owed = server.owed,
           server'.phase \in {server.phase, "serving"},
           server.phase = "waiting" => UNCHANGED server,
           server.phase = "starting" => call = "listen"
    PROVE  Fitting'
<1> USE DEF SessionInv, Fitting
<1>1. /\ asked' = asked /\ Awaited' = Awaited /\ failed' = failed /\ Live' = Live
      /\ UNCHANGED <<call, session, results, turn, nextID, toServer, toClient>>
  BY ClientFacts
<1>2. Live
  BY ServesFacts
<1>3. Stages'
  BY <1>1, <1>2 DEF Stages
<1>4. Starts' /\ Between'
  BY <1>1 DEF Starts, Between, Served
<1>5. Open'
  <2> SUFFICES ASSUME call = "turn" PROVE Open'
    BY <1>1 DEF Open
  <2>1. server.phase # "starting"
    OBVIOUS
  <2>2. server'.phase = server.phase
    BY <2>1 DEF Serves, TypeOK, Servers
  <2>3. (Unserved => Unserved') /\ (Serving => Serving') /\ (Served => Served')
    BY <1>1, <2>2 DEF Unserved, Serving, Served
  <2> QED BY <1>1, <2>3 DEF Open
<1> QED BY <1>3, <1>4, <1>5

LEMMA AcceptFits ==
    ASSUME SessionInv, Accept
    PROVE  Fitting'
<1> USE DEF SessionInv, Fitting
<1>1. PICK m \in First(toServer) :
        /\ toServer' = Tail(toServer)
        /\ server' = [server EXCEPT !.turn = m.turn, !.owed = m.id, !.said = {}]
  BY DEF Accept
<1>2. /\ Serves /\ server.turn = 0 /\ server.owed = 0
      /\ UNCHANGED <<clientVars, toClient>>
  BY DEF Accept
<1>3. /\ asked' = asked /\ Awaited' = Awaited /\ failed' = failed /\ Live' = Live /\ Live
      /\ UNCHANGED <<call, session, results, turn, nextID, toClient>>
      /\ call \in Startup \cup {"free", "turn", "settle"}
      /\ call \in {"free", "turn", "settle"} => session = "up"
  BY <1>2, ClientFacts, ServesFacts
<1>4. /\ server'.phase = server.phase /\ server'.turn = m.turn /\ server'.owed = m.id
      /\ server'.said = {}
  BY <1>1 DEF TypeOK, Servers
<1>5. /\ 1 \in DOMAIN toServer /\ toServer[1] = m /\ toServer # <<>>
      /\ toServer \in Seq(Requests) /\ toServer' \in Seq(Requests)
      /\ Len(toServer') = Len(toServer) - 1 /\ Len(toServer) \in Nat \ {0}
      /\ DOMAIN toServer' = 1..Len(toServer')
  <2>1. 1 \in DOMAIN toServer /\ toServer[1] = m /\ toServer \in Seq(Requests)
    BY Numbers, FirstAt
  <2> QED BY <1>1, <2>1
<1>6. \A i \in DOMAIN toServer' : i + 1 \in DOMAIN toServer /\ toServer'[i] = toServer[i + 1]
                                  /\ i \in Nat
  BY <1>1, <1>5, RestAt
<1>7. server.phase # "waiting"
  BY <1>2 DEF Stages
<1>8. CASE call \in Startup
  <2>1. m.turn = 0 /\ m.id < nextID
    BY <1>5, <1>8 DEF Starts
  <2>2. Stages'
    BY <1>3, <1>4, <1>7, <2>1 DEF Stages
  <2>3. ASSUME toServer' # <<>>
        PROVE  /\ server'.owed < Awaited /\ Plain(toClient, Awaited - 1)
               /\ \A i \in DOMAIN toServer' : i < Len(toServer') => toServer'[i].id < Awaited
    <3>1. Len(toServer) > 1
      BY <1>5, <2>3
    <3>2. m.id < Awaited
      BY <1>5, <1>8, <3>1 DEF Starts
    <3>3. \A i \in DOMAIN toServer' : i < Len(toServer') => toServer'[i].id < Awaited
      <4> TAKE i \in DOMAIN toServer'
      <4> HAVE i < Len(toServer')
      <4>1. i + 1 \in DOMAIN toServer /\ i + 1 < Len(toServer) /\ toServer'[i] = toServer[i + 1]
        BY <1>5, <1>6
      <4> QED BY <1>5, <1>8, <4>1 DEF Starts
    <3> QED BY <1>4, <1>5, <1>8, <3>2, <3>3 DEF Starts
  <2>4. call \notin {"listen", "dial"}
    BY <1>5, <1>8 DEF Starts
  <2>5. \A i \in DOMAIN toServer' : toServer'[i].turn = 0 /\ toServer'[i].id < nextID
    BY <1>6, <1>8 DEF Starts
  <2>6. Starts'
    BY <1>3, <1>4, <1>8, <2>1, <2>3, <2>4, <2>5 DEF Starts
  <2>7. Between' /\ Open'
    BY <1>3, <1>8 DEF Between, Open, Startup, Stages
  <2> QED BY <2>2, <2>6, <2>7
<1>9. CASE call = "turn"
  <2>1. Unserved /\ m.turn = asked /\ m.id = Awaited
    BY <1>5, <1>9 DEF Open, Serving, Served
  <2>2. toServer' = <<>> /\ Awaited \in Nat \ {0} /\ Awaited < nextID
    <3>1. Len(toServer') = 0
      BY <1>5, <2>1 DEF Unserved
    <3> QED BY <1>3, <1>5, <1>9, <3>1, Numbers DEF Stages
  <2>3. ASSUME NEW i \in DOMAIN toClient
        PROVE  /\ ~Own(toClient[i], asked)
               /\ ~(toClient[i].method = "none" /\ toClient[i].id = Awaited)
               /\ toClient[i].method \notin {"completed", "approval"}
    <3>1. Silent(toClient[i], Awaited - 1)
      BY <2>1 DEF Unserved, Plain
    <3> QED BY <2>2, <3>1 DEF Silent, Own
  <2>4. Serving'
    BY <1>3, <1>4, <2>1, <2>2, <2>3 DEF Serving
  <2>5. Open'
    BY <1>3, <1>9, <2>2, <2>4 DEF Open
  <2>6. Stages'
    BY <1>3, <1>4, <1>7, <2>1, <2>2 DEF Stages
  <2> QED BY <1>3, <1>9, <2>5, <2>6 DEF Starts, Between, Startup
<1>10. CASE call \in {"free", "settle"}
  <2>1. failed /\ call = "free"
    BY <1>3, <1>5, <1>10 DEF Between, Served, Stages
  <2>2. /\ m.turn = Len(results) /\ m.id < nextID
        /\ \A i \in DOMAIN toServer' : toServer'[i].turn = Len(results) /\ toServer'[i].id < nextID
    BY <1>3, <1>5, <1>6, <1>10, <2>1 DEF Between
  <2>3. Stages'
    BY <1>3, <1>4, <1>7, <2>2 DEF Stages
  <2>4. Between'
    BY <1>3, <1>4, <2>1, <2>2 DEF Between
  <2> QED BY <1>3, <1>10, <2>3, <2>4 DEF Starts, Open, Startup
<1> QED BY <1>3, <1>8, <1>9, <1>10

\* A response is of the request that was read, and names the turn it starts.
LEMMA RespondFits ==
    ASSUME SessionInv, Respond
    PROVE  Fitting'
<1> USE DEF SessionInv, Fitting
<1>1. PICK n \in {server.turn, 0}, ok \in BOOLEAN :
        /\ toClient' = toClient \o <<Response(server.owed, n, ok)>>
        /\ server'.turn = n /\ server'.owed = 0
        /\ \/ server'.phase = "serving" /\ n = 0
           \/ server'.phase = server.phase /\ n = server.turn
  <2>1. CASE /\ Says(<<Response(server.owed, server.turn, TRUE)>>)
             /\ server' = [server EXCEPT !.owed = 0]
    BY <2>1 DEF Says, TypeOK, Servers
  <2>2. CASE /\ Says(<<Response(server.owed, 0, FALSE)>>)
             /\ server' = [Idle EXCEPT !.phase = "serving"]
    BY <2>2 DEF Says, Idle
  <2> QED BY <2>1, <2>2 DEF Respond
<1> DEFINE m == Response(server.owed, n, ok)
<1>2. /\ Serves /\ server.owed # 0 /\ UNCHANGED <<clientVars, toServer>>
      /\ toClient' = toClient \o <<m>>
      /\ m.method = "none" /\ m.id = server.owed /\ m.turn = n
  BY <1>1 DEF Respond, Response, Message
<1> HIDE DEF m
<1>3. /\ asked' = asked /\ Awaited' = Awaited /\ failed' = failed /\ Live' = Live /\ Live
      /\ UNCHANGED <<call, session, results, turn, nextID>>
      /\ call \in Startup \cup {"free", "turn", "settle"}
      /\ call \in {"free", "turn", "settle"} => session = "up"
  BY <1>2, ClientFacts, ServesFacts
<1>4. /\ Silent(m, Awaited) /\ ~Own(m, asked) /\ ~Strange(m)
      /\ server.owed < Awaited => Silent(m, Awaited - 1)
      /\ server.owed \in Nat \ {0} /\ server.owed <= Awaited
  BY <1>2, Numbers DEF Silent, Own, Strange, Stages
<1>5. /\ Plain(toClient, Awaited) => Plain(toClient', Awaited)
      /\ server.owed < Awaited /\ Plain(toClient, Awaited - 1) => Plain(toClient', Awaited - 1)
  BY <1>2, <1>4, Numbers, PlainLonger
<1>6. Stages'
  BY <1>1, <1>2, <1>3, Numbers DEF Stages
<1>7. CASE call \in Startup
  <2>1. Starts'
    BY <1>1, <1>2, <1>3, <1>4, <1>5, <1>7, Numbers DEF Starts
  <2> QED BY <1>3, <1>6, <1>7, <2>1 DEF Between, Open, Startup, Stages
<1>8. CASE call \in {"free", "settle"}
  <2>1. Between'
    BY <1>1, <1>2, <1>3, <1>5, <1>8 DEF Between, Served
  <2> QED BY <1>3, <1>6, <1>8, <2>1 DEF Starts, Open, Startup
<1>9. CASE call = "turn"
  <2>1. FramesFit(toClient', asked', Awaited', turn'.turn)
    <3>1. FramesFit(toClient, asked, Awaited, turn.turn) /\ Fits(m, asked, Awaited)
      BY <1>4, <1>9 DEF Open, Fits
    <3>2. FramesFit(toClient', asked, Awaited, turn.turn)
      BY <1>2, <1>4, <3>1, Numbers, LongerFits
    <3> QED BY <1>3, <3>2
  <2>2. Unserved' \/ Serving' \/ Served'
    <3>2. CASE Unserved
      BY <1>1, <1>2, <1>3, <1>4, <1>5, <3>2, Numbers DEF Unserved
    <3>3. CASE Serving
      <4>1. CASE n = 0 /\ server'.phase = "serving"
        BY <1>1, <1>2, <3>3, <4>1 DEF Serving, Served
      <4>2. CASE n = server.turn /\ server'.phase = server.phase
        <5>1. server.owed = Awaited /\ n = asked
          BY <1>2, <3>3, <4>2 DEF Serving
        <5>2. \E i \in DOMAIN toClient' : Names(toClient'[i], asked, Awaited)
          BY <1>2, <5>1, Numbers, LongerAt DEF Names
        <5>3. ASSUME NEW i \in DOMAIN toClient'
              PROVE  /\ ~Own(toClient'[i], asked)
                     /\ toClient'[i].method = "none" /\ toClient'[i].id = Awaited =>
                           toClient'[i].turn = asked
                     /\ server.phase = "serving" => toClient'[i].method # "approval"
          <6>1. toClient'[i] = m \/ \E j \in DOMAIN toClient : toClient'[i] = toClient[j]
            BY <1>2, Numbers, LongerAt
          <6> QED BY <1>2, <1>4, <3>3, <5>1, <6>1 DEF Serving
        <5>4. Serving'
          BY <1>1, <1>2, <1>3, <3>3, <4>2, <5>1, <5>2, <5>3 DEF Serving
        <5> QED BY <5>4
      <4> QED BY <1>1, <4>1, <4>2
    <3>4. CASE Served
      BY <1>1, <1>2, <3>4 DEF Served
    <3> QED BY <1>9, <3>2, <3>3, <3>4 DEF Open
  <2>3. Open'
    BY <1>2, <1>3, <1>9, <2>1, <2>2 DEF Open
  <2> QED BY <1>3, <1>6, <1>9, <2>3 DEF Starts, Between, Startup
<1> QED BY <1>3, <1>7, <1>8, <1>9

\* A turn is worked on for the caller that waits for it, or gave it up.
LEMMA WorkingFacts ==
    ASSUME SessionInv, Serves, server.turn # 0
    PROVE  /\ session = "up" /\ Live
           /\ \/ call = "free" /\ failed /\ server.turn = Len(results)
              \/ /\ call = "turn" /\ Serving /\ asked \in 1..MaxTurns
                 /\ Awaited \in Nat \ {0}
<1> USE DEF SessionInv, Fitting
<1>1. /\ Live /\ call \in Startup \cup {"free", "turn", "settle"}
      /\ call \in {"free", "turn", "settle"} => session = "up"
  BY ServesFacts
<1>2. call \notin Startup
  BY DEF Starts
<1>3. call = "turn" => Serving
  BY DEF Open, Unserved, Served
<1>4. call # "turn" => failed /\ call = "free"
  BY <1>1, <1>2 DEF Between, Served, Stages
<1>5. call = "free" => server.turn = Len(results)
  BY <1>1, <1>4 DEF Between
<1> QED BY <1>1, <1>2, <1>3, <1>4, <1>5, Numbers DEF Stages

\* A step of an app-server that works on a turn: the turn is worked on, or it
\* is ended.
LEMMA WorkFits ==
    ASSUME SessionInv, Serves, server.turn # 0, UNCHANGED <<clientVars, toServer>>,
           server'.owed = server.owed,
           server'.turn \in {0, server.turn}, server'.phase \in {server.phase, "waiting"},
           server'.phase = "waiting" => server'.turn # 0,
           call = "turn" => FramesFit(toClient', asked, Awaited, turn.turn),
           call = "turn" => Serving' \/ server'.turn = 0
    PROVE  Fitting'
<1> USE DEF SessionInv, Fitting
<1>1. /\ asked' = asked /\ Awaited' = Awaited /\ failed' = failed /\ Live' = Live /\ Live
      /\ UNCHANGED <<call, session, results, turn, nextID, toServer>>
      /\ call \in {"free", "turn"} /\ session = "up"
  BY ClientFacts, WorkingFacts
<1>2. Stages'
  BY <1>1 DEF Stages
<1>3. call = "free" => failed
  BY WorkingFacts
<1>4. Between'
  BY <1>1, <1>3 DEF Between
<1>5. Open'
  <2> SUFFICES ASSUME call = "turn" PROVE Open'
    BY <1>1 DEF Open
  <2>1. FramesFit(toClient', asked', Awaited', turn'.turn)
    BY <1>1
  <2>2. Serving' \/ Served'
    BY <1>1, WorkingFacts DEF Serving, Served
  <2> QED BY <1>1, <2>1, <2>2 DEF Open
<1> QED BY <1>1, <1>2, <1>4, <1>5 DEF Starts, Startup

\* What the app-server writes while it works keeps it working.
LEMMA ServingOn ==
    ASSUME SessionInv, Serving, call = "turn", UNCHANGED <<clientVars, toServer>>,
           server'.owed = server.owed, server'.turn = server.turn,
           server'.phase \in {server.phase, "waiting"},
           toClient' \in Seq(Messages),
           \A i \in DOMAIN toClient : i \in DOMAIN toClient' /\ toClient'[i] = toClient[i],
           \A i \in DOMAIN toClient' : i \in DOMAIN toClient \/
              /\ ~Own(toClient'[i], asked) /\ toClient'[i].method # "none"
              /\ server.owed # 0 => toClient'[i].method # "completed"
              /\ server'.phase = "serving" => toClient'[i].method # "approval"
    PROVE  Serving'
<1>1. asked' = asked /\ Awaited' = Awaited /\ UNCHANGED turn
  BY ClientFacts
<1>2. server'.phase = "serving" => server.phase = "serving"
  OBVIOUS
<1>3. ASSUME NEW i \in DOMAIN toClient'
      PROVE  /\ ~Own(toClient'[i], asked)
             /\ toClient'[i].method = "none" /\ toClient'[i].id = Awaited =>
                   toClient'[i].turn = asked /\ server.owed = 0
             /\ server.owed # 0 => toClient'[i].method # "completed"
             /\ server'.phase = "serving" => toClient'[i].method # "approval"
  BY <1>2 DEF Serving
<1>4. server.owed = 0 /\ server'.phase = "serving" =>
          turn.turn = asked \/ \E i \in DOMAIN toClient' : Names(toClient'[i], asked, Awaited)
  BY <1>2 DEF Serving
<1> QED BY <1>1, <1>3, <1>4 DEF Serving

LEMMA OneMore ==
    ASSUME NEW frames \in Seq(Messages), NEW m \in Messages, NEW longer,
           longer = frames \o <<m>>
    PROVE  /\ longer \in Seq(Messages)
           /\ \A i \in DOMAIN longer : i \in DOMAIN frames \/ longer[i] = m
           /\ \A i \in DOMAIN frames : i \in DOMAIN longer /\ longer[i] = frames[i]
<1>1. longer \in Seq(Messages)
  BY OneTyped, ConcatTyped
<1>2. \A i \in DOMAIN longer : i \in DOMAIN frames \/ longer[i] = m
  BY LongerAt
<1>3. \A i \in DOMAIN frames : i \in DOMAIN longer /\ longer[i] = frames[i]
  BY LongerAt
<1> QED BY <1>1, <1>2, <1>3

\* A message: the delta of its text, and the item unless all is said in deltas.
LEMMA SpeakWrites ==
    ASSUME SessionInv, Speak, call = "turn"
    PROVE  \E part \in {"commentary", "final"} \ server.said, delta \in Messages,
              item \in Messages, first \in Seq(Messages) :
             /\ delta.method = "delta" /\ delta.id = 0 /\ delta.text = Text(asked, part)
             /\ item.method = "item" /\ item.id = 0 /\ item.text = Text(asked, part)
             /\ first = toClient \o <<delta>>
             /\ \/ toClient' = first /\ part = "final" /\ server.said = {}
                \/ toClient' = first \o <<item>>
             /\ server'.said = server.said \cup {part}
<1>1. PICK part \in {"commentary", "final"} \ server.said, whole \in BOOLEAN :
        LET text == <<[turn |-> server.turn, part |-> part]>>
        IN  /\ whole \/ (part = "final" /\ server.said = {})
            /\ Says(<<Notification("delta", server.turn, text, TRUE)>> \o
                    IF whole THEN <<Notification("item", server.turn, text, TRUE)>>
                             ELSE <<>>)
            /\ server' = [server EXCEPT !.said = @ \cup {part}]
  BY DEF Speak
<1>2. Serves /\ server.turn # 0
  BY DEF Speak, Working
<1>3. server.turn = asked /\ asked \in 1..MaxTurns /\ toClient \in Seq(Messages)
  BY <1>2, WorkingFacts, Numbers DEF SessionInv, Serving
<1> DEFINE text  == Text(asked, part)
           delta == Notification("delta", asked, text, TRUE)
           item  == Notification("item", asked, text, TRUE)
           first == toClient \o <<delta>>
<1>4. text \in Seq(Parts)
  <2>1. [turn |-> asked, part |-> part] \in Parts
    BY <1>3 DEF Parts
  <2> QED BY <2>1, OneTyped DEF Text
<1>5. /\ delta \in Messages /\ delta.method = "delta" /\ delta.id = 0 /\ delta.text = text
      /\ item \in Messages /\ item.method = "item" /\ item.id = 0 /\ item.text = text
  <2>1. asked \in 0..MaxTurns + 1 /\ "delta" \in Methods /\ "item" \in Methods
    BY <1>3, TurnsAssumption DEF Methods
  <2> HIDE DEF text
  <2> QED BY <1>4, <2>1, MessageTyped DEF Notification, Message
<1>6. first \in Seq(Messages)
  <2>1. <<delta>> \in Seq(Messages)
    BY <1>5, OneTyped
  <2> HIDE DEF delta
  <2> QED BY <1>3, <2>1, ConcatTyped
<1>7. \/ toClient' = first /\ part = "final" /\ server.said = {}
      \/ toClient' = first \o <<item>>
  <2>1. CASE whole
    <3>1. toClient' = toClient \o (<<delta>> \o <<item>>)
      BY <1>1, <1>3, <2>1 DEF Says, Text
    <3>2. <<delta>> \in Seq(Messages) /\ <<item>> \in Seq(Messages)
      BY <1>5, OneTyped
    <3> HIDE DEF delta, item
    <3> QED BY <1>3, <3>1, <3>2, ConcatAssociative
  <2>2. CASE ~whole
    <3>1. toClient' = toClient \o (<<delta>> \o <<>>)
      BY <1>1, <1>3, <2>2 DEF Says, Text
    <3> HIDE DEF delta
    <3>2. <<delta>> \o <<>> = <<delta>>
      OBVIOUS
    <3> QED BY <1>1, <2>2, <3>1, <3>2
  <2> QED BY <2>1, <2>2
<1>8. server'.said = server.said \cup {part}
  BY <1>1 DEF SessionInv, TypeOK, Servers
<1>9. first = toClient \o <<delta>>
  OBVIOUS
<1> HIDE DEF text, delta, item, first
<1> QED BY <1>5, <1>6, <1>7, <1>8, <1>9 DEF text

LEMMA SpeakFits ==
    ASSUME SessionInv, Speak
    PROVE  Fitting'
<1>1. /\ Serves /\ server.turn # 0 /\ server.phase = "serving"
      /\ UNCHANGED <<clientVars, toServer>>
  BY DEF Speak, Working
<1>2. /\ server'.turn = server.turn /\ server'.owed = server.owed
      /\ server'.phase = server.phase
  BY DEF Speak, SessionInv, TypeOK, Servers
<1>3. SUFFICES ASSUME call = "turn"
               PROVE  FramesFit(toClient', asked, Awaited, turn.turn) /\ Serving'
  BY <1>1, <1>2, WorkFits
<1>4. /\ Serving /\ asked \in 1..MaxTurns
      /\ toClient \in Seq(Messages) /\ FramesFit(toClient, asked, Awaited, turn.turn)
      /\ \A i \in DOMAIN toClient : ~Own(toClient[i], asked)
  BY <1>1, <1>3, WorkingFacts, Numbers DEF SessionInv, Fitting, Open, Serving
<1>5. PICK part \in {"commentary", "final"} \ server.said, delta \in Messages,
           item \in Messages, first \in Seq(Messages) :
        /\ delta.method = "delta" /\ delta.id = 0 /\ delta.text = Text(asked, part)
        /\ item.method = "item" /\ item.id = 0 /\ item.text = Text(asked, part)
        /\ first = toClient \o <<delta>>
        /\ \/ toClient' = first /\ part = "final" /\ server.said = {}
           \/ toClient' = first \o <<item>>
        /\ server'.said = server.said \cup {part}
  BY <1>3, SpeakWrites
<1>6. \A m \in {delta, item} : /\ Fits(m, asked, Awaited) /\ ~Own(m, asked) /\ ~Strange(m)
                               /\ m.method \notin {"none", "completed", "approval"}
  BY <1>5 DEF Fits, Own, Strange, Texts
<1>7. /\ FramesFit(first, asked, Awaited, turn.turn)
      /\ \A i \in DOMAIN first : ~Own(first[i], asked)
      /\ \A i \in DOMAIN first : i \in DOMAIN toClient \/ first[i] = delta
      /\ \A i \in DOMAIN toClient : i \in DOMAIN first /\ first[i] = toClient[i]
  <2>1. FramesFit(first, asked, Awaited, turn.turn)
    BY <1>4, <1>5, <1>6, LongerFits
  <2>2. toClient \in Seq(Messages) /\ first = toClient \o <<delta>>
    BY <1>4, <1>5
  <2>3. \A i \in DOMAIN first : i \in DOMAIN toClient \/ first[i] = delta
    BY <2>2, LongerAt
  <2>4. \A i \in DOMAIN toClient : i \in DOMAIN first /\ first[i] = toClient[i]
    BY <2>2, LongerAt
  <2> QED BY <1>4, <1>6, <2>1, <2>3, <2>4
<1>8. CASE toClient' = first
  <2>1. \A i \in DOMAIN toClient' : i \in DOMAIN toClient \/
           /\ ~Own(toClient'[i], asked) /\ toClient'[i].method # "none"
           /\ server.owed # 0 => toClient'[i].method # "completed"
           /\ server'.phase = "serving" => toClient'[i].method # "approval"
    BY <1>6, <1>7, <1>8
  <2>2. toClient' \in Seq(Messages)
    BY <1>8
  <2>3. \A i \in DOMAIN toClient : i \in DOMAIN toClient' /\ toClient'[i] = toClient[i]
    BY <1>7, <1>8
  <2>4. Serving'
    BY <1>1, <1>2, <1>3, <1>4, <2>1, <2>2, <2>3, ServingOn
  <2> QED BY <1>7, <1>8, <2>4
<1>9. CASE toClient' = first \o <<item>>
  <2>1. FramesFit(toClient', asked, Awaited, turn.turn)
    BY <1>4, <1>5, <1>6, <1>7, <1>9, LongerFits
  <2>2. /\ toClient' \in Seq(Messages)
        /\ \A i \in DOMAIN toClient' : i \in DOMAIN first \/ toClient'[i] = item
        /\ \A i \in DOMAIN first : i \in DOMAIN toClient' /\ toClient'[i] = first[i]
    BY <1>5, <1>9, OneMore
  <2>3. \A i \in DOMAIN toClient' : i \in DOMAIN toClient \/
           /\ ~Own(toClient'[i], asked) /\ toClient'[i].method # "none"
           /\ server.owed # 0 => toClient'[i].method # "completed"
           /\ server'.phase = "serving" => toClient'[i].method # "approval"
    BY <1>6, <1>7, <2>2
  <2>4. \A i \in DOMAIN toClient : i \in DOMAIN toClient' /\ toClient'[i] = toClient[i]
    BY <1>7, <2>2
  <2>5. Serving'
    BY <1>1, <1>2, <1>3, <1>4, <2>2, <2>3, <2>4, ServingOn
  <2> QED BY <2>1, <2>5
<1> QED BY <1>5, <1>8, <1>9

LEMMA CompleteFits ==
    ASSUME SessionInv, Complete
    PROVE  Fitting'
<1>1. PICK ok \in BOOLEAN :
        toClient' = toClient \o <<Notification("completed", server.turn, <<>>, ok)>>
  <2>1. FALSE \in BOOLEAN /\ TRUE \in BOOLEAN /\ ("final" \in server.said) \in BOOLEAN
    OBVIOUS
  <2> QED BY <2>1 DEF Complete, Says
<1>2. /\ Serves /\ server.turn # 0 /\ server.phase = "serving"
      /\ UNCHANGED <<clientVars, toServer>>
      /\ server' = [server EXCEPT !.turn = 0, !.said = {}]
  BY DEF Complete, Working
<1>3. /\ server'.turn = 0 /\ server'.owed = server.owed /\ server'.phase = server.phase
  BY <1>2 DEF SessionInv, TypeOK, Servers
<1>4. SUFFICES ASSUME call = "turn"
               PROVE  FramesFit(toClient', asked, Awaited, turn.turn)
  BY <1>2, <1>3, WorkFits
<1>5. /\ Serving /\ asked \in 1..MaxTurns /\ server.turn = asked
      /\ toClient \in Seq(Messages) /\ FramesFit(toClient, asked, Awaited, turn.turn)
      /\ \A i \in DOMAIN toClient : ~Own(toClient[i], asked)
  BY <1>2, <1>4, WorkingFacts, Numbers DEF SessionInv, Fitting, Open, Serving
<1> DEFINE m == Notification("completed", asked, <<>>, ok)
<1>6. m.method = "completed" /\ m.turn = asked /\ m.id = 0 /\ toClient' = toClient \o <<m>>
  BY <1>1, <1>5 DEF Notification, Message
<1> HIDE DEF m
<1>7. Fits(m, asked, Awaited) /\ ~Strange(m)
  BY <1>5, <1>6, TurnsAssumption DEF Fits, Strange
<1> QED BY <1>5, <1>6, <1>7, LongerFits

\* The app-server asks, and waits for the answer it never gets.
LEMMA RequestFits ==
    ASSUME SessionInv, Request
    PROVE  Fitting'
<1>1. PICK id \in 1..nextID : toClient' = toClient \o <<Message(id, "approval", 0, <<>>, TRUE)>>
  BY DEF Request, Unasked, Says
<1>2. /\ Serves /\ server.turn # 0 /\ server.phase = "serving"
      /\ UNCHANGED <<clientVars, toServer>>
      /\ server' = [server EXCEPT !.phase = "waiting"]
  BY DEF Request, Unasked, Working
<1>3. server'.turn = server.turn /\ server'.owed = server.owed /\ server'.phase = "waiting"
  BY <1>2 DEF SessionInv, TypeOK, Servers
<1>4. SUFFICES ASSUME call = "turn"
               PROVE  FramesFit(toClient', asked, Awaited, turn.turn) /\ Serving'
  BY <1>2, <1>3, WorkFits
<1>5. /\ Serving /\ asked \in 1..MaxTurns /\ server.turn = asked
      /\ toClient \in Seq(Messages) /\ FramesFit(toClient, asked, Awaited, turn.turn)
      /\ \A i \in DOMAIN toClient : ~Own(toClient[i], asked)
  BY <1>2, <1>4, WorkingFacts, Numbers DEF SessionInv, Fitting, Open, Serving
<1> DEFINE m == Message(id, "approval", 0, <<>>, TRUE)
<1>6. m.method = "approval" /\ toClient' = toClient \o <<m>> /\ m \in Messages
  <2>1. id \in Nat /\ 0 \in 0..MaxTurns + 1 /\ "approval" \in Methods /\ <<>> \in Seq(Parts)
    BY TurnsAssumption DEF Methods
  <2> QED BY <1>1, <2>1, MessageTyped DEF Message
<1> HIDE DEF m
<1>7. Fits(m, asked, Awaited) /\ ~Strange(m) /\ ~Own(m, asked)
  BY <1>6 DEF Fits, Strange, Own
<1>8. FramesFit(toClient', asked, Awaited, turn.turn)
  BY <1>5, <1>6, <1>7, LongerFits
<1>9. toClient' \in Seq(Messages)
  BY <1>5, <1>6, OneTyped, ConcatTyped
<1>10. \A i \in DOMAIN toClient : i \in DOMAIN toClient' /\ toClient'[i] = toClient[i]
  BY <1>5, <1>6, LongerAt
<1>11. \A i \in DOMAIN toClient' : i \in DOMAIN toClient \/ toClient'[i] = m
  BY <1>5, <1>6, LongerAt
<1>12. Serving'
  BY <1>2, <1>3, <1>4, <1>5, <1>6, <1>7, <1>9, <1>10, <1>11, ServingOn
<1> QED BY <1>8, <1>12

\* A completion of a turn of its own comes when this one's has been named.
LEMMA StrangeFits ==
    ASSUME SessionInv, Serves, server.phase = "serving", UNCHANGED <<clientVars, toServer, server>>,
           server.turn # 0, server.owed = 0,
           Says(<<Notification("completed", MaxTurns + 1, <<>>, TRUE)>>)
    PROVE  Fitting'
<1>4. SUFFICES ASSUME call = "turn"
               PROVE  FramesFit(toClient', asked, Awaited, turn.turn) /\ Serving'
  BY WorkFits
<1>5. /\ Serving /\ asked \in 1..MaxTurns /\ server.turn = asked
      /\ toClient \in Seq(Messages) /\ FramesFit(toClient, asked, Awaited, turn.turn)
      /\ Awaited \in Nat \ {0}
  BY <1>4, WorkingFacts, Numbers DEF SessionInv, Fitting, Open, Serving
<1> DEFINE m == Notification("completed", MaxTurns + 1, <<>>, TRUE)
<1>6. /\ m.method = "completed" /\ m.id = 0 /\ m.turn = MaxTurns + 1
      /\ toClient' = toClient \o <<m>> /\ m \in Messages
  <2>1. /\ 0 \in Nat /\ "completed" \in Methods /\ <<>> \in Seq(Parts)
        /\ MaxTurns + 1 \in 0..MaxTurns + 1
    BY TurnsAssumption DEF Methods
  <2> QED BY <2>1, MessageTyped DEF Notification, Message, Says
<1> HIDE DEF m
<1>7. Fits(m, asked, Awaited) /\ ~Own(m, asked)
  BY <1>5, <1>6, TurnsAssumption DEF Fits, Own
<1>8. turn.turn = asked \/ \E i \in DOMAIN toClient : Names(toClient[i], asked, Awaited)
  BY <1>5 DEF Serving
<1>9. \A i \in DOMAIN toClient : /\ ~Own(toClient[i], asked) /\ toClient[i].method # "approval"
                                 /\ toClient[i].id = Awaited => toClient[i].turn = asked
  <2> TAKE i \in DOMAIN toClient
  <2>1. ~Own(toClient[i], asked) /\ toClient[i].method # "approval"
    BY <1>5 DEF Serving
  <2>2. toClient[i].id = Awaited => toClient[i].method = "none"
    BY <1>5, <2>1 DEF FramesFit, Fits, Silent
  <2> QED BY <1>5, <2>1, <2>2 DEF Serving
<1>10. FramesFit(toClient', asked, Awaited, turn.turn)
  <2>1. \A i \in DOMAIN toClient : Own(toClient[i], asked) => Silent(m, Awaited)
    BY <1>9
  <2>2. Strange(m) =>
            /\ \A i \in DOMAIN toClient : /\ toClient[i].method # "approval"
                                          /\ toClient[i].id = Awaited => toClient[i].turn = asked
            /\ turn.turn = asked \/ \E i \in DOMAIN toClient : Names(toClient[i], asked, Awaited)
    BY <1>8, <1>9
  <2> QED BY <1>5, <1>6, <1>7, <2>1, <2>2, LongerFits
<1>11. /\ toClient' \in Seq(Messages)
       /\ \A i \in DOMAIN toClient' : i \in DOMAIN toClient \/ toClient'[i] = m
       /\ \A i \in DOMAIN toClient : i \in DOMAIN toClient' /\ toClient'[i] = toClient[i]
  BY <1>5, <1>6, OneMore
<1>12. Serving'
  BY <1>4, <1>5, <1>6, <1>7, <1>11, ServingOn
<1> QED BY <1>10, <1>12

LEMMA AsideFits ==
    ASSUME SessionInv, Aside
    PROVE  Fitting'
<1> USE DEF SessionInv, Fitting
<1>1. /\ Serves /\ server.phase = "serving" /\ UNCHANGED <<clientVars, toServer, server>>
      /\ \/ Says(<<Notification("notice", 0, <<>>, TRUE)>>)
         \/ /\ server.turn # 0 /\ server.owed = 0
            /\ Says(<<Notification("completed", MaxTurns + 1, <<>>, TRUE)>>)
  BY DEF Aside, Unasked
<1>2. CASE Says(<<Notification("notice", 0, <<>>, TRUE)>>)
  <2> DEFINE m == Notification("notice", 0, <<>>, TRUE)
  <2>1. m.method = "notice" /\ m.id = 0 /\ toClient' = toClient \o <<m>>
    BY <1>2 DEF Says, Notification, Message
  <2> HIDE DEF m
  <2>2. /\ asked' = asked /\ Awaited' = Awaited /\ failed' = failed /\ Live' = Live /\ Live
        /\ UNCHANGED <<call, session, results, turn, nextID>>
        /\ call \in Startup \cup {"free", "turn", "settle"}
        /\ call \in {"free", "turn", "settle"} => session = "up"
    BY <1>1, ClientFacts, ServesFacts
  <2>3. /\ \A a : Silent(m, a) /\ Fits(m, asked, Awaited) /\ ~Own(m, asked) /\ ~Strange(m)
        /\ toClient \in Seq(Messages)
    BY <2>1, Numbers DEF Silent, Fits, Own, Strange
  <2>4. \A a : Plain(toClient, a) => Plain(toClient', a)
    BY <2>1, <2>3, PlainLonger
  <2>5. Stages'
    BY <1>1, <2>2 DEF Stages
  <2>6. Starts' /\ Between'
    BY <1>1, <2>2, <2>4 DEF Starts, Between, Served
  <2>7. Open'
    <3> SUFFICES ASSUME call = "turn" PROVE Open'
      BY <2>2 DEF Open
    <3>1. FramesFit(toClient, asked, Awaited, turn.turn)
      BY DEF Open
    <3>2. FramesFit(toClient', asked, Awaited, turn.turn)
      BY <2>1, <2>3, <3>1, LongerFits
    <3>3. FramesFit(toClient', asked', Awaited', turn'.turn)
      BY <2>2, <3>2
    <3>4. Unserved => Unserved'
      BY <1>1, <2>2, <2>4 DEF Unserved
    <3>5. Serving => Serving'
      <4> SUFFICES ASSUME Serving PROVE Serving'
        OBVIOUS
      <4>1. \A i \in DOMAIN toClient' :
              toClient'[i] = m \/ (i \in DOMAIN toClient /\ toClient'[i] = toClient[i])
        BY <2>1, <2>3, LongerAt
      <4>2. \A i \in DOMAIN toClient : i \in DOMAIN toClient' /\ toClient'[i] = toClient[i]
        BY <2>1, <2>3, LongerAt
      <4>3. ASSUME NEW i \in DOMAIN toClient'
            PROVE  /\ ~Own(toClient'[i], asked)
                   /\ toClient'[i].method = "none" /\ toClient'[i].id = Awaited =>
                         toClient'[i].turn = asked /\ server.owed = 0
                   /\ server.owed # 0 => toClient'[i].method # "completed"
                   /\ server.phase = "serving" => toClient'[i].method # "approval"
        BY <2>1, <2>3, <4>1 DEF Serving
      <4>4. server.owed = 0 /\ server.phase = "serving" =>
              turn.turn = asked \/ \E i \in DOMAIN toClient' : Names(toClient'[i], asked, Awaited)
        BY <4>2 DEF Serving
      <4> QED BY <1>1, <2>2, <4>3, <4>4 DEF Serving
    <3>6. Served => Served'
      BY <1>1 DEF Served
    <3> QED BY <1>1, <2>2, <3>3, <3>4, <3>5, <3>6 DEF Open
  <2> QED BY <2>5, <2>6, <2>7
<1> QED BY <1>1, <1>2, StrangeFits

\* Edits and the announcement leave the frames alone, and so does a death; an
\* edit may also come from a codex exec that no session stands beside.
LEMMA OthersFit ==
    ASSUME SessionInv, Announce \/ Edit \/ Die
    PROVE  Fitting'
<1>1. CASE Announce
  <2>1. /\ Serves /\ server.phase = "starting" /\ UNCHANGED <<clientVars, toServer, toClient>>
        /\ server' = [server EXCEPT !.phase = "serving"]
    BY <1>1 DEF Announce, wires
  <2>2. server'.turn = server.turn /\ server'.owed = server.owed /\ server'.phase = "serving"
    BY <2>1 DEF SessionInv, TypeOK, Servers
  <2>3. call = "listen"
    BY <2>1 DEF SessionInv, Fitting, Stages
  <2> QED BY <2>1, <2>2, <2>3, QuietFits
<1>2. CASE Edit \/ Die
  <2>1. UNCHANGED <<call, session, nextID, turn, results, toServer, toClient, server>>
    BY <1>2 DEF Edit, Die, clientVars, wires
  <2> QED BY <2>1 DEF SessionInv, Fitting, Stages, Starts, Between, Open, Live, Awaited, asked,
             failed, Served, Unserved, Serving
<1> QED BY <1>1, <1>2

LEMMA InitFits == Init => Fitting
BY PlainEmpty DEF Init, Fitting, Stages, Starts, Between, Open, Live, Startup, Idle, failed

LEMMA NextFits == SessionInv /\ [Next]_vars => SessionInv'
<1> SUFFICES ASSUME SessionInv, [Next]_vars PROVE SessionInv'
  OBVIOUS
<1>1. SUFFICES Fitting'
  BY NextTyped, NextProcesses DEF SessionInv
<1>2. CASE UNCHANGED vars
  BY <1>2 DEF vars, SessionInv, Fitting, Stages, Starts, Between, Open, Live, Awaited, asked,
     failed, Served, Unserved, Serving, TypeOK, Processes, NothingRuns
<1>3. CASE Next
  <2>1. CASE Caller
    <3>1. CASE StartSession \/ StartFails \/ ReadListener \/ StartupFails \/ Close
      BY <3>1, SpawnFits
    <3>2. CASE Dial \/ Skip \/ Initialized \/ ThreadStarted
      BY <3>2, HandshakeFits
    <3>3. CASE ReadResponse \/ ReadText \/ ReadForeign
      BY <3>3, ReadsFit
    <3>4. CASE ReadRefusal \/ TurnBreaks \/ ReadCompleted \/ Settle \/ SettleFails
      BY <3>4, EndsFit
    <3>5. CASE StartExec \/ ExecReturns
      BY <3>5, ExecFits
    <3> QED BY <2>1, <3>1, <3>2, <3>3, <3>4, <3>5, AskFits DEF Caller
  <2>2. CASE ExecEnds \/ OrphanEnds
    BY <2>2, ExecFits
  <2> QED
    BY <1>2, <1>3, <2>1, <2>2, AcceptFits, RespondFits, SpeakFits, CompleteFits, RequestFits,
       AsideFits, OthersFit DEF Next
<1> QED BY <1>2, <1>3

LEMMA SessionAlways == Spec => []SessionInv
<1>1. Init => SessionInv
  BY InitTyped, InitProcesses, InitFits DEF SessionInv
<1> QED BY <1>1, NextFits, PTL DEF Spec
-----------------------------------------------------------------------------
(* The session implements one turn at a time.                              *)

\* A state of the caller, seen as one of the loop that asks for turns.
LEMMA StutterTurns ==
    ASSUME UNCHANGED <<results, editor>>,
           \/ UNCHANGED call
           \/ {call, call'} \subseteq {"turn", "settle", "exec"}
           \/ {call, call'} \cap {"turn", "settle", "exec", "done"} = {}
    PROVE  UNCHANGED Turns!turns
BY DEF Turns!turns, failed

LEMMA AsksTurn ==
    ASSUME Asks, call' \in {"turn", "settle", "exec"}, UNCHANGED <<results, editor>>
    PROVE  Turns!Ask
BY DEF Asks, Turns!Ask

LEMMA GivesUpTurn ==
    ASSUME TypeOK, call \in {"turn", "settle", "exec"}, Finish(Refusal), UNCHANGED editor
    PROVE  Turns!GiveUp
<1>1. failed'
  BY RefusalTyped, FinishFacts DEF Finish
<1> QED BY <1>1 DEF Turns!GiveUp, Finish

LEMMA AnswerTyped ==
    ASSUME TypeOK, call \in {"turn", "settle", "exec"}
    PROVE  Answer(asked) \in Seq(Parts) /\ Answer(asked) # Refusal
<1>1. [turn |-> asked, part |-> "final"] \in Parts
  BY Numbers DEF Parts
<1>2. <<[turn |-> asked, part |-> "final"]>> \in Seq(Parts)
  BY <1>1, OneTyped
<1> QED BY <1>2 DEF Answer, Refusal

LEMMA AnswersTurn ==
    ASSUME TypeOK, call \in {"turn", "settle", "exec"}, Finish(Answer(asked)), UNCHANGED editor
    PROVE  Turns!Reply
<1>1. ~failed'
  BY AnswerTyped, FinishFacts DEF Finish
<1> QED BY <1>1 DEF Turns!Reply, Finish, asked

\* The response a session turn is settled with is the answer written for it:
\* its text is of this turn alone, and only the final part can be decoded.
LEMMA DecodedAnswer ==
    ASSUME SessionInv, call = "settle", WellFormed(turn.text)
    PROVE  turn.text = Answer(asked)
<1>1. OfTurn(turn.text, asked) /\ turn.text \in Seq(Parts)
  BY DEF SessionInv, Fitting, Between, TypeOK
<1>2. /\ Len(turn.text) = 1 /\ 1 \in DOMAIN turn.text /\ turn.text[1].part = "final"
      /\ turn.text[1] \in Parts
  BY <1>1 DEF WellFormed
<1>3. turn.text[1].turn = asked
  BY <1>1, <1>2 DEF OfTurn
<1>4. turn.text[1] = [turn |-> asked, part |-> "final"]
  BY <1>2, <1>3 DEF Parts
<1>5. turn.text = <<turn.text[1]>>
  BY <1>1, <1>2
<1> QED BY <1>4, <1>5 DEF Answer

\* The workspace is edited for the turn that is open, or the last that was given
\* up: after the close of the session nothing works on a turn any more.
LEMMA EditsTurn ==
    ASSUME SessionInv, Edit
    PROVE  Turns!Edit
<1>1. UNCHANGED <<call, results>>
  BY DEF Edit, clientVars
<1>2. failed' <=> failed
  BY <1>1, FailedFacts
<1>3. CASE Working /\ editor' = server.turn
  <2>1. Serves /\ server.turn # 0
    BY <1>3 DEF Working
  <2>2. CASE call = "free" /\ failed /\ server.turn = Len(results)
    BY <1>1, <1>2, <1>3, <2>2 DEF Turns!Edit
  <2>3. CASE call = "turn" /\ Serving
    BY <1>1, <1>3, <2>3 DEF Turns!Edit, Serving, asked
  <2> QED BY <2>1, <2>2, <2>3, WorkingFacts
<1>4. CASE call = "exec" /\ editor' = asked
  BY <1>1, <1>4 DEF Turns!Edit, asked
<1> QED BY <1>3, <1>4 DEF Edit

LEMMA TurnsStep == SessionInv /\ [Next]_vars => [Turns!Next]_(Turns!turns)
<1> SUFFICES ASSUME SessionInv, [Next]_vars PROVE Turns!Next \/ UNCHANGED Turns!turns
  OBVIOUS
<1>0. TypeOK
  BY DEF SessionInv
<1>1. CASE UNCHANGED vars
  BY <1>1, StutterTurns DEF vars
<1>2. CASE StartSession \/ StartFails \/ ReadListener \/ Dial \/ Initialized
           \/ ThreadStarted \/ StartupFails
  <2>1. /\ UNCHANGED <<results, editor>>
        /\ {call, call'} \subseteq Startup \cup {"free"}
    BY <1>2 DEF StartSession, StartFails, ReadListener, Dial, Initialized, Accepted,
       ThreadStarted, StartupFails, Startup
  <2> QED BY <2>1, StutterTurns DEF Startup
<1>3. CASE Skip \/ ReadResponse \/ ReadText \/ ReadForeign
  <2>1. UNCHANGED <<call, results, editor>>
    BY <1>3 DEF Skip, ReadResponse, ReadText, ReadForeign, Takes, clientVars
  <2> QED BY <2>1, StutterTurns
<1>4. CASE Ask \/ StartExec
  <2>1. Asks /\ call' \in {"turn", "settle", "exec"} /\ UNCHANGED <<results, editor>>
    BY <1>4 DEF Ask, StartExec
  <2> QED BY <2>1, AsksTurn DEF Turns!Next
<1>5. CASE TurnBreaks \/ ReadRefusal \/ SettleFails
  <2>1. call \in {"turn", "settle"} /\ Finish(Refusal) /\ UNCHANGED editor
    BY <1>5 DEF TurnBreaks, ReadRefusal, Takes, SettleFails
  <2> QED BY <1>0, <2>1, GivesUpTurn DEF Turns!Next
<1>6. CASE ReadCompleted
  <2>1. call = "turn" /\ UNCHANGED editor
        /\ (Finish(Refusal) \/ (call' = "settle" /\ UNCHANGED results))
    BY <1>6 DEF ReadCompleted, Takes
  <2>2. CASE Finish(Refusal)
    BY <1>0, <2>1, <2>2, GivesUpTurn DEF Turns!Next
  <2>3. CASE call' = "settle" /\ UNCHANGED results
    BY <2>1, <2>3, StutterTurns
  <2> QED BY <2>1, <2>2, <2>3
<1>7. CASE Settle \/ ExecReturns
  <2>1. call \in {"settle", "exec"} /\ UNCHANGED editor
        /\ (Finish(Refusal) \/ Finish(Answer(asked)))
    BY <1>7, DecodedAnswer DEF Settle, ExecReturns
  <2> QED BY <1>0, <2>1, GivesUpTurn, AnswersTurn DEF Turns!Next
<1>8. CASE Close
  BY <1>8 DEF Close, Turns!Next, Turns!Close
<1>9. CASE ExecEnds \/ OrphanEnds \/ Announce \/ Accept \/ Respond \/ Speak \/ Complete
           \/ Request \/ Aside \/ Die
  <2>1. UNCHANGED <<call, results, editor>>
    BY <1>9 DEF ExecEnds, OrphanEnds, Announce, Accept, Respond, Speak, Complete, Request,
       Aside, Unasked, Die, clientVars
  <2> QED BY <2>1, StutterTurns
<1>10. CASE Edit
  BY <1>10, EditsTurn DEF Turns!Next
<1> QED BY <1>1, <1>2, <1>3, <1>4, <1>5, <1>6, <1>7, <1>8, <1>9, <1>10 DEF Next, Caller

\* For any number of turns and faults, the Codex session and codex exec implement
\* one turn at a time: a turn is answered by the final text written for it or not
\* at all, none follows one that failed, and the workspace is edited only on behalf
\* of the turn that is open or was given up last, never after the close (the loop
\* of builder.go over RunTurn and Repair; Close before the build returns).
THEOREM TurnsImplemented == Spec => ImplementsTurns
<1>1. Init => Turns!Init
  BY DEF Init, Turns!Init, failed
<1> QED BY <1>1, SessionAlways, TurnsStep, PTL DEF Spec, ImplementsTurns, Turns!Spec
-----------------------------------------------------------------------------
(* A turn around which nothing went wrong.                                 *)

NoResponse(frames) == \A i \in DOMAIN frames : frames[i].method # "none"

\* The one response under way is to the request that is waited for, and what
\* carries an id is no error.
Answered(frames, a) ==
    \A i \in DOMAIN frames :
        /\ frames[i].id # 0 => frames[i].ok
        /\ frames[i].method = "none" =>
              /\ frames[i].id = a
              /\ \A j \in DOMAIN frames : j # i => frames[j].method # "none"

\* The one request is on its way, being served, or answered.
Outstanding ==
    /\ Answered(toClient, Awaited)
    /\ server.owed \in {0, Awaited}
    /\ server.owed # 0 => NoResponse(toClient)
    /\ \A i \in DOMAIN toServer : toServer[i].id # 0 =>
          /\ toServer[i].id = Awaited /\ server.owed = 0 /\ NoResponse(toClient)
          /\ \A j \in DOMAIN toServer : j # i => toServer[j].id = 0

Unspoken(text, deltas, frames) ==
    /\ text = <<>> /\ deltas = <<>>
    /\ \A i \in DOMAIN frames : frames[i].method \notin {"delta", "item"}

Without(method, frames) == \A i \in DOMAIN frames : frames[i].method # method

\* The final text has been read, or will be: as the last item, or as the only
\* delta of a turn without items.
Heard(text, deltas, frames, n) ==
    \/ text = Text(n, "final") /\ Without("item", frames)
    \/ \E i \in DOMAIN frames : frames[i].method = "item" /\ frames[i].text = Text(n, "final")
    \/ text = <<>> /\ deltas = Text(n, "final") /\ Without("item", frames)
                                                /\ Without("delta", frames)
    \/ /\ text = <<>> /\ deltas = <<>> /\ Without("item", frames)
       /\ \E i \in DOMAIN frames :
             /\ frames[i].method = "delta" /\ frames[i].text = Text(n, "final")
             /\ \A j \in DOMAIN frames : j # i => frames[j].method # "delta"

\* The final item is the last; the completion is a success, and after it comes
\* no response.
Ends(frames, n) ==
    \A i, j \in DOMAIN frames : i < j =>
        /\ frames[i].method = "item" /\ frames[j].method = "item" =>
              frames[i].text = Text(n, "commentary")
        /\ Own(frames[i], n) => frames[j].method # "none"

Successes(frames, n) == \A i \in DOMAIN frames : Own(frames[i], n) => frames[i].ok

Telling ==
    /\ Ends(toClient, asked) /\ Successes(toClient, asked)
    /\ Unserved \/ (Serving /\ server.said = {}) => Unspoken(turn.text, turn.deltas, toClient)
    /\ Serving /\ "final" \notin server.said =>
          \A i \in DOMAIN toClient :
              toClient[i].method = "item" => toClient[i].text = Text(asked, "commentary")
    /\ Served \/ (Serving /\ "final" \in server.said) =>
          Heard(turn.text, turn.deltas, toClient, asked)
    /\ Served => server.owed = 0

Well ==
    /\ ~failed
    /\ Live => process = "running"
    /\ call \in {"listen", "dial", "free", "settle"} => server.owed = 0 /\ NoResponse(toClient)
    /\ call \in {"initialize", "thread", "turn"} => Outstanding
    /\ call = "turn" => Telling
    /\ call = "settle" => turn.text = Text(asked, "final")

Blameless == causes = {} => Well
\* Frames are read.
LEMMA AnswersRest ==
    ASSUME NEW a, NEW frames \in Seq(Messages), Answered(frames, a),
           NEW m \in First(frames), NEW rest, rest = Tail(frames)
    PROVE  /\ Answered(rest, a)
           /\ m.method = "none" => NoResponse(rest)
<1>1. /\ 1 \in DOMAIN frames /\ frames[1] = m
      /\ \A i \in DOMAIN rest : i \in Nat \ {0} /\ i + 1 \in DOMAIN frames
                                /\ rest[i] = frames[i + 1]
  BY RestAt
<1>2. ASSUME NEW i \in DOMAIN rest
      PROVE  /\ rest[i].id # 0 => rest[i].ok
             /\ rest[i].method = "none" =>
                   rest[i].id = a /\ \A j \in DOMAIN rest : j # i => rest[j].method # "none"
  <2>1. i + 1 \in DOMAIN frames /\ rest[i] = frames[i + 1] /\ i \in Nat
    BY <1>1
  <2>2. ASSUME NEW j \in DOMAIN rest, j # i
        PROVE  j + 1 \in DOMAIN frames /\ rest[j] = frames[j + 1] /\ j + 1 # i + 1
    BY <1>1, <2>1, <2>2
  <2> QED BY <2>1, <2>2 DEF Answered
<1>3. ASSUME m.method = "none", NEW i \in DOMAIN rest PROVE rest[i].method # "none"
  <2>1. i + 1 \in DOMAIN frames /\ rest[i] = frames[i + 1] /\ i + 1 # 1
    BY <1>1
  <2> QED BY <1>1, <1>3, <2>1 DEF Answered
<1> QED BY <1>2, <1>3 DEF Answered, NoResponse

LEMMA NothingRest ==
    ASSUME NEW frames \in Seq(Messages), NoResponse(frames),
           NEW m \in First(frames), NEW rest, rest = Tail(frames)
    PROVE  NoResponse(rest) /\ m.method # "none"
<1>1. /\ 1 \in DOMAIN frames /\ frames[1] = m
      /\ \A i \in DOMAIN rest : i + 1 \in DOMAIN frames /\ rest[i] = frames[i + 1]
  BY RestAt
<1> QED BY <1>1 DEF NoResponse

LEMMA EndsRest ==
    ASSUME NEW n, NEW frames \in Seq(Messages), Ends(frames, n), Successes(frames, n),
           NEW m \in First(frames), NEW rest, rest = Tail(frames)
    PROVE  /\ Ends(rest, n) /\ Successes(rest, n)
           /\ Own(m, n) => m.ok /\ NoResponse(rest)
<1>1. /\ 1 \in DOMAIN frames /\ frames[1] = m
      /\ \A i \in DOMAIN rest : i \in Nat \ {0} /\ i + 1 \in DOMAIN frames
                                /\ rest[i] = frames[i + 1]
  BY RestAt
<1>2. Ends(rest, n)
  <2> SUFFICES ASSUME NEW i \in DOMAIN rest, NEW j \in DOMAIN rest, i < j
               PROVE  /\ rest[i].method = "item" /\ rest[j].method = "item" =>
                            rest[i].text = Text(n, "commentary")
                      /\ Own(rest[i], n) => rest[j].method # "none"
    BY DEF Ends
  <2>1. i + 1 \in DOMAIN frames /\ j + 1 \in DOMAIN frames /\ i + 1 < j + 1
        /\ rest[i] = frames[i + 1] /\ rest[j] = frames[j + 1]
    BY <1>1
  <2> QED BY <2>1 DEF Ends
<1>3. Successes(rest, n)
  BY <1>1 DEF Successes
<1>4. Own(m, n) => m.ok
  BY <1>1 DEF Successes
<1>5. ASSUME Own(m, n), NEW i \in DOMAIN rest PROVE rest[i].method # "none"
  <2>1. i + 1 \in DOMAIN frames /\ 1 < i + 1 /\ rest[i] = frames[i + 1]
    BY <1>1
  <2> QED BY <1>1, <1>5, <2>1 DEF Ends
<1> QED BY <1>2, <1>3, <1>4, <1>5 DEF NoResponse

\* A text that is read is kept, as RunTurn keeps it, until the final one.
LEMMA HeardRest ==
    ASSUME NEW n, NEW frames \in Seq(Messages), Ends(frames, n),
           NEW m \in First(frames), NEW rest, rest = Tail(frames),
           NEW text, NEW deltas, Heard(text, deltas, frames, n),
           NEW newText, m.method = "item" => newText = m.text,
                        m.method # "item" => newText = text,
           NEW newDeltas, m.method = "delta" => newDeltas = deltas \o m.text,
                          m.method # "delta" => newDeltas = deltas
    PROVE  Heard(newText, newDeltas, rest, n)
<1>1. /\ 1 \in DOMAIN frames /\ frames[1] = m
      /\ \A i \in DOMAIN rest : i \in Nat \ {0} /\ i + 1 \in DOMAIN frames
                                /\ rest[i] = frames[i + 1]
      /\ \A i \in DOMAIN frames : i # 1 => i - 1 \in DOMAIN rest
                                           /\ rest[i - 1] = frames[i]
      /\ DOMAIN frames \subseteq Nat \ {0}
  BY RestAt
<1>2. \A method : Without(method, frames) => Without(method, rest) /\ m.method # method
  BY <1>1 DEF Without
<1>3. CASE text = Text(n, "final") /\ Without("item", frames)
  BY <1>2, <1>3 DEF Heard
<1>4. CASE text = <<>> /\ deltas = Text(n, "final") /\ Without("item", frames)
           /\ Without("delta", frames)
  BY <1>2, <1>4 DEF Heard
<1>5. ASSUME NEW i \in DOMAIN frames, frames[i].method = "item",
             frames[i].text = Text(n, "final")
      PROVE  Heard(newText, newDeltas, rest, n)
  <2>1. CASE i = 1
    <3>1. newText = Text(n, "final")
      BY <1>1, <1>5, <2>1
    <3>2. ASSUME NEW j \in DOMAIN rest PROVE rest[j].method # "item"
      <4>1. j + 1 \in DOMAIN frames /\ 1 < j + 1 /\ rest[j] = frames[j + 1]
        BY <1>1
      <4>2. Text(n, "final") # Text(n, "commentary")
        BY DEF Text
      <4> QED BY <1>1, <1>5, <2>1, <4>1, <4>2 DEF Ends
    <3> QED BY <3>1, <3>2 DEF Heard, Without
  <2>2. CASE i # 1
    BY ZenonT(30), <1>1, <1>5, <2>2 DEF Heard
  <2> QED BY <2>1, <2>2
<1>6. ASSUME text = <<>>, deltas = <<>>, Without("item", frames),
             NEW i \in DOMAIN frames, frames[i].method = "delta",
             frames[i].text = Text(n, "final"),
             \A j \in DOMAIN frames : j # i => frames[j].method # "delta"
      PROVE  Heard(newText, newDeltas, rest, n)
  <2>0. newText = <<>> /\ Without("item", rest)
    BY <1>2, <1>6
  <2>1. CASE i = 1
    <3>1. newDeltas = Text(n, "final")
      <4>1. newDeltas = <<>> \o Text(n, "final")
        BY <1>1, <1>6, <2>1
      <4> QED BY <4>1 DEF Text
    <3>2. Without("delta", rest)
      BY <1>1, <1>6, <2>1 DEF Without
    <3> QED BY <2>0, <3>1, <3>2 DEF Heard
  <2>2. CASE i # 1
    <3>1. newDeltas = <<>>
      BY <1>1, <1>6, <2>2
    <3>2. /\ i - 1 \in DOMAIN rest /\ rest[i - 1].method = "delta"
          /\ rest[i - 1].text = Text(n, "final")
      BY <1>1, <1>6, <2>2
    <3>3. ASSUME NEW j \in DOMAIN rest, j # i - 1 PROVE rest[j].method # "delta"
      <4>1. j + 1 \in DOMAIN frames /\ j + 1 # i /\ rest[j] = frames[j + 1]
        BY <1>1, <3>3
      <4> QED BY <1>6, <4>1
    <3> QED BY <2>0, <3>1, <3>2, <3>3 DEF Heard
  <2> QED BY <2>1, <2>2
<1> QED BY <1>3, <1>4, <1>5, <1>6 DEF Heard

\* When the completion is read, the final text is what counts.
LEMMA HeardEnds ==
    ASSUME NEW n, NEW a, NEW frames \in Seq(Messages), NEW m \in First(frames), Own(m, n),
           \A i \in DOMAIN frames : i = 1 \/ Silent(frames[i], a),
           NEW text, NEW deltas, Heard(text, deltas, frames, n)
    PROVE  /\ text = <<>> => deltas = Text(n, "final")
           /\ text # <<>> => text = Text(n, "final")
<1>1. 1 \in DOMAIN frames /\ frames[1] = m
  BY FirstAt
<1>2. \A i \in DOMAIN frames : frames[i].method \notin {"item", "delta"}
  BY <1>1 DEF Own, Silent
<1>3. Text(n, "final") # <<>>
  BY DEF Text
<1> QED BY <1>2, <1>3 DEF Heard

\* Frames are written.
LEMMA AnswersLonger ==
    ASSUME NEW a, NEW frames \in Seq(Messages), Answered(frames, a), NEW m,
           m.id # 0 => m.ok, m.method = "none" => m.id = a /\ NoResponse(frames),
           NEW longer, longer = frames \o <<m>>
    PROVE  Answered(longer, a)
<1> DEFINE last == Len(frames) + 1
<1>1. /\ longer[last] = m /\ last \in Nat
      /\ \A i \in DOMAIN frames : longer[i] = frames[i] /\ i # last
      /\ \A i \in DOMAIN longer : i = last \/ i \in DOMAIN frames
  BY LongerAt
<1> HIDE DEF last
<1> QED BY <1>1 DEF Answered, NoResponse

LEMMA NothingLonger ==
    ASSUME NEW frames \in Seq(Messages), NoResponse(frames), NEW m, m.method # "none",
           NEW longer, longer = frames \o <<m>>
    PROVE  NoResponse(longer)
<1>1. \A i \in DOMAIN longer : longer[i] = m \/ \E j \in DOMAIN frames : longer[i] = frames[j]
  BY LongerAt
<1> QED BY <1>1 DEF NoResponse

LEMMA EndsLonger ==
    ASSUME NEW n, NEW frames \in Seq(Messages), Ends(frames, n), NEW m,
           \A i \in DOMAIN frames :
              /\ Own(frames[i], n) => m.method # "none"
              /\ frames[i].method = "item" /\ m.method = "item" =>
                    frames[i].text = Text(n, "commentary"),
           NEW longer, longer = frames \o <<m>>
    PROVE  Ends(longer, n)
<1> DEFINE last == Len(frames) + 1
<1>1. /\ longer[last] = m /\ last \in Nat
      /\ \A i \in DOMAIN frames : longer[i] = frames[i] /\ i < last /\ i \in Nat
      /\ \A i \in DOMAIN longer : i = last \/ i \in DOMAIN frames
  BY LongerAt
<1> HIDE DEF last
<1> SUFFICES ASSUME NEW i \in DOMAIN longer, NEW j \in DOMAIN longer, i < j
             PROVE  /\ longer[i].method = "item" /\ longer[j].method = "item" =>
                          longer[i].text = Text(n, "commentary")
                    /\ Own(longer[i], n) => longer[j].method # "none"
  BY DEF Ends
<1>2. i \in DOMAIN frames
  BY <1>1
<1>3. CASE j = last
  BY <1>1, <1>2, <1>3
<1>4. CASE j \in DOMAIN frames
  BY <1>1, <1>2, <1>4 DEF Ends
<1> QED BY <1>1, <1>3, <1>4

LEMMA SuccessLonger ==
    ASSUME NEW n, NEW frames \in Seq(Messages), Successes(frames, n), NEW m, Own(m, n) => m.ok,
           NEW longer, longer = frames \o <<m>>
    PROVE  Successes(longer, n)
<1>1. \A i \in DOMAIN longer : longer[i] = m \/ \E j \in DOMAIN frames : longer[i] = frames[j]
  BY LongerAt
<1> QED BY <1>1 DEF Successes

LEMMA HeardLonger ==
    ASSUME NEW n, NEW text, NEW deltas, NEW frames \in Seq(Messages),
           Heard(text, deltas, frames, n), NEW m, m.method \notin {"delta", "item"},
           NEW longer, longer = frames \o <<m>>
    PROVE  Heard(text, deltas, longer, n)
<1> DEFINE last == Len(frames) + 1
<1>1. /\ longer[last] = m
      /\ \A i \in DOMAIN frames : i \in DOMAIN longer /\ longer[i] = frames[i]
      /\ \A i \in DOMAIN longer : i = last \/ i \in DOMAIN frames
  BY LongerAt
<1> HIDE DEF last
<1>2. \A method \in {"delta", "item"} : Without(method, frames) => Without(method, longer)
  BY <1>1 DEF Without
<1> QED BY <1>1, <1>2 DEF Heard

LEMMA UnspokenLonger ==
    ASSUME NEW text, NEW deltas, NEW frames \in Seq(Messages),
           Unspoken(text, deltas, frames), NEW m, m.method \notin {"delta", "item"},
           NEW longer, longer = frames \o <<m>>
    PROVE  Unspoken(text, deltas, longer)
<1>1. \A i \in DOMAIN longer : longer[i] = m \/ \E j \in DOMAIN frames : longer[i] = frames[j]
  BY LongerAt
<1> QED BY <1>1 DEF Unspoken
LEMMA PlainWell ==
    ASSUME NEW a, NEW frames, Plain(frames, a), NoResponse(frames)
    PROVE  /\ \A b : Answered(frames, b)
           /\ \A n : Ends(frames, n) /\ Successes(frames, n)
           /\ \A i \in DOMAIN frames : frames[i].method = "notice"
<1>1. \A i \in DOMAIN frames : frames[i].method = "notice" /\ frames[i].id = 0
  BY DEF Plain, Silent, NoResponse
<1> QED BY <1>1 DEF Answered, Ends, Successes, Own

\* A fault is a cause.
LEMMA HappensCause ==
    ASSUME NEW kind, Happens(kind)
    PROVE  causes' # {}
BY DEF Happens

\* The session starts, is given up, or is closed.
LEMMA SpawnWell ==
    ASSUME SessionInv, Well, causes' = {},
           StartSession \/ StartFails \/ ReadListener \/ Announce \/ Close \/ Die \/ Edit
              \/ OrphanEnds
    PROVE  Well'
<1> USE DEF SessionInv, Fitting
<1>1. CASE StartSession
  <2>1. /\ call = "free" /\ session = "untried" /\ call' = "listen" /\ process' = "running"
        /\ server' = [Idle EXCEPT !.phase = "starting"] /\ UNCHANGED <<toClient, results>>
    BY <1>1 DEF StartSession, wires
  <2>2. toClient = <<>>
    BY <2>1 DEF Stages, Live, Startup
  <2>3. server'.owed = 0 /\ NoResponse(toClient') /\ ~failed'
    BY <2>1, <2>2, FailedFacts DEF Idle, NoResponse, Well
  <2> QED BY <2>1, <2>3 DEF Well
<1>2. CASE StartFails \/ Die
  BY <1>2, HappensCause DEF StartFails, Die
<1>3. CASE ReadListener
  <2>1. /\ call = "listen" /\ call' = "dial"
        /\ UNCHANGED <<session, process, toClient, server, results>>
    BY <1>3 DEF ReadListener, wires
  <2> QED BY <2>1, FailedFacts DEF Well, Live, Startup
<1>4. CASE Announce
  <2>1. /\ server.phase = "starting" /\ server' = [server EXCEPT !.phase = "serving"]
        /\ UNCHANGED <<call, session, process, toClient, results>>
    BY <1>4 DEF Announce, clientVars, wires
  <2>2. call = "listen" /\ server'.owed = server.owed
    BY <2>1 DEF Stages, TypeOK, Servers
  <2> QED BY <2>1, <2>2, FailedFacts DEF Well, Live, Startup
<1>5. CASE Close
  BY <1>5, FailedFacts DEF Close, Well, Live, Startup
<1>6. CASE Edit \/ OrphanEnds
  <2>1. UNCHANGED <<call, session, process, nextID, turn, results, toServer, toClient, server>>
    BY <1>6 DEF Edit, OrphanEnds, clientVars, wires
  <2> QED BY <2>1 DEF Well, Live, Outstanding, Telling, Awaited, asked, failed, Served,
             Unserved, Serving
<1> QED BY <1>1, <1>2, <1>3, <1>4, <1>5, <1>6

\* A start that fails leaves nothing behind that a turn of codex exec could meet.
LEMMA StartupWell ==
    ASSUME SessionInv, StartupFails
    PROVE  Well'
<1>1. /\ call \in Startup /\ call' = "free" /\ session' = "none" /\ UNCHANGED results
      /\ server' = Idle /\ toClient' = <<>>
  BY DEF StartupFails, Closed
<1>2. results = <<>>
  BY <1>1 DEF SessionInv, Fitting, Stages
<1>3. ~failed'
  BY <1>1, <1>2, FailedFacts
<1> QED BY <1>1, <1>3 DEF Well, Live, Startup, Idle, NoResponse

LEMMA ExecWell ==
    ASSUME SessionInv, Well, causes = {}, StartExec \/ ExecEnds \/ ExecReturns
    PROVE  Well'
<1> USE DEF SessionInv, Fitting
<1>1. CASE StartExec \/ ExecEnds
  <2>1. call' = "exec" /\ session' = "none" /\ UNCHANGED results
    BY <1>1 DEF StartExec, ExecEnds, clientVars, Stages
  <2> QED BY <2>1, FailedFacts DEF Well, Live, Startup
<1>2. CASE ExecReturns
  <2>1. /\ call = "exec" /\ call' = "free" /\ UNCHANGED <<session, toClient, server>>
        /\ Finish(Answer(asked))
    BY <1>2 DEF ExecReturns, Finish, wires
  <2>2. session = "none" /\ server.owed = 0 /\ toClient = <<>>
    BY <2>1 DEF Stages, Live, Startup, Idle
  <2>3. ~failed'
    BY <2>1, AnswerTyped, FinishFacts DEF Finish
  <2> QED BY <2>1, <2>2, <2>3 DEF Well, Live, Startup, NoResponse
<1> QED BY <1>1, <1>2

LEMMA HandshakeWell ==
    ASSUME SessionInv, Well, Dial \/ Skip \/ Initialized \/ ThreadStarted
    PROVE  Well'
<1> USE DEF SessionInv, Fitting
<1>1. CASE Dial
  <2> DEFINE m == Message(nextID, "initialize", 0, <<>>, TRUE)
  <2>1. /\ call = "dial" /\ call' = "initialize" /\ toServer' = Append(toServer, m)
        /\ nextID' = nextID + 1
        /\ UNCHANGED <<session, process, turn, results, toClient, server>>
    BY <1>1 DEF Dial, Send
  <2>2. /\ toServer = <<>> /\ Plain(toClient, Awaited) /\ server.owed = 0
        /\ NoResponse(toClient) /\ process = "running"
    BY <2>1 DEF Starts, Startup, Well, Live
  <2>3. toServer' = <<m>> /\ m.id = nextID /\ Awaited' = nextID
    BY <2>1, <2>2, Numbers DEF Message, Awaited
  <2> HIDE DEF m
  <2>4. Answered(toClient, Awaited')
    BY <2>2, PlainWell
  <2>5. Outstanding'
    BY <2>1, <2>2, <2>3, <2>4 DEF Outstanding
  <2> QED BY <2>1, <2>2, <2>5, FailedFacts DEF Well
<1>2. CASE Skip
  <2>1. PICK m \in First(toClient) : m.id # Awaited
    BY <1>2 DEF Skip
  <2>2. /\ call \in {"initialize", "thread"} /\ toClient' = Tail(toClient)
        /\ UNCHANGED <<call, session, process, turn, results, nextID, toServer, server>>
        /\ Awaited' = Awaited
    BY <1>2 DEF Skip, clientVars, Awaited
  <2>3. Outstanding /\ process = "running" /\ toClient \in Seq(Messages)
    BY <2>2, Numbers DEF Well, Live, Startup
  <2>4. Answered(toClient', Awaited)
    BY <2>1, <2>2, <2>3, AnswersRest DEF Outstanding
  <2>5. NoResponse(toClient) => NoResponse(toClient')
    BY <2>1, <2>2, <2>3, NothingRest
  <2>6. Outstanding'
    BY <2>2, <2>3, <2>4, <2>5 DEF Outstanding
  <2> QED BY <2>2, <2>3, <2>6, FailedFacts DEF Well
<1>3. ASSUME NEW at \in {"initialize", "thread"}, Accepted(at)
      PROVE  /\ call = at /\ toServer = <<>> /\ Plain(toClient', Awaited)
             /\ server.owed = 0 /\ NoResponse(toClient')
  <2>1. PICK m \in First(toClient) : m.id = Awaited
    BY <1>3 DEF Accepted
  <2>2. call = at /\ toServer = <<>> /\ Plain(toClient', Awaited) /\ toClient' = Tail(toClient)
    BY <1>3, AcceptedFacts DEF Accepted
  <2>3. /\ Outstanding /\ Plain(toClient, Awaited) /\ Awaited > 0
        /\ toClient \in Seq(Messages)
    BY <2>2, Numbers DEF Well, Starts, Startup, Stages
  <2>4. m.method = "none"
    <3>1. Silent(m, Awaited)
      BY <2>1, <2>3, PlainRest
    <3> QED BY <2>1, <2>3, <3>1 DEF Silent
  <2>5. NoResponse(toClient')
    BY <2>1, <2>2, <2>3, <2>4, AnswersRest DEF Outstanding
  <2>6. ~NoResponse(toClient)
    BY <2>1, <2>3, <2>4, NothingRest
  <2> QED BY <2>2, <2>3, <2>5, <2>6, Numbers DEF Outstanding
<1>4. CASE Initialized
  <2> DEFINE m1 == Notification("initialized", 0, <<>>, TRUE)
             m2 == Message(nextID, "thread/start", 0, <<>>, TRUE)
  <2>1. /\ Accepted("initialize") /\ call' = "thread"
        /\ toServer' = toServer \o <<m1, m2>>
        /\ nextID' = nextID + 1 /\ UNCHANGED <<session, process, turn, results, server>>
    BY <1>4 DEF Initialized
  <2>2. /\ call = "initialize" /\ toServer = <<>> /\ Plain(toClient', Awaited)
        /\ server.owed = 0 /\ NoResponse(toClient')
    BY <1>3, <2>1
  <2>3. /\ toServer' = <<m1, m2>> /\ Awaited' = nextID
        /\ m1.id = 0 /\ m2.id = nextID
    BY <2>1, <2>2, Numbers DEF Message, Notification, Awaited
  <2> HIDE DEF m1, m2
  <2>4. Answered(toClient', Awaited')
    BY <2>2, PlainWell
  <2>5. /\ DOMAIN toServer' = {1, 2} /\ toServer'[1] = m1 /\ toServer'[2] = m2
    BY <2>3
  <2>6. Outstanding'
    BY <2>1, <2>2, <2>3, <2>4, <2>5 DEF Outstanding
  <2>7. process' = "running"
    BY <2>1, <2>2 DEF Well, Live, Startup
  <2> QED BY <2>1, <2>6, <2>7, FailedFacts DEF Well
<1>5. CASE ThreadStarted
  <2>1. /\ Accepted("thread") /\ call' = "free" /\ UNCHANGED <<process, results, server>>
    BY <1>5 DEF ThreadStarted
  <2>2. call = "thread" /\ server.owed = 0 /\ NoResponse(toClient')
    BY <1>3, <2>1
  <2>3. process' = "running"
    BY <2>1, <2>2 DEF Well, Live, Startup
  <2> QED BY <2>1, <2>2, <2>3, FailedFacts DEF Well
<1> QED BY <1>1, <1>2, <1>4, <1>5

LEMMA AskWell ==
    ASSUME SessionInv, Well, Ask
    PROVE  Well'
<1> USE DEF SessionInv, Fitting
<1> DEFINE m == Message(nextID, "turn/start", asked, <<>>, TRUE)
<1>1. /\ call = "free" /\ session = "up" /\ ~failed
      /\ call' = "turn" /\ turn' = Quiet /\ toServer' = Append(toServer, m)
      /\ nextID' = nextID + 1 /\ UNCHANGED <<session, process, results, toClient, server>>
  BY DEF Ask, Asks, Send
<1>2. /\ server.turn = 0 /\ toServer = <<>> /\ Plain(toClient, Awaited)
      /\ server.owed = 0 /\ NoResponse(toClient) /\ process = "running"
  BY <1>1 DEF Between, Served, Well, Live
<1>3. toServer' = <<m>> /\ Awaited' = nextID /\ asked' = asked /\ ~failed' /\ m.id = nextID
  BY <1>1, <1>2, Numbers, FailedFacts DEF Message, Awaited
<1> HIDE DEF m
<1>4. /\ Answered(toClient, Awaited') /\ Ends(toClient, asked) /\ Successes(toClient, asked)
      /\ \A i \in DOMAIN toClient : toClient[i].method = "notice"
  BY <1>2, PlainWell
<1>5. Outstanding'
  BY <1>1, <1>2, <1>3, <1>4 DEF Outstanding
<1>6. Unspoken(turn'.text, turn'.deltas, toClient')
  BY <1>1, <1>4 DEF Unspoken, Quiet
<1>7. ~Serving' /\ ~Served'
  BY <1>3 DEF Serving, Served
<1>8. Telling'
  BY <1>1, <1>3, <1>4, <1>6, <1>7 DEF Telling
<1> QED BY <1>1, <1>2, <1>3, <1>5, <1>8 DEF Well

\* What a read finds while nothing went wrong.
LEMMA TakesWell ==
    ASSUME SessionInv, Well, NEW m, Takes(m)
    PROVE  /\ call = "turn" /\ m \in First(toClient) /\ toClient' = Tail(toClient)
           /\ toClient \in Seq(Messages) /\ Fits(m, asked, Awaited)
           /\ Awaited \in Nat \ {0} /\ Awaited' = Awaited
           /\ UNCHANGED <<session, process, toServer, server>> /\ process = "running"
           /\ Outstanding /\ Telling
           /\ Answered(toClient', Awaited)
           /\ NoResponse(toClient) => NoResponse(toClient')
           /\ Ends(toClient', asked) /\ Successes(toClient', asked)
           /\ Own(m, asked) => m.ok /\ NoResponse(toClient')
           /\ m.id = Awaited => m.ok
           /\ m.method = "none" => m.id = Awaited
<1>1. /\ call = "turn" /\ m \in First(toClient) /\ toClient' = Tail(toClient)
      /\ session = "up" /\ Awaited \in Nat \ {0} /\ Fits(m, asked, Awaited)
      /\ UNCHANGED <<session, process, toServer, server>> /\ Awaited' = Awaited
  BY TakesFits DEF Takes
<1>2. toClient \in Seq(Messages) /\ process = "running" /\ Outstanding /\ Telling
  BY <1>1, Numbers DEF SessionInv, Well, Live
<1>3. Answered(toClient', Awaited)
  BY <1>1, <1>2, AnswersRest DEF Outstanding
<1>4. NoResponse(toClient) => NoResponse(toClient')
  BY <1>1, <1>2, NothingRest
<1>5. /\ Ends(toClient', asked) /\ Successes(toClient', asked)
      /\ Own(m, asked) => m.ok /\ NoResponse(toClient')
  BY <1>1, <1>2, EndsRest DEF Telling
<1>6. 1 \in DOMAIN toClient /\ toClient[1] = m
  BY <1>1, <1>2, FirstAt
<1>7. (m.id = Awaited => m.ok) /\ (m.method = "none" => m.id = Awaited)
  BY <1>1, <1>2, <1>6 DEF Outstanding, Answered
<1> QED BY <1>1, <1>2, <1>3, <1>4, <1>5, <1>7

\* The stage of a turn shows in its request and in the turn that is served.
LEMMA SameStage ==
    ASSUME SessionInv, call = "turn", asked' = asked, UNCHANGED toServer,
           server'.turn = server.turn
    PROVE  (Unserved' => Unserved) /\ (Serving' => Serving) /\ (Served' => Served)
<1>1. Unserved \/ Serving \/ Served
  BY DEF SessionInv, Fitting, Open
<1>2. asked # 0 /\ Len(<<>>) # 1
  BY Numbers DEF SessionInv
<1>3. Served' => Served
  BY DEF Served
<1>4. Unserved' => server.turn = 0 /\ Len(toServer) = 1
  BY DEF Unserved
<1>5. Serving' => server.turn = asked /\ toServer = <<>>
  BY DEF Serving
<1>6. Unserved => server.turn = 0 /\ Len(toServer) = 1
  BY DEF Unserved
<1>7. Serving \/ Served => toServer = <<>>
  BY DEF Serving, Served
<1> QED BY <1>1, <1>2, <1>3, <1>4, <1>5, <1>6, <1>7 DEF Served

LEMMA ReadWell ==
    ASSUME SessionInv, Well, NEW m, Takes(m), UNCHANGED <<call, results>>,
           m.method = "item" => turn'.text = m.text,
           m.method # "item" => turn'.text = turn.text,
           m.method = "delta" => turn'.deltas = turn.deltas \o m.text,
           m.method # "delta" => turn'.deltas = turn.deltas
    PROVE  Well'
<1>1. /\ call = "turn" /\ m \in First(toClient) /\ toClient' = Tail(toClient)
      /\ toClient \in Seq(Messages)
      /\ UNCHANGED <<session, process, toServer, server>> /\ process = "running"
      /\ Awaited' = Awaited /\ asked' = asked /\ Outstanding /\ Telling
      /\ asked \in 1..MaxTurns /\ (failed' <=> failed)
  BY TakesWell, Numbers, FailedFacts DEF SessionInv
<1>2. /\ 1 \in DOMAIN toClient /\ toClient[1] = m
      /\ \A i \in DOMAIN toClient' : i + 1 \in DOMAIN toClient
                                     /\ toClient'[i] = toClient[i + 1]
  BY <1>1, RestAt
<1>3. Outstanding'
  BY <1>1, TakesWell DEF Outstanding
<1>4. (Unserved' => Unserved) /\ (Serving' => Serving) /\ (Served' => Served)
  BY <1>1, SameStage
<1>5. ASSUME Unserved \/ (Serving /\ server.said = {})
      PROVE  Unspoken(turn'.text, turn'.deltas, toClient')
  BY <1>1, <1>2, <1>5 DEF Telling, Unspoken
<1>6. ASSUME Served \/ (Serving /\ "final" \in server.said)
      PROVE  Heard(turn'.text, turn'.deltas, toClient', asked)
  <2>1. Heard(turn.text, turn.deltas, toClient, asked) /\ Ends(toClient, asked)
    BY <1>1, <1>6 DEF Telling
  <2> QED BY <1>1, <2>1, HeardRest
<1>7. ASSUME Serving, "final" \notin server.said
      PROVE  \A i \in DOMAIN toClient' : toClient'[i].method = "item" =>
                 toClient'[i].text = Text(asked, "commentary")
  BY <1>1, <1>2, <1>7 DEF Telling
<1>8. Ends(toClient', asked) /\ Successes(toClient', asked)
  BY TakesWell
<1>9. Telling'
  BY <1>1, <1>4, <1>5, <1>6, <1>7, <1>8 DEF Telling
<1> QED BY <1>1, <1>3, <1>9 DEF Well

LEMMA ReadsWell ==
    ASSUME SessionInv, Well, ReadResponse \/ ReadText \/ ReadForeign
    PROVE  Well'
<1>0. call = "turn" => turn \in [turn : 0..MaxTurns + 1, text : Seq(Parts), deltas : Seq(Parts)]
  BY DEF SessionInv, TypeOK
<1>1. CASE ReadResponse
  <2>1. PICK m : /\ Takes(m) /\ m.id = Awaited
                 /\ turn' = [turn EXCEPT !.turn = m.turn] /\ UNCHANGED <<call, results>>
    BY <1>1 DEF ReadResponse
  <2>2. m.method \notin {"item", "delta"} /\ call = "turn"
    BY <2>1, TakesWell DEF Fits, Silent
  <2>3. turn'.text = turn.text /\ turn'.deltas = turn.deltas
    BY <1>0, <2>1, <2>2
  <2> QED BY <2>1, <2>2, <2>3, ReadWell
<1>2. CASE ReadText
  <2>1. PICK m : /\ Takes(m) /\ UNCHANGED <<call, results>>
                 /\ \/ m.method = "delta" /\ turn' = [turn EXCEPT !.deltas = @ \o m.text]
                    \/ m.method = "item" /\ turn' = [turn EXCEPT !.text = m.text]
                    \/ m.method \in {"approval", "notice"} /\ UNCHANGED turn
    BY <1>2 DEF ReadText
  <2>2. call = "turn"
    BY <2>1, TakesWell
  <2>3. /\ m.method = "item" => turn'.text = m.text
        /\ m.method # "item" => turn'.text = turn.text
        /\ m.method = "delta" => turn'.deltas = turn.deltas \o m.text
        /\ m.method # "delta" => turn'.deltas = turn.deltas
    BY <1>0, <2>1, <2>2
  <2> QED BY <2>1, <2>3, ReadWell
<1>3. CASE ReadForeign
  <2>1. PICK m : /\ Takes(m) /\ m.method = "completed" /\ UNCHANGED <<call, results, turn>>
    BY <1>3 DEF ReadForeign
  <2> QED BY <2>1, ReadWell
<1> QED BY <1>1, <1>2, <1>3

\* Nothing that is read is taken for a failure, and the text that counts at the
\* completion is the final one.
LEMMA EndsWell ==
    ASSUME SessionInv, Well, causes = {}, causes' = {},
           ReadRefusal \/ TurnBreaks \/ ReadCompleted \/ Settle \/ SettleFails
    PROVE  Well'
<1> USE DEF SessionInv, Fitting
<1>1. CASE ReadRefusal
  BY <1>1, TakesWell DEF ReadRefusal
<1>2. CASE TurnBreaks
  BY <1>2 DEF TurnBreaks, Well, Live, Stages, Processes
<1>3. CASE SettleFails
  BY <1>3, HappensCause DEF SettleFails
<1>4. CASE ReadCompleted
  <2> DEFINE text == IF turn.text # <<>> THEN turn.text ELSE turn.deltas
  <2>1. PICK m : /\ Takes(m) /\ m.method = "completed" /\ ~Foreign(m)
                 /\ turn' = [turn EXCEPT !.text = text]
                 /\ \/ m.ok /\ text # <<>> /\ call' = "settle" /\ UNCHANGED results
                    \/ (~m.ok \/ text = <<>>) /\ Finish(Refusal)
    BY <1>4 DEF ReadCompleted
  <2>2. Own(m, asked) /\ Served
    BY <2>1, CompletedFacts
  <2>3. /\ call = "turn" /\ m \in First(toClient) /\ toClient \in Seq(Messages)
        /\ UNCHANGED <<session, process, server>> /\ process = "running"
        /\ m.ok /\ NoResponse(toClient') /\ server.owed = 0
        /\ Heard(turn.text, turn.deltas, toClient, asked)
    BY <2>1, <2>2, TakesWell DEF Telling
  <2>4. \A i \in DOMAIN toClient : i = 1 \/ Silent(toClient[i], Awaited)
    <3>1. 1 \in DOMAIN toClient /\ toClient[1] = m /\ DOMAIN toClient \subseteq Nat \ {0}
      BY <2>3, FirstAt
    <3>2. Ordered(toClient, asked, Awaited)
      BY <2>3 DEF Open, FramesFit
    <3> QED BY <2>2, <3>1, <3>2 DEF Ordered
  <2>5. text = Text(asked, "final")
    BY <2>2, <2>3, <2>4, HeardEnds
  <2>6. text # <<>>
    BY <2>5 DEF Text
  <2> HIDE DEF text
  <2>7. call' = "settle" /\ UNCHANGED results /\ turn'.text = Text(asked, "final")
    BY <2>1, <2>3, <2>5, <2>6 DEF TypeOK
  <2>8. asked' = asked /\ ~failed'
    BY <2>7, FailedFacts DEF Well
  <2> QED BY <2>3, <2>7, <2>8 DEF Well
<1>5. CASE Settle
  <2>1. call = "settle" /\ turn.text = Answer(asked)
    BY <1>5 DEF Settle, Well, Text, Answer
  <2>2. Finish(turn.text) /\ UNCHANGED <<session, process, toClient, server>>
    <3>1. WellFormed(turn.text)
      BY <2>1 DEF Answer, WellFormed
    <3> QED BY <1>5, <3>1 DEF Settle, wires
  <2>3. ~failed' /\ call' = "free"
    BY <2>1, <2>2, AnswerTyped, FinishFacts DEF Finish
  <2> QED BY <2>1, <2>2, <2>3 DEF Well, Live, Startup
<1> QED BY <1>1, <1>2, <1>3, <1>4, <1>5

LEMMA AcceptWell ==
    ASSUME SessionInv, Well, Accept
    PROVE  Well'
<1> USE DEF SessionInv, Fitting
<1>1. PICK m \in First(toServer) :
        /\ toServer' = Tail(toServer)
        /\ server' = [server EXCEPT !.turn = m.turn, !.owed = m.id, !.said = {}]
  BY DEF Accept
<1>2. /\ Serves /\ server.turn = 0 /\ server.owed = 0
      /\ UNCHANGED <<clientVars, process, toClient>>
  BY DEF Accept
<1>3. /\ asked' = asked /\ Awaited' = Awaited /\ failed' = failed /\ Live' = Live
      /\ UNCHANGED <<call, session, results, turn, nextID>>
      /\ call \in Startup \cup {"free", "turn", "settle"}
      /\ call \in {"free", "turn", "settle"} => session = "up"
  BY <1>2, ClientFacts, ServesFacts
<1>4. server'.turn = m.turn /\ server'.owed = m.id /\ server'.said = {}
  BY <1>1 DEF TypeOK, Servers
<1>5. /\ 1 \in DOMAIN toServer /\ toServer[1] = m /\ toServer # <<>>
      /\ \A i \in DOMAIN toServer' : i + 1 \in DOMAIN toServer /\ i + 1 # 1
                                     /\ toServer'[i] = toServer[i + 1]
  <2>1. /\ 1 \in DOMAIN toServer /\ toServer[1] = m
        /\ \A i \in DOMAIN toServer' : i \in Nat \ {0} /\ i + 1 \in DOMAIN toServer
                                       /\ toServer'[i] = toServer[i + 1]
    BY <1>1, Numbers, RestAt
  <2> QED BY <2>1
<1>6. call \in {"initialize", "thread", "turn"} /\ Outstanding
  <2>1. call \notin {"listen", "dial"}
    BY <1>5 DEF Starts, Startup
  <2>2. call \notin {"free", "settle"}
    BY <1>3, <1>5 DEF Between, Served, Well
  <2> QED BY <1>3, <2>1, <2>2 DEF Well, Startup
<1>7. Outstanding'
  <2>1. m.id # 0 => /\ m.id = Awaited /\ NoResponse(toClient)
                    /\ \A i \in DOMAIN toServer' : toServer'[i].id = 0
    BY <1>5, <1>6 DEF Outstanding
  <2>2. ASSUME NEW i \in DOMAIN toServer', toServer'[i].id # 0
        PROVE  /\ toServer'[i].id = Awaited /\ m.id = 0 /\ NoResponse(toClient)
               /\ \A j \in DOMAIN toServer' : j # i => toServer'[j].id = 0
    <3>1. /\ i + 1 \in DOMAIN toServer /\ toServer'[i] = toServer[i + 1] /\ i + 1 # 1
          /\ DOMAIN toServer' \subseteq Nat
      BY <1>1, <1>5, Numbers, RestAt
    <3>2. ASSUME NEW j \in DOMAIN toServer', j # i
          PROVE  j + 1 \in DOMAIN toServer /\ toServer'[j] = toServer[j + 1] /\ j + 1 # i + 1
      BY <1>5, <3>1, <3>2
    <3> QED BY <1>5, <1>6, <2>2, <3>1, <3>2 DEF Outstanding
  <2> QED BY <1>2, <1>3, <1>4, <1>6, <2>1, <2>2 DEF Outstanding
<1>8. ASSUME call = "turn" PROVE Telling'
  <2>1. m.turn = asked /\ asked # 0 /\ Telling
    BY <1>5, <1>8, Numbers DEF Open, Well
  <2>2. Unserved
    BY <1>5, <1>8 DEF Open, Serving, Served
  <2>3. Unspoken(turn.text, turn.deltas, toClient)
    BY <2>1, <2>2 DEF Telling
  <2>4. \A i \in DOMAIN toClient : toClient[i].method # "item"
    BY <2>3 DEF Unspoken
  <2> QED BY <1>2, <1>3, <1>4, <2>1, <2>3, <2>4 DEF Telling, Served
<1> QED BY <1>2, <1>3, <1>6, <1>7, <1>8 DEF Well

\* What is written that is no text keeps the turn well.
LEMMA WritesWell ==
    ASSUME SessionInv, Well, UNCHANGED <<clientVars, toServer, process>>, Live,
           NEW m, toClient' = toClient \o <<m>>, m.method \notin {"delta", "item"},
           call = "turn" /\ Own(m, asked) => m.ok,
           call \in {"initialize", "thread", "turn"} => Outstanding',
           call \notin {"initialize", "thread", "turn"} =>
               server'.owed = server.owed /\ m.method # "none",
           call = "turn" =>
               /\ \A i \in DOMAIN toClient : Own(toClient[i], asked) => m.method # "none"
               /\ Unserved' => Unserved
               /\ Serving' => Serving /\ server'.said = server.said
               /\ Served' => /\ Served \/ (Serving /\ "final" \in server.said)
                             /\ server'.owed = 0
    PROVE  Well'
<1>1. /\ asked' = asked /\ Awaited' = Awaited /\ failed' = failed /\ Live' = Live
      /\ UNCHANGED <<call, session, results, turn, nextID>> /\ toClient \in Seq(Messages)
  BY ClientFacts, Numbers DEF SessionInv
<1>2. ASSUME call \in {"listen", "dial", "free", "settle"}
      PROVE  server'.owed = 0 /\ NoResponse(toClient')
  BY <1>1, <1>2, NothingLonger DEF Well
<1>3. ASSUME call = "turn" PROVE Telling'
  <2>1. Telling
    BY <1>3 DEF Well
  <2>2. Ends(toClient', asked)
    <3>1. \A i \in DOMAIN toClient :
              /\ Own(toClient[i], asked) => m.method # "none"
              /\ toClient[i].method = "item" /\ m.method = "item" =>
                    toClient[i].text = Text(asked, "commentary")
      BY <1>3
    <3> QED BY <1>1, <2>1, <3>1, EndsLonger DEF Telling
  <2>3. Successes(toClient', asked)
    BY <1>1, <1>3, <2>1, SuccessLonger DEF Telling
  <2>4. ASSUME Unserved' \/ (Serving' /\ server'.said = {})
        PROVE  Unspoken(turn.text, turn.deltas, toClient')
    <3>1. Unspoken(turn.text, turn.deltas, toClient)
      BY <1>3, <2>1, <2>4 DEF Telling
    <3> QED BY <1>1, <3>1, UnspokenLonger
  <2>5. ASSUME Served' \/ (Serving' /\ "final" \in server'.said)
        PROVE  Heard(turn.text, turn.deltas, toClient', asked)
    <3>1. Heard(turn.text, turn.deltas, toClient, asked)
      BY <1>3, <2>1, <2>5 DEF Telling
    <3> QED BY <1>1, <3>1, HeardLonger
  <2>6. ASSUME Serving', "final" \notin server'.said
        PROVE  \A i \in DOMAIN toClient' : toClient'[i].method = "item" =>
                   toClient'[i].text = Text(asked, "commentary")
    <3>1. \A i \in DOMAIN toClient : toClient[i].method = "item" =>
                   toClient[i].text = Text(asked, "commentary")
      BY <1>3, <2>1, <2>6 DEF Telling
    <3>2. \A i \in DOMAIN toClient' :
              toClient'[i] = m \/ \E j \in DOMAIN toClient : toClient'[i] = toClient[j]
      BY <1>1, LongerAt
    <3> QED BY <3>1, <3>2
  <2> QED BY <1>1, <1>3, <2>2, <2>3, <2>4, <2>5, <2>6 DEF Telling
<1> QED BY <1>1, <1>2, <1>3 DEF Well

LEMMA RespondWell ==
    ASSUME SessionInv, Well, causes' = {}, Respond
    PROVE  Well'
<1> USE DEF SessionInv, Fitting
<1> DEFINE m == Response(server.owed, server.turn, TRUE)
<1>1. /\ toClient' = toClient \o <<m>> /\ server' = [server EXCEPT !.owed = 0]
  BY HappensCause DEF Respond, Says
<1>2. /\ m.method = "none" /\ m.id = server.owed /\ m.ok
      /\ Serves /\ server.owed # 0 /\ UNCHANGED <<clientVars, process, toServer>>
  BY DEF Respond, Response, Message
<1> HIDE DEF m
<1>3. /\ asked' = asked /\ Awaited' = Awaited /\ Live /\ UNCHANGED call
      /\ call \in Startup \cup {"free", "turn", "settle"} /\ toClient \in Seq(Messages)
  BY <1>2, ClientFacts, ServesFacts, Numbers
<1>4. /\ server'.owed = 0 /\ server'.turn = server.turn /\ server'.said = server.said
      /\ server'.phase = server.phase
  BY <1>1 DEF TypeOK, Servers
<1>5. call \in {"initialize", "thread", "turn"} /\ Outstanding
  BY <1>2, <1>3 DEF Well, Startup
<1>6. Outstanding'
  <2>1. server.owed = Awaited /\ NoResponse(toClient) /\ Answered(toClient, Awaited)
    BY <1>2, <1>5 DEF Outstanding
  <2>2. Answered(toClient', Awaited)
    BY <1>1, <1>2, <1>3, <2>1, AnswersLonger
  <2>3. \A i \in DOMAIN toServer : toServer[i].id = 0
    BY <1>2, <1>5 DEF Outstanding
  <2> QED BY <1>2, <1>3, <1>4, <2>2, <2>3 DEF Outstanding
<1>7. ~Strange(m) /\ ~Own(m, asked) /\ m.method \notin {"delta", "item"}
  BY <1>2 DEF Strange, Own
<1>8. ASSUME call = "turn"
      PROVE  /\ \A i \in DOMAIN toClient : ~Own(toClient[i], asked)
             /\ (Unserved' => Unserved) /\ (Serving' => Serving) /\ ~Served'
  <2>1. ~Unserved /\ ~Served
    <3>1. server.owed = Awaited
      BY <1>2, <1>5 DEF Outstanding
    <3>2. Telling
      BY <1>8 DEF Well
    <3> QED BY <1>2, <3>1, <3>2, Numbers DEF Unserved, Telling
  <2>2. Serving
    BY <1>8, <2>1 DEF Open
  <2>3. \A i \in DOMAIN toClient : ~Own(toClient[i], asked)
    BY <2>2 DEF Serving
  <2> QED BY <1>2, <1>3, <1>4, <1>8, <2>1, <2>3, SameStage
<1> QED BY <1>1, <1>2, <1>3, <1>4, <1>5, <1>6, <1>7, <1>8, WritesWell

LEMMA CompleteWell ==
    ASSUME SessionInv, Well, causes' = {}, Complete
    PROVE  Well'
<1> USE DEF SessionInv, Fitting
<1> DEFINE m == Notification("completed", server.turn, <<>>, TRUE)
<1>1. /\ toClient' = toClient \o <<m>> /\ server' = [server EXCEPT !.turn = 0, !.said = {}]
      /\ server.owed = 0 /\ "final" \in server.said
  BY HappensCause DEF Complete, Says
<1>2. /\ m.method = "completed" /\ m.id = 0 /\ m.ok /\ Serves /\ server.turn # 0
      /\ UNCHANGED <<clientVars, process, toServer>>
  BY DEF Complete, Working, Notification, Message
<1> HIDE DEF m
<1>3. /\ Live /\ call = "turn" /\ Serving /\ asked \in 1..MaxTurns /\ asked' = asked
      /\ Awaited' = Awaited /\ toClient \in Seq(Messages) /\ UNCHANGED call
  BY <1>2, WorkingFacts, ClientFacts, Numbers DEF Well
<1>4. server'.owed = 0 /\ server'.turn = 0
  BY <1>1 DEF TypeOK, Servers
<1>5. Outstanding'
  <2>1. Outstanding
    BY <1>3 DEF Well
  <2>2. Answered(toClient', Awaited)
    BY <1>1, <1>2, <1>3, <2>1, AnswersLonger DEF Outstanding
  <2>3. toServer = <<>>
    BY <1>3 DEF Serving
  <2> QED BY <1>2, <1>3, <1>4, <2>2, <2>3 DEF Outstanding
<1>6. ~Unserved' /\ ~Serving'
  <2>1. toServer' = <<>>
    BY <1>2, <1>3 DEF Serving
  <2>2. ~Serving'
    BY <1>3, <1>4 DEF Serving
  <2> QED BY <2>1, <2>2 DEF Unserved
<1>7. \A i \in DOMAIN toClient : ~Own(toClient[i], asked)
  BY <1>3 DEF Serving
<1> QED BY <1>1, <1>2, <1>3, <1>4, <1>5, <1>6, <1>7, WritesWell

LEMMA UnaskedWell ==
    ASSUME SessionInv, Well, Request \/ Aside
    PROVE  Well'
<1> USE DEF SessionInv, Fitting
<1>1. PICK m \in Messages :
        /\ toClient' = toClient \o <<m>> /\ m.ok
        /\ m.method \in {"approval", "notice", "completed"}
        /\ m.method = "completed" => m.turn = MaxTurns + 1
  <2>1. CASE Request
    <3>1. PICK id \in 1..nextID : toClient' = toClient \o <<Message(id, "approval", 0, <<>>, TRUE)>>
      BY <2>1 DEF Request, Unasked, Says
    <3>2. id \in Nat /\ 0 \in 0..MaxTurns + 1 /\ "approval" \in Methods /\ <<>> \in Seq(Parts)
      BY TurnsAssumption DEF Methods
    <3>3. Message(id, "approval", 0, <<>>, TRUE) \in Messages
      BY <3>2, MessageTyped
    <3> QED BY <3>1, <3>3 DEF Message
  <2>2. CASE Aside
    <3>1. PICK method \in {"notice", "completed"}, n \in {0, MaxTurns + 1} :
            /\ toClient' = toClient \o <<Notification(method, n, <<>>, TRUE)>>
            /\ method = "completed" => n = MaxTurns + 1
      BY <2>2 DEF Aside, Unasked, Says
    <3>2. 0 \in Nat /\ n \in 0..MaxTurns + 1 /\ method \in Methods /\ <<>> \in Seq(Parts)
      BY TurnsAssumption DEF Methods
    <3>3. Notification(method, n, <<>>, TRUE) \in Messages
      BY <3>2, MessageTyped DEF Notification
    <3> QED BY <3>1, <3>3 DEF Message, Notification
  <2> QED BY <2>1, <2>2
<1>2. /\ Serves /\ UNCHANGED <<clientVars, process, toServer>>
      /\ server'.owed = server.owed /\ server'.turn = server.turn /\ server'.said = server.said
  BY DEF Request, Aside, Unasked, TypeOK, Servers
<1>3. /\ asked' = asked /\ Awaited' = Awaited /\ Live /\ UNCHANGED call
      /\ toClient \in Seq(Messages)
  BY <1>2, ClientFacts, ServesFacts, Numbers
<1>4. ASSUME Outstanding PROVE Outstanding'
  <2>1. Answered(toClient', Awaited)
    BY <1>1, <1>3, <1>4, AnswersLonger DEF Outstanding
  <2>2. NoResponse(toClient) => NoResponse(toClient')
    BY <1>1, <1>3, NothingLonger
  <2> QED BY <1>2, <1>3, <1>4, <2>1, <2>2 DEF Outstanding
<1>5. ASSUME call = "turn"
      PROVE  /\ (Unserved' => Unserved) /\ (Serving' => Serving) /\ (Served' => Served)
             /\ Served => server.owed = 0
  BY <1>2, <1>3, <1>5, SameStage DEF Well, Telling
<1>6. call \in {"initialize", "thread", "turn"} => Outstanding'
  BY <1>4 DEF Well
<1> QED BY <1>1, <1>2, <1>3, <1>5, <1>6, WritesWell

LEMMA SpeakWell ==
    ASSUME SessionInv, Well, Speak
    PROVE  Well'
<1> USE DEF SessionInv, Fitting
<1>1. /\ Serves /\ server.turn # 0 /\ "final" \notin server.said
      /\ UNCHANGED <<clientVars, process, toServer>>
      /\ server'.turn = server.turn /\ server'.owed = server.owed
  BY DEF Speak, Working, TypeOK, Servers
<1>2. /\ Live /\ call = "turn" /\ Serving /\ asked \in 1..MaxTurns /\ asked' = asked
      /\ Awaited' = Awaited /\ toClient \in Seq(Messages) /\ process = "running"
      /\ UNCHANGED <<call, turn, session>> /\ ~failed' /\ Live'
      /\ Outstanding /\ Telling
  BY <1>1, WorkingFacts, ClientFacts, Numbers DEF Well
<1>3. PICK part \in {"commentary", "final"} \ server.said, delta \in Messages,
           item \in Messages, first \in Seq(Messages) :
        /\ delta.method = "delta" /\ delta.id = 0 /\ delta.text = Text(asked, part)
        /\ item.method = "item" /\ item.id = 0 /\ item.text = Text(asked, part)
        /\ first = toClient \o <<delta>>
        /\ \/ toClient' = first /\ part = "final" /\ server.said = {}
           \/ toClient' = first \o <<item>>
        /\ server'.said = server.said \cup {part}
  BY <1>2, SpeakWrites
<1>4. /\ first = toClient \o <<delta>> /\ ~Own(delta, asked) /\ ~Own(item, asked)
      /\ \A i \in DOMAIN toClient : ~Own(toClient[i], asked)
      /\ \A i \in DOMAIN toClient : toClient[i].method = "item" =>
            toClient[i].text = Text(asked, "commentary")
  BY <1>1, <1>2, <1>3 DEF Own, Serving, Telling
<1>5. /\ Answered(first, Awaited) /\ (NoResponse(toClient) => NoResponse(first))
      /\ Ends(first, asked) /\ Successes(first, asked)
  <2>1. Answered(first, Awaited)
    BY <1>2, <1>3, <1>4, AnswersLonger DEF Outstanding
  <2>2. NoResponse(toClient) => NoResponse(first)
    BY <1>2, <1>3, <1>4, NothingLonger
  <2>3. Ends(first, asked)
    BY <1>2, <1>3, <1>4, EndsLonger DEF Telling
  <2>4. Successes(first, asked)
    BY <1>2, <1>4, SuccessLonger DEF Telling
  <2> QED BY <2>1, <2>2, <2>3, <2>4
<1>6. \A i \in DOMAIN first : first[i] = delta \/ \E j \in DOMAIN toClient : first[i] = toClient[j]
  BY <1>2, <1>4, LongerAt
<1>7. CASE toClient' = first \o <<item>>
  <2>0. toClient' = first \o <<item>>
    BY <1>7
  <2>1. Answered(toClient', Awaited)
    BY <1>3, <1>5, <2>0, AnswersLonger
  <2>2. NoResponse(toClient) => NoResponse(toClient')
    BY <1>3, <1>5, <2>0, NothingLonger
  <2>3. Ends(toClient', asked)
    <3>1. \A i \in DOMAIN first :
              /\ Own(first[i], asked) => item.method # "none"
              /\ first[i].method = "item" /\ item.method = "item" =>
                    first[i].text = Text(asked, "commentary")
      BY <1>3, <1>4, <1>6
    <3> QED BY <1>5, <2>0, <3>1, EndsLonger
  <2>4. Successes(toClient', asked)
    BY <1>4, <1>5, <2>0, SuccessLonger
  <2>5. Outstanding'
    BY <1>1, <1>2, <2>1, <2>2 DEF Outstanding, Serving
  <2>6. \E i \in DOMAIN toClient' : toClient'[i] = item
    BY <2>0, LongerAt
  <2>7. \A i \in DOMAIN toClient' :
          toClient'[i] = item \/ \E j \in DOMAIN first : toClient'[i] = first[j]
    BY <2>0, LongerAt
  <2>8. ~Unserved' /\ ~Served' /\ server'.said # {}
    BY <1>1, <1>2, <1>3 DEF Serving, Unserved, Served
  <2>9. "final" \in server'.said => Heard(turn.text, turn.deltas, toClient', asked)
    BY <1>1, <1>3, <2>6 DEF Heard
  <2>10. "final" \notin server'.said =>
           \A i \in DOMAIN toClient' : toClient'[i].method = "item" =>
              toClient'[i].text = Text(asked, "commentary")
    <3>1. \A i \in DOMAIN first : first[i].method = "item" =>
              first[i].text = Text(asked, "commentary")
      BY <1>3, <1>4, <1>6
    <3>2. "final" \notin server'.said => item.text = Text(asked, "commentary")
      BY <1>3
    <3> QED BY <2>7, <3>1, <3>2
  <2>11. Telling'
    BY <1>2, <2>3, <2>4, <2>8, <2>9, <2>10 DEF Telling
  <2> QED BY <1>1, <1>2, <2>5, <2>11 DEF Well
<1>8. CASE toClient' = first /\ part = "final" /\ server.said = {}
  <2>1. Outstanding'
    BY <1>1, <1>2, <1>5, <1>8 DEF Outstanding, Serving
  <2>2. ~Unserved' /\ ~Served' /\ "final" \in server'.said /\ server'.said # {}
    BY <1>1, <1>2, <1>3, <1>8 DEF Serving, Unserved, Served
  <2>3. Unspoken(turn.text, turn.deltas, toClient)
    BY <1>2, <1>8 DEF Telling
  <2>4. Heard(turn.text, turn.deltas, first, asked)
    <3> DEFINE last == Len(toClient) + 1
    <3>1. /\ last \in DOMAIN first /\ first[last] = delta
          /\ \A i \in DOMAIN toClient : first[i] = toClient[i]
          /\ \A i \in DOMAIN first : i = last \/ i \in DOMAIN toClient
      BY <1>2, <1>4, LongerAt
    <3> HIDE DEF last
    <3>2. \A i \in DOMAIN first : i # last => first[i].method \notin {"delta", "item"}
      BY <2>3, <3>1 DEF Unspoken
    <3>3. Without("item", first)
      BY <1>3, <3>1, <3>2 DEF Without
    <3> QED BY <1>3, <1>8, <2>3, <3>1, <3>2, <3>3 DEF Heard, Unspoken
  <2>5. Telling'
    BY <1>2, <1>5, <1>8, <2>2, <2>4 DEF Telling
  <2> QED BY <1>1, <1>2, <2>1, <2>5 DEF Well
<1> QED BY <1>3, <1>7, <1>8

LEMMA NextBlameless == SessionInv /\ Blameless /\ [Next]_vars => Blameless'
<1> SUFFICES ASSUME SessionInv, Blameless, [Next]_vars, causes' = {} PROVE Well'
  BY DEF Blameless
<1>1. CASE StartupFails
  BY <1>1, StartupWell
<1>2. CASE UNCHANGED vars
  <2>1. Well
    BY <1>2 DEF vars, Blameless
  <2> QED BY <1>2, <2>1 DEF vars, Well, Live, Outstanding, Telling, Awaited, asked, failed,
             Served, Unserved, Serving
<1>3. CASE Next /\ ~StartupFails
  <2>1. causes = {}
    BY <1>3 DEF Next, Caller, Healthy, Happens, StartSession, StartFails, ReadListener, Dial,
       Skip, Initialized, ThreadStarted, Ask, TurnBreaks, ReadResponse, ReadRefusal, ReadText,
       ReadForeign, ReadCompleted, Takes, Settle, SettleFails, StartExec, ExecReturns, Close,
       ExecEnds, OrphanEnds, Announce, Accept, Respond, Speak, Complete, Request, Aside,
       Unasked, Edit, Die, vars
  <2>2. Well
    BY <2>1 DEF Blameless
  <2>3. CASE Caller
    <3>1. CASE StartSession \/ StartFails \/ ReadListener \/ Close
      BY <2>2, <3>1, SpawnWell
    <3>2. CASE Dial \/ Skip \/ Initialized \/ ThreadStarted
      BY <2>2, <3>2, HandshakeWell
    <3>3. CASE ReadResponse \/ ReadText \/ ReadForeign
      BY <2>2, <3>3, ReadsWell
    <3>4. CASE ReadRefusal \/ TurnBreaks \/ ReadCompleted \/ Settle \/ SettleFails
      BY <2>1, <2>2, <3>4, EndsWell
    <3>5. CASE StartExec \/ ExecReturns
      BY <2>1, <2>2, <3>5, ExecWell
    <3> QED BY <1>3, <2>2, <2>3, <3>1, <3>2, <3>3, <3>4, <3>5, AskWell DEF Caller
  <2>4. CASE ExecEnds \/ OrphanEnds
    BY <2>1, <2>2, <2>4, ExecWell, SpawnWell
  <2>5. CASE Announce \/ Edit \/ Die
    BY <2>2, <2>5, SpawnWell
  <2>6. CASE call = "done" /\ UNCHANGED vars
    BY <1>2, <2>6
  <2> QED BY <1>3, <2>2, <2>3, <2>4, <2>5, <2>6, AcceptWell, RespondWell, SpeakWell,
             CompleteWell, UnaskedWell DEF Next
<1> QED BY <1>1, <1>2, <1>3

\* For any number of turns and faults, and whatever the app-server sends in which
\* order: a turn fails only if something went wrong around it, so no frame left over
\* from an earlier turn, no text of the turn and no order of the response and the
\* texts makes RunTurn refuse a good turn (its dispatch of the frames it reads, and
\* the loop of builder.go that stops at the first failure).
THEOREM FailuresHaveCauses == Spec => []NoSpuriousFailure
<1>1. Init => Blameless
  BY FailedFacts DEF Init, Blameless, Well, Live, Startup, Idle, NoResponse
<1>2. Blameless => NoSpuriousFailure
  BY DEF Blameless, Well, NoSpuriousFailure
<1> QED BY <1>1, <1>2, SessionAlways, NextBlameless, PTL DEF Spec
=============================================================================
