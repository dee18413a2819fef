----------------------------- MODULE IdeBridge -----------------------------
(***************************************************************************)
(* The connection between an editor window and the Local Agent on one      *)
(* machine: idebridge.Bridge (listener, session token, clients), the       *)
(* endpoint file in the state dir, and the reconnect loop of               *)
(* AgentIpcClient.                                                         *)
(*                                                                         *)
(* An agent is one process, with one Bridge and one token; a restart is    *)
(* another agent, which may start while the first is still closing: they   *)
(* share the state dir.  Its port is the operating system's choice, and    *)
(* may be the one a dead agent had.                                        *)
(*                                                                         *)
(* On a signal two goroutines of the agent call Close, the one Start left  *)
(* waiting for the context ("ctx") and main ("main"); the process ends     *)
(* when main's returns, wherever the other one is.                         *)
(***************************************************************************)
EXTENDS Naturals, FiniteSets

CONSTANTS
  Agents, Ports,  \* numbered in the order they start and are first used
  Windows,
  None, Torn,     \* no endpoint file; one that does not parse
  MaxCommands,    \* "Reconnect to Local Agent" commands of the users
  MaxTimeouts     \* clients whose ide.register does not arrive in time

ASSUME BridgeAssumption ==
  /\ Agents \subseteq Nat /\ Ports \subseteq Nat
  /\ None \notin Agents \cup Ports
  /\ Torn \notin Agents \cup {None}
  /\ {MaxCommands, MaxTimeouts} \subseteq Nat

VARIABLES
  agent,     \* the processes: Bridge and what main does with it
  closing,   \* their two calls of Close
  file,      \* ide-ipc.json: whose endpoint it holds
  win,       \* AgentIpcClient of each window
  conn,      \* the connection a window's loop awaits, at both ends
  commands, timeouts

vars == <<agent, closing, file, win, conn, commands, timeouts>>

Closers == {"main", "ctx"}

NotClosing == [pc |-> "wait", srv |-> FALSE, held |-> {}]
NoConn     == [near |-> "none", far |-> "none", port |-> None, token |-> None, to |-> None]

Init ==
  /\ agent = [a \in Agents |-> [pc |-> "off", port |-> None, listening |-> FALSE, linked |-> FALSE,
                                srv |-> FALSE, conns |-> {}, cancelled |-> FALSE]]
  /\ closing = [a \in Agents |-> [k \in Closers |-> NotClosing]]
  /\ file = None
  /\ win = [w \in Windows |-> [loop |-> "load", disposed |-> FALSE]]
  /\ conn = [w \in Windows |-> NoConn]
  /\ commands = 0 /\ timeouts = 0

Alive(a) == agent[a].pc \in {"bound", "writing", "up"}

\* The connection of w has ended: closing it again does nothing.
Forget(w) ==
  closing' = [a \in Agents |-> [k \in Closers |-> [closing[a][k] EXCEPT !.held = @ \ {w}]]]

-----------------------------------------------------------------------------
(* An agent starts: main, New, Start, writeEndpoint                        *)

\* net.Listen on port 0.
Listen(a, p) ==
  /\ agent[a].pc = "off"
  /\ \A b \in Agents : b < a => agent[b].pc # "off"
  /\ \A q \in Ports : q < p => \E b \in Agents : agent[b].port = q
  /\ \A b \in Agents : agent[b].listening => agent[b].port # p
  /\ agent' = [agent EXCEPT ![a].pc = "bound", ![a].port = p, ![a].listening = TRUE]
  /\ UNCHANGED <<closing, file, win, conn, commands, timeouts>>

\* os.WriteFile truncates the file ...
CreateEndpoint(a) ==
  /\ agent[a].pc = "bound"
  /\ agent' = [agent EXCEPT ![a].pc = "writing", ![a].linked = TRUE]
  /\ file' = Torn
  /\ UNCHANGED <<closing, win, conn, commands, timeouts>>

\* ... and fills it, unless another process has removed it meanwhile; then the
\* bridge serves and waits for the context.
WriteEndpoint(a) ==
  /\ agent[a].pc = "writing"
  /\ file' = IF agent[a].linked THEN a ELSE file
  /\ agent' = [agent EXCEPT ![a].pc = "up", ![a].srv = TRUE, ![a].linked = FALSE]
  /\ UNCHANGED <<closing, win, conn, commands, timeouts>>

\* The file is unlinked under every process that has it open.
Unlinked(as) == [a \in Agents |-> [as[a] EXCEPT !.linked = FALSE]]

\* The end of a process, seen from the others.
Ended(a, pc) ==
  [agent EXCEPT ![a].pc = pc, ![a].listening = FALSE, ![a].srv = FALSE, ![a].conns = {},
                ![a].linked = FALSE, ![a].cancelled = FALSE]

ConnsTo(a) == {w \in Windows : conn[w].to = a /\ conn[w].far # "none"}

Hangup(ws) == [w \in Windows |-> IF w \in ws THEN [NoConn EXCEPT !.near = conn[w].near, !.far = "closed"]
                               ELSE conn[w]]

\* writeEndpoint fails: the file is removed and main exits.
WriteFails(a) ==
  /\ agent[a].pc = "writing"
  /\ file' = None
  /\ agent' = Unlinked(Ended(a, "exited"))
  /\ UNCHANGED <<closing, win, conn, commands, timeouts>>

-----------------------------------------------------------------------------
(* An agent ends: the signal, Close, exit, or a crash                      *)

\* The context is cancelled; during the start nothing looks at it.
Signal(a) ==
  /\ agent[a].pc = "up"
  /\ ~agent[a].cancelled
  /\ agent' = [agent EXCEPT ![a].cancelled = TRUE]
  /\ UNCHANGED <<closing, file, win, conn, commands, timeouts>>

\* Close: under the lock it takes the server and the clients of the Bridge,
CloseTake(a, k) ==
  /\ agent[a].pc = "up" /\ agent[a].cancelled
  /\ closing[a][k].pc = "wait"
  /\ closing' = [closing EXCEPT ![a][k] =
                   [pc |-> "conns", srv |-> agent[a].srv, held |-> agent[a].conns]]
  /\ agent' = [agent EXCEPT ![a].srv = FALSE, ![a].conns = {}]
  /\ UNCHANGED <<file, win, conn, commands, timeouts>>

At(a, k, pc) == agent[a].pc = "up" /\ closing[a][k].pc = pc

\* closes the clients it took,
CloseConn(a, k, w) ==
  /\ At(a, k, "conns")
  /\ w \in closing[a][k].held
  /\ conn' = Hangup({w})
  /\ Forget(w)
  /\ UNCHANGED <<agent, file, win, commands, timeouts>>

\* MUTANT: a Close that finds no server has nothing to do.
MutCloseServer(a, k) ==
  /\ At(a, k, "conns")
  /\ closing[a][k].held = {}
  /\ closing' = [closing EXCEPT ![a][k].pc = IF closing[a][k].srv THEN "remove" ELSE "done"]
  /\ agent' = [agent EXCEPT ![a].listening = @ /\ ~closing[a][k].srv]
  /\ UNCHANGED <<file, win, conn, commands, timeouts>>

\* shuts the server down if it took it,
CloseServer(a, k) ==
  /\ At(a, k, "conns")
  /\ closing[a][k].held = {}
  /\ closing' = [closing EXCEPT ![a][k].pc = "remove"]
  /\ agent' = [agent EXCEPT ![a].listening = @ /\ ~closing[a][k].srv]
  /\ UNCHANGED <<file, win, conn, commands, timeouts>>

\* and removes the endpoint file, whoever wrote it.
CloseRemove(a, k) ==
  /\ At(a, k, "remove")
  /\ closing' = [closing EXCEPT ![a][k].pc = "done"]
  /\ file' = None
  /\ agent' = Unlinked(agent)
  /\ UNCHANGED <<win, conn, commands, timeouts>>

\* The operating system closes what the process had open.
Gone(a, pc) ==
  /\ agent' = Ended(a, pc)
  /\ conn' = Hangup(ConnsTo(a))
  /\ closing' = [closing EXCEPT ![a] = [k \in Closers |-> NotClosing]]
  /\ UNCHANGED <<file, win, commands, timeouts>>

\* main returns.
Exit(a) == At(a, "main", "done") /\ Gone(a, "exited")

Crash(a) == Alive(a) /\ Gone(a, "crashed")

Close(a, k) == CloseTake(a, k) \/ CloseServer(a, k) \/ CloseRemove(a, k)
               \/ \E w \in Windows : CloseConn(a, k, w)

-----------------------------------------------------------------------------
(* A window's loop: runLoop, connectOnce, reconnect, dispose               *)

\* MUTANT: the promise is not settled.
MutSettled(w) == UNCHANGED win

Settled(w) == win' = [win EXCEPT ![w].loop = "sleep"]

\* connectOnce, with the endpoint of the file; without one the loop sleeps.
Dial(w) ==
  \/ /\ file \in Agents
     /\ win' = [win EXCEPT ![w].loop = "await"]
     /\ conn' = [conn EXCEPT ![w] = [NoConn EXCEPT !.near = "connecting",
                     !.port = agent[file].port, !.token = file]]
  \/ file \notin Agents /\ Settled(w) /\ UNCHANGED conn

\* MUTANT: the loop goes on after dispose.
MutRunLoop(w) ==
  /\ win[w].loop = "load"
  /\ Dial(w)
  /\ UNCHANGED <<agent, closing, file, commands, timeouts>>

RunLoop(w) ==
  /\ win[w].loop = "load"
  /\ \/ ~win[w].disposed /\ Dial(w)
     \/ /\ win[w].disposed
        /\ win' = [win EXCEPT ![w].loop = "ended"]
        /\ UNCHANGED conn
  /\ UNCHANGED <<agent, closing, file, commands, timeouts>>

\* waitBackoff
Wake(w) ==
  /\ win[w].loop = "sleep"
  /\ win' = [win EXCEPT ![w].loop = "load"]
  /\ UNCHANGED <<agent, closing, file, conn, commands, timeouts>>

\* MUTANT: nobody listens to "error".
MutRefused(w) == FALSE

Refused(w) ==
  /\ conn[w].near = "connecting" /\ conn[w].far = "none"
  /\ \A a \in Agents : agent[a].listening => agent[a].port # conn[w].port

\* finish: the socket failed or was closed.
Finish(w) ==
  /\ conn[w].far = "closed" \/ Refused(w)
  /\ conn' = [conn EXCEPT ![w] = NoConn]
  /\ Settled(w)
  /\ UNCHANGED <<agent, closing, file, commands, timeouts>>

\* closeSocket: a handshake is aborted, an open socket starts to close.
Closed(w) ==
  CASE conn[w].near = "connecting" -> NoConn
    [] conn[w].near = "open"       -> [conn[w] EXCEPT !.near = "closing"]
    [] OTHER                       -> conn[w]

CloseSocket(w, disposed) ==
  /\ conn' = [conn EXCEPT ![w] = Closed(w)]
  /\ win' = [win EXCEPT ![w] = [disposed |-> disposed,
                                loop |-> IF conn[w].near = "connecting" THEN "sleep" ELSE @.loop]]
  /\ UNCHANGED <<agent, closing, file, timeouts>>

Reconnect(w) ==
  /\ ~win[w].disposed
  /\ commands < MaxCommands
  /\ commands' = commands + 1
  /\ CloseSocket(w, FALSE)

Dispose(w) ==
  /\ ~win[w].disposed
  /\ UNCHANGED commands
  /\ CloseSocket(w, TRUE)

-----------------------------------------------------------------------------
(* The bridge serves: handleIPC, serveConn                                 *)

Accept(a, w) ==
  /\ agent[a].pc = "up" /\ agent[a].listening
  /\ conn[w].near = "connecting" /\ conn[w].far = "none"
  /\ conn[w].port = agent[a].port
  /\ conn' = [conn EXCEPT ![w].far = "http", ![w].to = a]
  /\ UNCHANGED <<agent, closing, file, win, commands, timeouts>>

\* MUTANT: the token is not compared.
MutTokenMatches(w) == TRUE

TokenMatches(w) == conn[w].token = conn[w].to

\* Upgrade, or 401, on which the window's connectOnce rejects.
HandleIPC(w) ==
  /\ conn[w].far = "http"
  /\ \/ /\ TokenMatches(w)
        /\ conn' = [conn EXCEPT ![w].near = "open", ![w].far = "accepted"]
        /\ UNCHANGED win
     \/ /\ ~TokenMatches(w)
        /\ conn' = [conn EXCEPT ![w] = NoConn]
        /\ Settled(w)
  /\ UNCHANGED <<agent, closing, file, commands, timeouts>>

\* ide.register arrives; the client becomes a target of Broadcast ...
TrackClient(w) ==
  /\ conn[w].far = "accepted"
  /\ conn' = [conn EXCEPT ![w].far = "tracked"]
  /\ agent' = [agent EXCEPT ![conn[w].to].conns = @ \cup {w}]
  /\ UNCHANGED <<closing, file, win, commands, timeouts>>

\* ... and is told so.
WriteRegistered(w) ==
  /\ conn[w].far = "tracked"
  /\ conn' = [conn EXCEPT ![w].far = "registered"]
  /\ UNCHANGED <<agent, closing, file, win, commands, timeouts>>

\* MUTANT: no deferred untrack.
MutServeConnReturns(w) ==
  /\ conn' = Hangup({w})
  /\ Forget(w)
  /\ UNCHANGED <<agent, file, win, commands>>

\* serveConn's deferred untrack and Close.
ServeConnReturns(w) ==
  /\ conn' = Hangup({w})
  /\ agent' = [agent EXCEPT ![conn[w].to].conns = @ \ {w}]
  /\ Forget(w)
  /\ UNCHANGED <<file, win, commands>>

\* The read fails because the window closes its socket, ...
ReadClose(w) ==
  /\ conn[w].near = "closing" /\ conn[w].far = "registered"
  /\ ServeConnReturns(w)
  /\ UNCHANGED timeouts

\* ... because it has been silent for readIdleTimeout, ...
ReadIdle(w) ==
  /\ conn[w].far = "registered"
  /\ ServeConnReturns(w)
  /\ UNCHANGED timeouts

\* ... or because it did not register within registerTimeout.
RegisterTimeout(w) ==
  /\ conn[w].far = "accepted"
  /\ timeouts < MaxTimeouts
  /\ timeouts' = timeouts + 1
  /\ ServeConnReturns(w)

-----------------------------------------------------------------------------
Serve(w) ==
  HandleIPC(w) \/ TrackClient(w) \/ WriteRegistered(w) \/ ReadClose(w)
  \/ \E a \in Agents : Accept(a, w)

Window(w) == RunLoop(w) \/ Wake(w) \/ Finish(w)

Next ==
  \/ \E a \in Agents :
       \/ \E p \in Ports : Listen(a, p)
       \/ CreateEndpoint(a) \/ WriteEndpoint(a) \/ WriteFails(a)
       \/ Signal(a) \/ Exit(a) \/ Crash(a)
       \/ \E k \in Closers : Close(a, k)
  \/ \E w \in Windows :
       \/ Window(w) \/ Reconnect(w) \/ Dispose(w)
       \/ Serve(w) \/ ReadIdle(w) \/ RegisterTimeout(w)

Spec == Init /\ [][Next]_vars

\* The editor's event loop and the agent's goroutines run.  Signals, crashes,
\* users and read deadlines are free.
FairSpec ==
  /\ Spec
  /\ \A w \in Windows : WF_vars(Window(w)) /\ WF_vars(Serve(w))
  /\ \A a \in Agents : WF_vars(Exit(a)) /\ \A k \in Closers : WF_vars(Close(a, k))

-----------------------------------------------------------------------------
(* Properties                                                              *)

\* Processes, Close calls, windows and connections have the shapes the code
\* gives them; a loop awaits just when there is a socket to await.
TypeOK ==
  /\ agent \in [Agents -> [pc : {"off", "bound", "writing", "up", "exited", "crashed"},
                            port : Ports \cup {None}, listening : BOOLEAN, linked : BOOLEAN,
                            srv : BOOLEAN, conns : SUBSET Windows, cancelled : BOOLEAN]]
  /\ closing \in [Agents -> [Closers -> [pc : {"wait", "conns", "remove", "done"},
                                         srv : BOOLEAN, held : SUBSET Windows]]]
  /\ file \in Agents \cup {None, Torn}
  /\ win \in [Windows -> [loop : {"load", "await", "sleep", "ended"}, disposed : BOOLEAN]]
  /\ conn \in [Windows -> [near : {"none", "connecting", "open", "closing"},
                            far : {"none", "http", "accepted", "tracked", "registered", "closed"},
                            port : Ports \cup {None}, token : Agents \cup {None},
                            to : Agents \cup {None}]]
  /\ \A w \in Windows : win[w].loop = "await" <=> conn[w].near # "none"
  /\ commands \in 0..MaxCommands /\ timeouts \in 0..MaxTimeouts

\* The clients of a bridge are the connections it serves, each in conns or in
\* the hands of a Close, through every race of registering, reading, closing;
\* and each came with its token: a window that read the file of a dead agent is
\* not served by the one that now has its port.
ClientsAreConnections ==
  \A a \in Agents, w \in Windows :
    LET served == conn[w].to = a /\ conn[w].far \in {"tracked", "registered"} IN
    /\ served <=> (w \in agent[a].conns \/ \E k \in Closers : w \in closing[a][k].held)
    /\ served => conn[w].token = a

\* removeEndpoint's comment: after an agent has ended by a signal, no window is
\* sent to its port.
ExitRemovesEndpoint ==
  \A a \in Agents : file = a => agent[a].pc # "exited"

Served(a, w) == conn[w].to = a /\ conn[w].near = "open" /\ conn[w].far = "registered"

Reachable(a, w) ==
  agent[a].pc = "up" /\ ~agent[a].cancelled /\ file = a /\ ~win[w].disposed

\* start's comment: once an agent stays up and its endpoint stays in the file, a
\* window is connected again and again, whatever it was connected to before, to
\* that agent or to another that is still up.
WindowsReconnect ==
  \A w \in Windows :
    <>[](\E a \in Agents : Reachable(a, w)) => []<>(\E a \in Agents : Served(a, w))

\* After dispose the loop ends and no agent keeps the window as a client.
DisposedLetsGo ==
  \A w \in Windows :
    win[w].disposed ~> (win[w].loop = "ended" /\ \A a \in Agents : w \notin agent[a].conns)

=============================================================================
