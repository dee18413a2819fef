-------------------------- MODULE IdeBridgeProofs --------------------------
(***************************************************************************)
(* Proofs about the connection between the editor windows and the agents,  *)
(* for any number of agents, ports and windows.                            *)
(*                                                                         *)
(* The invariant follows a connection from Dial to its end: what the       *)
(* window's end and the bridge's end of it can be at the same time, which  *)
(* agent holds it, and where that agent's Close calls are.                 *)
(***************************************************************************)
EXTENDS IdeBridge, TLAPS

-----------------------------------------------------------------------------
(* The inductive invariant                                                 *)

Process == [pc : {"off", "bound", "writing", "up", "exited", "crashed"},
            port : Ports \cup {None}, listening : BOOLEAN, linked : BOOLEAN,
            srv : BOOLEAN, conns : SUBSET Windows, cancelled : BOOLEAN]
Closing == [pc : {"wait", "conns", "remove", "done"}, srv : BOOLEAN, held : SUBSET Windows]
Editor  == [loop : {"load", "await", "sleep", "ended"}, disposed : BOOLEAN]
Conn    == [near : {"none", "connecting", "open", "closing"},
            far : {"none", "http", "accepted", "tracked", "registered", "closed"},
            port : Ports \cup {None}, token : Agents \cup {None}, to : Agents \cup {None}]

Shapes ==
  /\ agent \in [Agents -> Process]
  /\ closing \in [Agents -> [Closers -> Closing]]
  /\ file \in Agents \cup {None, Torn}
  /\ win \in [Windows -> Editor]
  /\ conn \in [Windows -> Conn]
  /\ commands \in 0..MaxCommands /\ timeouts \in 0..MaxTimeouts

\* The two ends of a connection.  One that is past the handshake has shown the
\* token of the agent that serves it.
EndsAgree(c) ==
  /\ c.near = "none" => c = NoConn
  /\ c.far = "none" => c.near \in {"none", "connecting"}
  /\ c.far = "http" => c.near = "connecting"
  /\ c.far \in {"accepted", "tracked", "registered"} => c.near \in {"open", "closing"} /\ c.token = c.to
  /\ c.far \in {"none", "closed"} <=> c.to = None

\* The loop awaits just the connections there are.
LoopsOK == \A w \in Windows : EndsAgree(conn[w]) /\ (win[w].loop = "await" <=> conn[w].near # "none")

\* Only a running bridge serves.
ServersAreUp == \A a \in Agents, w \in Windows : conn[w].to = a => agent[a].pc = "up"

\* The window is a client of a; it is in the hands of one of a's Close calls.
InHands(c, w) == \E k \in Closers : w \in c[k].held
Serving(c, a) == c.to = a /\ c.far \in {"tracked", "registered"}

\* A client is in conns or in the hands of a Close, never in both.
ClientOf(a, w) ==
  /\ Serving(conn[w], a) <=> (w \in agent[a].conns \/ InHands(closing[a], w))
  /\ ~(w \in agent[a].conns /\ InHands(closing[a], w))
Clients == \A a \in Agents, w \in Windows : ClientOf(a, w)

\* Close runs in a running agent, holds clients only between taking and closing
\* them, and is done only when the endpoint is not the agent's any more.
ClosesOK ==
  \A a \in Agents :
    /\ agent[a].pc # "up" => closing[a] = [k \in Closers |-> NotClosing]
    /\ \A k \in Closers : closing[a][k].pc = "wait" => closing[a][k].held = {}
    /\ file = a => agent[a].pc \in {"up", "crashed"} /\ closing[a]["main"].pc # "done"

IInv == Shapes /\ LoopsOK /\ ServersAreUp /\ Clients /\ ClosesOK

-----------------------------------------------------------------------------
(* Steps by what they touch                                                *)

\* What a step does to the processes, as far as the connections can tell.
SameClients == \A b \in Agents : agent'[b].conns = agent[b].conns
SamePhases(as) == \A b \in as : agent'[b].pc = agent[b].pc

\* An agent that starts has no clients and no Close, and the endpoint is its own
\* only once it is up: Listen, CreateEndpoint, WriteEndpoint, WriteFails.
LEMMA StartStep ==
  ASSUME IInv, Shapes', UNCHANGED <<closing, win, conn>>, NEW a \in Agents,
         agent[a].pc \in {"off", "bound", "writing"},
         SameClients, SamePhases(Agents \ {a}),
         file' \in {file, None, Torn} \/ (file' = a /\ agent'[a].pc = "up")
  PROVE  IInv'
<1> USE DEF IInv
<1>1. LoopsOK'
  BY DEF LoopsOK
<1>2. \A b \in Agents : b # a => agent'[b].pc = agent[b].pc
  BY DEF SamePhases
<1>3. ServersAreUp'
  BY <1>2 DEF ServersAreUp
<1>4. Clients'
  BY DEF SameClients, Clients, ClientOf
<1>5. ClosesOK'
  <2>1. closing[a] = [k \in Closers |-> NotClosing] /\ file # a
    BY DEF ClosesOK
  <2>2. closing[a]["main"].pc # "done"
    BY <2>1 DEF Closers, NotClosing
  <2>3. None \notin Agents /\ Torn \notin Agents
    BY BridgeAssumption
  <2> QED
    BY <1>2, <2>1, <2>2, <2>3 DEF ClosesOK
<1> QED
  BY <1>1, <1>3, <1>4, <1>5

\* A window, or the goroutine that serves it, moves its connection without
\* making or losing a client.
LEMMA ConnStep ==
  ASSUME IInv, Shapes', UNCHANGED <<agent, closing, file>>, NEW w \in Windows,
         \A v \in Windows : v # w => conn'[v] = conn[v] /\ win'[v] = win[v],
         EndsAgree(conn'[w]), win'[w].loop = "await" <=> conn'[w].near # "none",
         \A a \in Agents : Serving(conn'[w], a) <=> Serving(conn[w], a),
         \A a \in Agents : conn'[w].to = a => agent[a].pc = "up"
  PROVE  IInv'
<1> USE DEF IInv
<1>1. LoopsOK'
  BY DEF LoopsOK
<1>2. ServersAreUp'
  BY DEF ServersAreUp
<1>3. Clients'
  BY DEF Clients, ClientOf
<1>4. ClosesOK'
  BY DEF ClosesOK
<1> QED
  BY <1>1, <1>2, <1>3, <1>4

\* No connection past the handshake is left: the connection is hung up.
LEMMA HangupIs ==
  ASSUME IInv, NEW ws \in SUBSET Windows, \A w \in ws : conn[w].near # "none"
  PROVE  /\ Hangup(ws) \in [Windows -> Conn]
         /\ \A w \in Windows : w \notin ws => Hangup(ws)[w] = conn[w]
         /\ \A w \in ws : /\ EndsAgree(Hangup(ws)[w]) /\ Hangup(ws)[w].near = conn[w].near
                          /\ Hangup(ws)[w].to = None /\ Hangup(ws)[w].far = "closed"
<1>1. conn \in [Windows -> Conn]
  BY DEF IInv, Shapes
<1>2. ASSUME NEW w \in ws
      PROVE  /\ Hangup(ws)[w] \in Conn /\ EndsAgree(Hangup(ws)[w])
             /\ Hangup(ws)[w].near = conn[w].near
             /\ Hangup(ws)[w].to = None /\ Hangup(ws)[w].far = "closed"
  <2>1. Hangup(ws)[w] = [near |-> conn[w].near, far |-> "closed", port |-> None, token |-> None, to |-> None]
    BY <1>2 DEF Hangup, NoConn
  <2>2. conn[w].near \in {"connecting", "open", "closing"}
    BY <1>1, <1>2 DEF Conn
  <2> QED
    BY <2>1, <2>2 DEF Conn, EndsAgree
<1>3. \A w \in Windows : w \notin ws => Hangup(ws)[w] = conn[w]
  BY DEF Hangup
<1>4. Hangup(ws) = [w \in Windows |-> Hangup(ws)[w]]
  BY DEF Hangup
<1>5. \A w \in Windows : Hangup(ws)[w] \in Conn
  BY <1>1, <1>2, <1>3
<1>6. Hangup(ws) \in [Windows -> Conn]
  BY <1>4, <1>5
<1> QED
  BY <1>2, <1>3, <1>6

\* A Close that forgets the connection of w keeps its place.
LEMMA ForgetIs ==
  ASSUME IInv, NEW w \in Windows, Forget(w)
  PROVE  /\ closing' \in [Agents -> [Closers -> Closing]]
         /\ \A a \in Agents, k \in Closers : /\ closing'[a][k].pc = closing[a][k].pc
                                             /\ closing'[a][k].held = closing[a][k].held \ {w}
         /\ \A a \in Agents : closing[a] = [k \in Closers |-> NotClosing] => closing'[a] = closing[a]
<1>1. closing \in [Agents -> [Closers -> Closing]]
  BY DEF IInv, Shapes
<1>2. closing' = [a \in Agents |-> [k \in Closers |-> [closing[a][k] EXCEPT !.held = @ \ {w}]]]
  BY DEF Forget
<1>3. ASSUME NEW a \in Agents, NEW k \in Closers
      PROVE  /\ closing'[a][k] \in Closing /\ closing'[a][k].pc = closing[a][k].pc
             /\ closing'[a][k].held = closing[a][k].held \ {w}
             /\ closing[a][k] = NotClosing => closing'[a][k] = NotClosing
  <2>1. closing'[a][k] = [closing[a][k] EXCEPT !.held = @ \ {w}] /\ closing[a][k] \in Closing
    BY <1>1, <1>2
  <2>2. /\ closing'[a][k] \in Closing /\ closing'[a][k].pc = closing[a][k].pc
        /\ closing'[a][k].held = closing[a][k].held \ {w}
        /\ closing'[a][k].srv = closing[a][k].srv
    BY <2>1 DEF Closing
  <2>3. ASSUME closing[a][k] = NotClosing PROVE closing'[a][k] = NotClosing
    <3>1. closing'[a][k] = [pc |-> "wait", srv |-> FALSE, held |-> {} \ {w}]
      BY <2>1, <2>3 DEF NotClosing
    <3>2. {} \ {w} = {}
      OBVIOUS
    <3> QED
      BY <3>1, <3>2 DEF NotClosing
  <2> QED
    BY <2>2, <2>3
<1>4. \A a \in Agents : closing'[a] = [k \in Closers |-> closing'[a][k]]
  BY <1>2
<1>5. closing' = [a \in Agents |-> closing'[a]]
  BY <1>2
<1>6. ASSUME NEW a \in Agents, closing[a] = [k \in Closers |-> NotClosing] PROVE closing'[a] = closing[a]
  <2>1. \A k \in Closers : closing'[a][k] = NotClosing
    BY <1>3, <1>6
  <2> QED
    BY <1>4, <1>6, <2>1
<1>7. \A a \in Agents : closing'[a] \in [Closers -> Closing]
  BY <1>3, <1>4
<1>8. closing' \in [Agents -> [Closers -> Closing]]
  BY <1>5, <1>7
<1> QED
  BY <1>3, <1>6, <1>8

-----------------------------------------------------------------------------
(* The agents                                                              *)

\* main, New and Start up to the endpoint file
LEMMA ListenStep ==
  ASSUME IInv, NEW a \in Agents, NEW p \in Ports, Listen(a, p)
  PROVE  IInv'
<1>1. agent \in [Agents -> Process]
  BY DEF IInv, Shapes
<1>2. /\ agent' \in [Agents -> Process] /\ SameClients /\ SamePhases(Agents \ {a})
  BY <1>1 DEF Listen, Process, SameClients, SamePhases
<1>3. UNCHANGED <<closing, file, win, conn, commands, timeouts>> /\ agent[a].pc = "off"
  BY DEF Listen
<1>4. Shapes'
  BY <1>2, <1>3 DEF IInv, Shapes
<1> QED
  BY <1>2, <1>3, <1>4, StartStep

\* writeEndpoint
LEMMA CreateEndpointStep ==
  ASSUME IInv, NEW a \in Agents, CreateEndpoint(a)
  PROVE  IInv'
<1>1. agent \in [Agents -> Process]
  BY DEF IInv, Shapes
<1>2. /\ agent' \in [Agents -> Process] /\ SameClients /\ SamePhases(Agents \ {a})
  BY <1>1 DEF CreateEndpoint, Process, SameClients, SamePhases
<1>3. UNCHANGED <<closing, win, conn, commands, timeouts>> /\ file' = Torn /\ agent[a].pc = "bound"
  BY DEF CreateEndpoint
<1>4. Shapes'
  BY <1>2, <1>3 DEF IInv, Shapes
<1> QED
  BY <1>2, <1>3, <1>4, StartStep

\* writeEndpoint, Serve
LEMMA WriteEndpointStep ==
  ASSUME IInv, NEW a \in Agents, WriteEndpoint(a)
  PROVE  IInv'
<1>1. agent \in [Agents -> Process]
  BY DEF IInv, Shapes
<1>2. /\ agent' \in [Agents -> Process] /\ SameClients /\ SamePhases(Agents \ {a}) /\ agent'[a].pc = "up"
  <2> DEFINE r1 == [agent[a] EXCEPT !.pc = "up"]
             r2 == [r1 EXCEPT !.srv = TRUE]
             r3 == [r2 EXCEPT !.linked = FALSE]
  <2>1. agent' = [agent EXCEPT ![a] = r3]
    BY <1>1 DEF WriteEndpoint
  <2>2. r3 \in Process /\ r3.pc = "up" /\ r3.conns = agent[a].conns
    BY <1>1 DEF Process
  <2> HIDE DEF r3
  <2> QED
    BY <1>1, <2>1, <2>2 DEF SameClients, SamePhases
<1>3. /\ UNCHANGED <<closing, win, conn, commands, timeouts>> /\ agent[a].pc = "writing"
      /\ file' = file \/ file' = a
  BY DEF WriteEndpoint
<1>4. Shapes'
  BY <1>2, <1>3 DEF IInv, Shapes
<1> QED
  BY <1>2, <1>3, <1>4, StartStep

\* The context is cancelled.
LEMMA SignalStep ==
  ASSUME IInv, NEW a \in Agents, Signal(a)
  PROVE  IInv'
<1>1. agent \in [Agents -> Process]
  BY DEF IInv, Shapes
<1>2. agent' \in [Agents -> Process] /\ SameClients /\ SamePhases(Agents)
  BY <1>1 DEF Signal, Process, SameClients, SamePhases
<1>3. UNCHANGED <<closing, file, win, conn, commands, timeouts>>
  BY DEF Signal
<1>4. Shapes'
  BY <1>2, <1>3 DEF IInv, Shapes
<1>5. LoopsOK' /\ ServersAreUp'
  BY <1>2, <1>3 DEF IInv, LoopsOK, ServersAreUp, SamePhases
<1>6. Clients'
  BY <1>2, <1>3 DEF IInv, Clients, ClientOf, SameClients
<1>7. ClosesOK'
  BY <1>2, <1>3 DEF IInv, ClosesOK, SamePhases
<1> QED
  BY <1>4, <1>5, <1>6, <1>7 DEF IInv

\* A process that has ended has no clients.
LEMMA EndedIs ==
  ASSUME IInv, NEW a \in Agents, NEW pc \in {"exited", "crashed"}
  PROVE  /\ Ended(a, pc) \in [Agents -> Process]
         /\ Ended(a, pc)[a].pc = pc /\ Ended(a, pc)[a].conns = {}
         /\ \A b \in Agents : b # a => Ended(a, pc)[b] = agent[b]
<1>1. agent \in [Agents -> Process]
  BY DEF IInv, Shapes
<1> DEFINE r1 == [agent[a] EXCEPT !.pc = pc]
           r2 == [r1 EXCEPT !.listening = FALSE]
           r3 == [r2 EXCEPT !.srv = FALSE]
           r4 == [r3 EXCEPT !.conns = {}]
           r5 == [r4 EXCEPT !.linked = FALSE]
           r6 == [r5 EXCEPT !.cancelled = FALSE]
<1>2. Ended(a, pc) = [agent EXCEPT ![a] = r6]
  BY <1>1 DEF Ended
<1>3. r6 \in Process /\ r6.pc = pc /\ r6.conns = {}
  BY <1>1 DEF Process
<1> HIDE DEF r6
<1> QED
  BY <1>1, <1>2, <1>3

\* Removing the endpoint file changes nothing the connections can tell.
LEMMA UnlinkedIs ==
  ASSUME NEW as \in [Agents -> Process]
  PROVE  /\ Unlinked(as) \in [Agents -> Process]
         /\ \A b \in Agents : Unlinked(as)[b].pc = as[b].pc /\ Unlinked(as)[b].conns = as[b].conns
<1>1. \A b \in Agents : Unlinked(as)[b] = [as[b] EXCEPT !.linked = FALSE] /\ as[b] \in Process
  BY DEF Unlinked
<1>2. \A b \in Agents : /\ Unlinked(as)[b] \in Process
                        /\ Unlinked(as)[b].pc = as[b].pc /\ Unlinked(as)[b].conns = as[b].conns
  BY <1>1 DEF Process
<1>3. Unlinked(as) = [b \in Agents |-> Unlinked(as)[b]]
  BY DEF Unlinked
<1>4. Unlinked(as) \in [Agents -> Process]
  BY <1>2, <1>3
<1> QED
  BY <1>2, <1>4

\* writeEndpoint fails
LEMMA WriteFailsStep ==
  ASSUME IInv, NEW a \in Agents, WriteFails(a)
  PROVE  IInv'
<1> DEFINE as == Ended(a, "exited")
<1>1. as \in [Agents -> Process] /\ as[a].conns = {} /\ \A b \in Agents : b # a => as[b] = agent[b]
  BY EndedIs
<1>2. /\ agent' = Unlinked(as) /\ file' = None /\ agent[a].pc = "writing"
      /\ UNCHANGED <<closing, win, conn, commands, timeouts>>
  BY DEF WriteFails
<1> HIDE DEF as
<1>3. /\ agent' \in [Agents -> Process]
      /\ \A b \in Agents : agent'[b].pc = as[b].pc /\ agent'[b].conns = as[b].conns
  BY <1>1, <1>2, UnlinkedIs
<1>4. agent[a].conns = {}
  <2>1. agent[a].conns \subseteq Windows
    BY DEF IInv, Shapes, Process
  <2>2. \A w \in Windows : ~Serving(conn[w], a)
    BY <1>2 DEF IInv, ServersAreUp, Serving
  <2> QED
    BY <2>1, <2>2 DEF IInv, Clients, ClientOf
<1>5. SameClients /\ SamePhases(Agents \ {a})
  BY <1>1, <1>3, <1>4 DEF SameClients, SamePhases
<1>6. Shapes'
  BY <1>2, <1>3 DEF IInv, Shapes
<1> QED
  BY <1>2, <1>5, <1>6, StartStep

\* Close takes the clients under the lock.
LEMMA CloseTakeStep ==
  ASSUME IInv, NEW a \in Agents, NEW k \in Closers, CloseTake(a, k)
  PROVE  IInv'
<1> DEFINE c == [pc |-> "conns", srv |-> agent[a].srv, held |-> agent[a].conns]
<1>1. agent \in [Agents -> Process] /\ closing \in [Agents -> [Closers -> Closing]]
  BY DEF IInv, Shapes
<1>2. /\ agent[a].pc = "up" /\ closing[a][k].pc = "wait"
      /\ closing' = [closing EXCEPT ![a][k] = c]
      /\ UNCHANGED <<file, win, conn, commands, timeouts>>
  BY DEF CloseTake
<1>3. /\ agent' \in [Agents -> Process] /\ agent'[a].conns = {} /\ SamePhases(Agents)
      /\ \A b \in Agents : b # a => agent'[b].conns = agent[b].conns
  BY <1>1 DEF CloseTake, Process, SamePhases
<1>4. c \in Closing /\ c.held = agent[a].conns /\ c.pc = "conns"
  BY <1>1 DEF Closing, Process
<1> HIDE DEF c
<1>5. /\ closing' \in [Agents -> [Closers -> Closing]]
      /\ closing'[a][k] = c
      /\ \A j \in Closers : j # k => closing'[a][j] = closing[a][j]
      /\ \A b \in Agents : b # a => closing'[b] = closing[b]
  BY <1>1, <1>2, <1>4
<1>6. Shapes'
  BY <1>2, <1>3, <1>5 DEF IInv, Shapes
<1>7. LoopsOK' /\ ServersAreUp'
  BY <1>2, <1>3 DEF IInv, LoopsOK, ServersAreUp, SamePhases
<1>8. closing[a][k].held = {}
  BY <1>2 DEF IInv, ClosesOK
<1>9. Clients'
  <2>1. ASSUME NEW b \in Agents, NEW w \in Windows, b # a PROVE ClientOf(b, w)'
    BY <1>2, <1>3, <1>5, <2>1 DEF IInv, Clients, ClientOf
  <2>2. ASSUME NEW w \in Windows PROVE ClientOf(a, w)'
    <3>1. InHands(closing'[a], w) <=> w \in agent[a].conns \/ InHands(closing[a], w)
      BY <1>4, <1>5, <1>8 DEF InHands
    <3>2. Serving(conn[w], a) <=> (w \in agent[a].conns \/ InHands(closing[a], w))
      BY DEF IInv, Clients, ClientOf
    <3> QED
      BY <1>2, <1>3, <3>1, <3>2 DEF ClientOf
  <2> QED
    BY <2>1, <2>2 DEF Clients
<1>10. ClosesOK'
  BY <1>2, <1>3, <1>4, <1>5 DEF IInv, ClosesOK, SamePhases
<1> QED
  BY <1>6, <1>7, <1>9, <1>10 DEF IInv

\* A connection ends, and whoever held it lets go of it.
LEMMA HangupStep ==
  ASSUME IInv, NEW w \in Windows, conn[w].near # "none", conn' = Hangup({w}), Forget(w),
         UNCHANGED <<file, win>>, commands' \in 0..MaxCommands, timeouts' \in 0..MaxTimeouts,
         agent' \in [Agents -> Process], SamePhases(Agents),
         \A b \in Agents : agent'[b].conns = agent[b].conns \ {w}
  PROVE  IInv'
<1> DEFINE ws == {w}
<1>1. ws \in SUBSET Windows /\ \A v \in ws : conn[v].near # "none"
  OBVIOUS
<1>2. /\ conn' \in [Windows -> Conn]
      /\ \A v \in Windows : v # w => conn'[v] = conn[v]
      /\ EndsAgree(conn'[w]) /\ conn'[w].near = conn[w].near
      /\ conn'[w].to = None /\ conn'[w].far = "closed"
  <2> HIDE DEF ws
  <2>1. /\ Hangup(ws) \in [Windows -> Conn]
        /\ \A v \in Windows : v \notin ws => Hangup(ws)[v] = conn[v]
        /\ \A v \in ws : /\ EndsAgree(Hangup(ws)[v]) /\ Hangup(ws)[v].near = conn[v].near
                         /\ Hangup(ws)[v].to = None /\ Hangup(ws)[v].far = "closed"
    BY <1>1, HangupIs
  <2>2. conn' = Hangup(ws) /\ \A v : v \in ws <=> v = w
    BY DEF ws
  <2> QED
    BY <2>1, <2>2
<1>3. /\ closing' \in [Agents -> [Closers -> Closing]]
      /\ \A a \in Agents, k \in Closers : /\ closing'[a][k].pc = closing[a][k].pc
                                          /\ closing'[a][k].held = closing[a][k].held \ {w}
      /\ \A a \in Agents : closing[a] = [k \in Closers |-> NotClosing] => closing'[a] = closing[a]
  BY ForgetIs
<1>4. Shapes'
  BY <1>2, <1>3 DEF IInv, Shapes
<1>5. LoopsOK'
  BY <1>2 DEF IInv, LoopsOK
<1>6. ServersAreUp'
  <2>1. None \notin Agents
    BY BridgeAssumption
  <2> QED
    BY <1>2, <2>1 DEF IInv, ServersAreUp, SamePhases
<1>7. Clients'
  <2>1. ASSUME NEW a \in Agents, NEW v \in Windows PROVE ClientOf(a, v)'
    <3>1. InHands(closing'[a], v) <=> v # w /\ InHands(closing[a], v)
      BY <1>3 DEF InHands
    <3>2. v \in agent'[a].conns <=> v # w /\ v \in agent[a].conns
      OBVIOUS
    <3>3. Serving(conn'[v], a) <=> v # w /\ Serving(conn[v], a)
      BY <1>2 DEF Serving
    <3>4. ClientOf(a, v)
      BY DEF IInv, Clients
    <3> QED
      BY <3>1, <3>2, <3>3, <3>4 DEF ClientOf
  <2> QED
    BY <2>1 DEF Clients
<1>8. ClosesOK'
  <2>1. ClosesOK
    BY DEF IInv
  <2>2. \A a \in Agents : agent'[a].pc = agent[a].pc
    BY DEF SamePhases
  <2>3. ASSUME NEW a \in Agents, agent'[a].pc # "up" PROVE closing'[a] = [k \in Closers |-> NotClosing]
    BY <1>3, <2>1, <2>2, <2>3 DEF ClosesOK
  <2>4. ASSUME NEW a \in Agents, NEW k \in Closers, closing'[a][k].pc = "wait" PROVE closing'[a][k].held = {}
    <3>1. closing[a][k].pc = "wait" /\ closing'[a][k].held = closing[a][k].held \ {w}
      BY <1>3, <2>4
    <3>2. closing[a][k].held = {}
      BY <2>1, <3>1 DEF ClosesOK
    <3> QED
      BY <3>1, <3>2
  <2>5. ASSUME NEW a \in Agents, file' = a
        PROVE  agent'[a].pc \in {"up", "crashed"} /\ closing'[a]["main"].pc # "done"
    <3>1. agent[a].pc \in {"up", "crashed"} /\ closing[a]["main"].pc # "done"
      BY <2>1, <2>5 DEF ClosesOK
    <3>2. closing'[a]["main"].pc = closing[a]["main"].pc
      BY <1>3 DEF Closers
    <3> QED
      BY <2>2, <3>1, <3>2
  <2> QED
    BY <2>3, <2>4, <2>5 DEF ClosesOK
<1> QED
  BY <1>4, <1>5, <1>6, <1>7, <1>8 DEF IInv

\* Close closes a client it took.
LEMMA CloseConnStep ==
  ASSUME IInv, NEW a \in Agents, NEW k \in Closers, NEW w \in Windows, CloseConn(a, k, w)
  PROVE  IInv'
<1>1. /\ conn' = Hangup({w}) /\ Forget(w) /\ w \in closing[a][k].held
      /\ UNCHANGED <<agent, file, win, commands, timeouts>>
  BY DEF CloseConn
<1>2. InHands(closing[a], w)
  BY <1>1 DEF InHands
<1>3. Serving(conn[w], a) /\ w \notin agent[a].conns
  BY <1>2 DEF IInv, Clients, ClientOf
<1>4. conn[w].near # "none"
  BY <1>3 DEF IInv, LoopsOK, EndsAgree, Serving
<1>5. \A b \in Agents : w \notin agent[b].conns
  <2>1. ASSUME NEW b \in Agents, w \in agent[b].conns PROVE b = a
    BY <1>3, <2>1 DEF IInv, Clients, ClientOf, Serving
  <2> QED
    BY <1>3, <2>1
<1>6. \A b \in Agents : agent'[b].conns = agent[b].conns \ {w}
  BY <1>1, <1>5
<1>7. /\ agent' \in [Agents -> Process] /\ SamePhases(Agents)
      /\ commands' \in 0..MaxCommands /\ timeouts' \in 0..MaxTimeouts
  BY <1>1 DEF IInv, Shapes, SamePhases
<1> QED
  BY <1>1, <1>4, <1>6, <1>7, HangupStep

\* Close shuts the server down and, after that, removes the endpoint file.
LEMMA CloseRestStep ==
  ASSUME IInv, NEW a \in Agents, NEW k \in Closers, CloseServer(a, k) \/ CloseRemove(a, k)
  PROVE  IInv'
<1>1. agent \in [Agents -> Process] /\ closing \in [Agents -> [Closers -> Closing]]
  BY DEF IInv, Shapes
<1>2. PICK pc \in {"remove", "done"} : /\ closing' = [closing EXCEPT ![a][k].pc = pc]
                                       /\ pc = "done" => file' = None
  BY DEF CloseServer, CloseRemove
<1>3. UNCHANGED <<win, conn, commands, timeouts>> /\ (file' = file \/ file' = None) /\ agent[a].pc = "up"
  BY DEF CloseServer, CloseRemove, At
<1>4. /\ closing' \in [Agents -> [Closers -> Closing]]
      /\ closing'[a][k].pc = pc /\ closing'[a][k].held = closing[a][k].held
      /\ \A j \in Closers : j # k => closing'[a][j] = closing[a][j]
      /\ \A b \in Agents : b # a => closing'[b] = closing[b]
  <2> DEFINE c == [closing[a][k] EXCEPT !.pc = pc]
  <2>1. closing' = [closing EXCEPT ![a][k] = c]
    BY <1>1, <1>2
  <2>2. c \in Closing /\ c.pc = pc /\ c.held = closing[a][k].held
    BY <1>1 DEF Closing
  <2> HIDE DEF c
  <2> QED
    BY <1>1, <2>1, <2>2
<1>5. agent' \in [Agents -> Process] /\ SameClients /\ SamePhases(Agents)
  <2>1. CASE CloseServer(a, k)
    <3> DEFINE b == agent[a].listening /\ ~closing[a][k].srv
               r == [agent[a] EXCEPT !.listening = b]
    <3>1. b \in BOOLEAN
      OBVIOUS
    <3>2. agent' = [agent EXCEPT ![a] = r]
      BY <1>1, <2>1 DEF CloseServer
    <3> HIDE DEF b
    <3>3. r \in Process /\ r.pc = agent[a].pc /\ r.conns = agent[a].conns
      BY <1>1, <3>1 DEF Process
    <3> HIDE DEF r
    <3> QED
      BY <1>1, <3>2, <3>3 DEF SameClients, SamePhases
  <2>2. CASE CloseRemove(a, k)
    <3>1. agent' = Unlinked(agent)
      BY <2>2 DEF CloseRemove
    <3> QED
      BY <1>1, <3>1, UnlinkedIs DEF SameClients, SamePhases
  <2> QED
    BY <2>1, <2>2
<1>6. Shapes'
  BY <1>3, <1>4, <1>5 DEF IInv, Shapes
<1>7. LoopsOK' /\ ServersAreUp'
  BY <1>3, <1>5 DEF IInv, LoopsOK, ServersAreUp, SamePhases
<1>8. Clients'
  <2>1. \A b \in Agents, w \in Windows : InHands(closing'[b], w) <=> InHands(closing[b], w)
    BY <1>4 DEF InHands
  <2> QED
    BY <1>3, <1>5, <2>1 DEF IInv, Clients, ClientOf, SameClients
<1>9. ClosesOK'
  <2>1. ClosesOK /\ None \notin Agents
    BY BridgeAssumption DEF IInv
  <2>2. \A b \in Agents : agent'[b].pc = agent[b].pc
    BY <1>5 DEF SamePhases
  <2> QED
    BY <1>2, <1>3, <1>4, <2>1, <2>2 DEF ClosesOK, Closers
<1> QED
  BY <1>6, <1>7, <1>8, <1>9 DEF IInv

\* A process ends, by main's return or by a crash; its connections go with it.
LEMMA GoneStep ==
  ASSUME IInv, NEW a \in Agents, NEW pc \in {"exited", "crashed"}, Gone(a, pc),
         file = a => pc = "crashed"
  PROVE  IInv'
<1> DEFINE ws == ConnsTo(a)
           as == Ended(a, pc)
<1>1. /\ conn' = Hangup(ws) /\ agent' = as
      /\ closing' = [closing EXCEPT ![a] = [k \in Closers |-> NotClosing]]
      /\ UNCHANGED <<file, win, commands, timeouts>>
  BY DEF Gone
<1>2. ws \in SUBSET Windows /\ \A w \in Windows : w \in ws <=> conn[w].to = a /\ conn[w].far # "none"
  BY DEF ConnsTo
<1>3. None \notin Agents
  BY BridgeAssumption
<1>4. \A w \in Windows : w \in ws <=> conn[w].to = a
  BY <1>2, <1>3 DEF IInv, LoopsOK, EndsAgree
<1>5. \A w \in ws : conn[w].near # "none"
  BY <1>2, <1>3 DEF IInv, LoopsOK, EndsAgree, NoConn
<1> HIDE DEF ws
<1>6. /\ conn' \in [Windows -> Conn]
      /\ \A w \in Windows : w \notin ws => conn'[w] = conn[w]
      /\ \A w \in ws : /\ EndsAgree(conn'[w]) /\ conn'[w].near = conn[w].near
                       /\ conn'[w].to = None /\ conn'[w].far = "closed"
  BY <1>1, <1>2, <1>5, HangupIs
<1>7. /\ agent' \in [Agents -> Process] /\ agent'[a].pc = pc /\ agent'[a].conns = {}
      /\ \A b \in Agents : b # a => agent'[b] = agent[b]
  BY <1>1, EndedIs
<1>8. closing \in [Agents -> [Closers -> Closing]] /\ [k \in Closers |-> NotClosing] \in [Closers -> Closing]
  BY DEF IInv, Shapes, Closing, NotClosing
<1>9. /\ closing' \in [Agents -> [Closers -> Closing]] /\ closing'[a] = [k \in Closers |-> NotClosing]
      /\ \A b \in Agents : b # a => closing'[b] = closing[b]
  BY <1>1, <1>8
<1>10. Shapes'
  BY <1>1, <1>6, <1>7, <1>9 DEF IInv, Shapes
<1>11. LoopsOK'
  BY <1>1, <1>6 DEF IInv, LoopsOK
<1>12. ServersAreUp'
  BY <1>3, <1>4, <1>6, <1>7 DEF IInv, ServersAreUp
<1>13. Clients'
  <2>1. ASSUME NEW w \in Windows PROVE ClientOf(a, w)'
    <3>1. ~InHands(closing'[a], w)
      BY <1>9 DEF InHands, NotClosing
    <3>2. ~Serving(conn'[w], a)
      BY <1>3, <1>4, <1>6 DEF Serving
    <3> QED
      BY <1>7, <3>1, <3>2 DEF ClientOf
  <2>2. ASSUME NEW b \in Agents, NEW w \in Windows, b # a PROVE ClientOf(b, w)'
    <3>1. Serving(conn'[w], b) <=> Serving(conn[w], b)
      BY <1>3, <1>4, <1>6, <2>2 DEF Serving
    <3> QED
      BY <1>7, <1>9, <2>2, <3>1 DEF IInv, Clients, ClientOf
  <2> QED
    BY <2>1, <2>2 DEF Clients
<1>14. ClosesOK'
  <2>1. ClosesOK
    BY DEF IInv
  <2>2. \A k \in Closers : closing'[a][k].held = {} /\ closing'[a][k].pc = "wait"
    BY <1>9 DEF NotClosing
  <2>3. "main" \in Closers
    BY DEF Closers
  <2> QED
    BY <1>1, <1>7, <1>9, <2>1, <2>2, <2>3 DEF ClosesOK
<1> QED
  BY <1>10, <1>11, <1>12, <1>13, <1>14 DEF IInv

\* main returns only after its Close has removed the file.
LEMMA ExitStep ==
  ASSUME IInv, NEW a \in Agents, Exit(a) \/ Crash(a)
  PROVE  IInv'
<1>1. CASE Exit(a)
  <2>1. file # a /\ Gone(a, "exited")
    BY <1>1 DEF Exit, At, IInv, ClosesOK
  <2> QED
    BY <2>1, GoneStep
<1>2. CASE Crash(a)
  BY <1>2, GoneStep DEF Crash
<1> QED
  BY <1>1, <1>2

-----------------------------------------------------------------------------
(* The windows                                                             *)

\* A loop that does not await has no connection.
LEMMA NoneAwaited ==
  ASSUME IInv, NEW w \in Windows, win[w].loop # "await"
  PROVE  conn[w] = NoConn
BY DEF IInv, LoopsOK, EndsAgree

\* NoConn is nobody's.
LEMMA NoConnIs ==
  /\ NoConn \in Conn /\ EndsAgree(NoConn) /\ NoConn.near = "none" /\ NoConn.to = None
  /\ \A a \in Agents : ~Serving(NoConn, a)
BY BridgeAssumption DEF NoConn, Conn, EndsAgree, Serving

\* An ended or refused connection is let go of.
LEMMA DropStep ==
  ASSUME IInv, NEW w \in Windows, conn' = [conn EXCEPT ![w] = NoConn], win' \in [Windows -> Editor],
         \A v \in Windows : v # w => win'[v] = win[v], win'[w].loop # "await",
         UNCHANGED <<agent, closing, file, timeouts>>, commands' \in 0..MaxCommands,
         \A a \in Agents : ~Serving(conn[w], a)
  PROVE  IInv'
<1>1. conn \in [Windows -> Conn] /\ None \notin Agents
  BY BridgeAssumption DEF IInv, Shapes
<1>2. conn' \in [Windows -> Conn] /\ conn'[w] = NoConn /\ \A v \in Windows : v # w => conn'[v] = conn[v]
  BY <1>1, NoConnIs
<1>3. Shapes'
  BY <1>2 DEF IInv, Shapes
<1>4. /\ EndsAgree(conn'[w]) /\ (win'[w].loop = "await" <=> conn'[w].near # "none")
      /\ \A a \in Agents : Serving(conn'[w], a) <=> Serving(conn[w], a)
      /\ \A a \in Agents : conn'[w].to = a => agent[a].pc = "up"
  BY <1>1, <1>2, NoConnIs
<1> QED
  BY <1>2, <1>3, <1>4, ConnStep

\* The loop of w goes on; its window stays as it is.
LEMMA LoopMoves ==
  ASSUME IInv, NEW w \in Windows, NEW l \in {"load", "await", "sleep", "ended"},
         win' = [win EXCEPT ![w].loop = l]
  PROVE  /\ win' \in [Windows -> Editor] /\ win'[w].loop = l
         /\ \A v \in Windows : v # w => win'[v] = win[v]
BY DEF IInv, Shapes, Editor

\* runLoop, connectOnce
LEMMA RunLoopStep ==
  ASSUME IInv, NEW w \in Windows, RunLoop(w)
  PROVE  IInv'
<1>1. win[w].loop = "load" /\ UNCHANGED <<agent, closing, file, commands, timeouts>>
  BY DEF RunLoop
<1>2. conn[w] = NoConn /\ conn \in [Windows -> Conn] /\ commands \in 0..MaxCommands
  BY <1>1, NoneAwaited DEF IInv, Shapes
<1>3. ASSUME conn' = conn, NEW l \in {"sleep", "ended"}, win' = [win EXCEPT ![w].loop = l]
      PROVE  IInv'
  <2>1. conn' = [conn EXCEPT ![w] = NoConn]
    BY <1>2, <1>3
  <2>2. /\ win' \in [Windows -> Editor] /\ win'[w].loop = l
        /\ \A v \in Windows : v # w => win'[v] = win[v]
    BY <1>3, LoopMoves
  <2>3. \A a \in Agents : ~Serving(conn[w], a)
    BY <1>2, NoConnIs
  <2> QED
    BY <1>1, <1>2, <2>1, <2>2, <2>3, DropStep
<1>4. ASSUME file \in Agents, win' = [win EXCEPT ![w].loop = "await"],
             conn' = [conn EXCEPT ![w] = [NoConn EXCEPT !.near = "connecting",
                                            !.port = agent[file].port, !.token = file]]
      PROVE  IInv'
  <2> DEFINE c1 == [NoConn EXCEPT !.near = "connecting"]
             c2 == [c1 EXCEPT !.port = agent[file].port]
             c  == [c2 EXCEPT !.token = file]
  <2>1. conn' = [conn EXCEPT ![w] = c]
    BY <1>4
  <2>2. agent[file].port \in Ports \cup {None} /\ None \notin Agents
    BY <1>4, BridgeAssumption DEF IInv, Shapes, Process
  <2>3. c \in Conn /\ EndsAgree(c) /\ c.near # "none" /\ c.to = None /\ \A a \in Agents : ~Serving(c, a)
    <3>1. c1 \in Conn /\ c1.near = "connecting" /\ c1.far = "none" /\ c1.to = None
      BY DEF NoConn, Conn
    <3> HIDE DEF c1
    <3>2. c2 \in Conn /\ c2.near = "connecting" /\ c2.far = "none" /\ c2.to = None
      BY <2>2, <3>1 DEF Conn
    <3> HIDE DEF c2
    <3>3. c \in Conn /\ c.near = "connecting" /\ c.far = "none" /\ c.to = None
      BY <1>4, <3>2 DEF Conn
    <3> HIDE DEF c
    <3> QED
      BY <2>2, <3>3 DEF EndsAgree, Serving
  <2> HIDE DEF c
  <2>4. conn' \in [Windows -> Conn] /\ conn'[w] = c /\ \A v \in Windows : v # w => conn'[v] = conn[v]
    BY <1>2, <2>1, <2>3
  <2>5. /\ win' \in [Windows -> Editor] /\ win'[w].loop = "await"
        /\ \A v \in Windows : v # w => win'[v] = win[v]
    BY <1>4, LoopMoves
  <2>6. Shapes'
    BY <1>1, <2>4, <2>5 DEF IInv, Shapes
  <2>7. \A a \in Agents : ~Serving(conn[w], a)
    BY <1>2, NoConnIs
  <2>8. /\ EndsAgree(conn'[w]) /\ (win'[w].loop = "await" <=> conn'[w].near # "none")
        /\ \A a \in Agents : Serving(conn'[w], a) <=> Serving(conn[w], a)
        /\ \A a \in Agents : conn'[w].to = a => agent[a].pc = "up"
    BY <2>2, <2>3, <2>4, <2>5, <2>7
  <2> QED
    BY <1>1, <2>4, <2>5, <2>6, <2>8, ConnStep
<1> QED
  BY <1>3, <1>4 DEF RunLoop, Dial, Settled

\* waitBackoff
LEMMA WakeStep ==
  ASSUME IInv, NEW w \in Windows, Wake(w)
  PROVE  IInv'
<1>1. /\ win[w].loop = "sleep" /\ UNCHANGED <<agent, closing, file, conn, commands, timeouts>>
      /\ win' = [win EXCEPT ![w].loop = "load"]
  BY DEF Wake
<1>2. conn[w] = NoConn /\ conn \in [Windows -> Conn] /\ commands \in 0..MaxCommands
  BY <1>1, NoneAwaited DEF IInv, Shapes
<1>3. conn' = [conn EXCEPT ![w] = NoConn]
  BY <1>1, <1>2
<1>4. /\ win' \in [Windows -> Editor] /\ win'[w].loop = "load"
      /\ \A v \in Windows : v # w => win'[v] = win[v]
  BY <1>1, LoopMoves
<1>5. \A a \in Agents : ~Serving(conn[w], a)
  BY <1>2, NoConnIs
<1> QED
  BY <1>1, <1>2, <1>3, <1>4, <1>5, DropStep

\* finish
LEMMA FinishStep ==
  ASSUME IInv, NEW w \in Windows, Finish(w)
  PROVE  IInv'
<1>1. /\ conn' = [conn EXCEPT ![w] = NoConn] /\ win' = [win EXCEPT ![w].loop = "sleep"]
      /\ UNCHANGED <<agent, closing, file, commands, timeouts>>
  BY DEF Finish, Settled
<1>2. conn[w].far \in {"closed", "none"}
  BY DEF Finish, Refused
<1>3. \A a \in Agents : ~Serving(conn[w], a)
  BY <1>2 DEF Serving
<1>4. /\ win' \in [Windows -> Editor] /\ win'[w].loop = "sleep"
      /\ \A v \in Windows : v # w => win'[v] = win[v]
  BY <1>1, LoopMoves
<1>5. commands' \in 0..MaxCommands
  BY <1>1 DEF IInv, Shapes
<1> QED
  BY <1>1, <1>3, <1>4, <1>5, DropStep

\* closeSocket
LEMMA CloseSocketStep ==
  ASSUME IInv, NEW w \in Windows, NEW d \in BOOLEAN, CloseSocket(w, d), commands' \in 0..MaxCommands
  PROVE  IInv'
<1> DEFINE l == IF conn[w].near = "connecting" THEN "sleep" ELSE win[w].loop
           e == [disposed |-> d, loop |-> l]
<1>1. conn \in [Windows -> Conn] /\ win \in [Windows -> Editor] /\ None \notin Agents
  BY BridgeAssumption DEF IInv, Shapes
<1>2. /\ conn' = [conn EXCEPT ![w] = Closed(w)] /\ win' = [win EXCEPT ![w] = e]
      /\ UNCHANGED <<agent, closing, file, timeouts>>
  BY <1>1 DEF CloseSocket
<1>3. e \in Editor /\ e.loop = l
  BY <1>1 DEF Editor
<1> HIDE DEF e
<1>4. win' \in [Windows -> Editor] /\ win'[w].loop = l /\ \A v \in Windows : v # w => win'[v] = win[v]
  BY <1>1, <1>2, <1>3
<1>5. CASE conn[w].near = "connecting"
  <2>1. Closed(w) = NoConn /\ l # "await"
    BY <1>5 DEF Closed
  <2>2. \A a \in Agents : ~Serving(conn[w], a)
    BY <1>5 DEF IInv, LoopsOK, EndsAgree, Serving
  <2> QED
    BY <1>2, <1>4, <2>1, <2>2, DropStep
<1>6. CASE conn[w].near # "connecting"
  <2> DEFINE c == Closed(w)
  <2>1. EndsAgree(conn[w]) /\ (win[w].loop = "await" <=> conn[w].near # "none") /\ conn[w] \in Conn
    BY <1>1 DEF IInv, LoopsOK
  <2>2. /\ c \in Conn /\ EndsAgree(c) /\ (c.near = "none" <=> conn[w].near = "none")
        /\ c.to = conn[w].to /\ c.far = conn[w].far
    <3>1. CASE conn[w].near = "open"
      <4>1. c = [conn[w] EXCEPT !.near = "closing"]
        BY <1>6, <3>1 DEF Closed
      <4>2. c \in Conn /\ c.near = "closing" /\ c.to = conn[w].to /\ c.far = conn[w].far /\ c.token = conn[w].token
        BY <2>1, <4>1 DEF Conn
      <4> HIDE DEF c
      <4> QED
        BY <2>1, <3>1, <4>2 DEF EndsAgree
    <3>2. CASE conn[w].near # "open"
      BY <1>6, <2>1, <3>2 DEF Closed
    <3> QED
      BY <3>1, <3>2
  <2>3. l = win[w].loop
    BY <1>6
  <2> HIDE DEF c, l
  <2>4. conn' \in [Windows -> Conn] /\ conn'[w] = c /\ \A v \in Windows : v # w => conn'[v] = conn[v]
    BY <1>1, <1>2, <2>2 DEF c
  <2>5. Shapes'
    BY <1>2, <1>4, <2>4 DEF IInv, Shapes
  <2>6. /\ EndsAgree(conn'[w]) /\ (win'[w].loop = "await" <=> conn'[w].near # "none")
        /\ \A a \in Agents : Serving(conn'[w], a) <=> Serving(conn[w], a)
    BY <1>4, <2>1, <2>2, <2>3, <2>4 DEF Serving
  <2>7. \A a \in Agents : conn'[w].to = a => agent[a].pc = "up"
    BY <2>2, <2>4 DEF IInv, ServersAreUp
  <2> QED
    BY <1>2, <1>4, <2>4, <2>5, <2>6, <2>7, ConnStep
<1> QED
  BY <1>5, <1>6

\* "Reconnect to Local Agent", and the end of a window.
LEMMA CommandStep ==
  ASSUME IInv, NEW w \in Windows, Reconnect(w) \/ Dispose(w)
  PROVE  IInv'
<1>1. commands \in 0..MaxCommands /\ MaxCommands \in Nat
  BY BridgeAssumption DEF IInv, Shapes
<1>2. (commands < MaxCommands /\ commands' = commands + 1) \/ commands' = commands
  BY DEF Reconnect, Dispose
<1>3. commands' \in 0..MaxCommands
  BY <1>1, <1>2
<1>4. CloseSocket(w, FALSE) \/ CloseSocket(w, TRUE)
  BY DEF Reconnect, Dispose
<1>5. FALSE \in BOOLEAN /\ TRUE \in BOOLEAN
  OBVIOUS
<1> QED
  BY <1>3, <1>4, <1>5, CloseSocketStep, Zenon

-----------------------------------------------------------------------------
(* The bridge serves                                                       *)

\* The TCP connection is accepted.
LEMMA AcceptStep ==
  ASSUME IInv, NEW a \in Agents, NEW w \in Windows, Accept(a, w)
  PROVE  IInv'
<1> DEFINE c1 == [conn[w] EXCEPT !.far = "http"]
           c  == [c1 EXCEPT !.to = a]
<1>1. conn \in [Windows -> Conn] /\ None \notin Agents
  BY BridgeAssumption DEF IInv, Shapes
<1>2. /\ conn[w].near = "connecting" /\ conn[w].far = "none" /\ agent[a].pc = "up"
      /\ UNCHANGED <<agent, closing, file, win, commands, timeouts>>
  BY DEF Accept
<1>3. conn' = [conn EXCEPT ![w] = c]
  BY <1>1 DEF Accept
<1>4. c \in Conn /\ c.near = "connecting" /\ c.far = "http" /\ c.to = a
  BY <1>1, <1>2 DEF Conn
<1> HIDE DEF c
<1>5. conn' \in [Windows -> Conn] /\ conn'[w] = c /\ \A v \in Windows : v # w => conn'[v] = conn[v]
  BY <1>1, <1>3, <1>4
<1>6. Shapes'
  BY <1>2, <1>5 DEF IInv, Shapes
<1>7. EndsAgree(conn'[w]) /\ \A b \in Agents : Serving(conn'[w], b) <=> Serving(conn[w], b)
  BY <1>1, <1>2, <1>4, <1>5 DEF EndsAgree, Serving
<1>8. win'[w].loop = "await" <=> conn'[w].near # "none"
  BY <1>2, <1>4, <1>5 DEF IInv, LoopsOK
<1>9. \A b \in Agents : conn'[w].to = b => agent[b].pc = "up"
  BY <1>2, <1>4, <1>5
<1> QED
  BY <1>2, <1>5, <1>6, <1>7, <1>8, <1>9, ConnStep

\* handleIPC compares the token.
LEMMA HandleIPCStep ==
  ASSUME IInv, NEW w \in Windows, HandleIPC(w)
  PROVE  IInv'
<1>1. conn \in [Windows -> Conn] /\ commands \in 0..MaxCommands
  BY DEF IInv, Shapes
<1>2. conn[w].far = "http" /\ UNCHANGED <<agent, closing, file, commands, timeouts>>
  BY DEF HandleIPC
<1>3. \A a \in Agents : ~Serving(conn[w], a)
  BY <1>2 DEF Serving
<1>4. CASE TokenMatches(w) /\ conn' = [conn EXCEPT ![w].near = "open", ![w].far = "accepted"] /\ UNCHANGED win
  <2> DEFINE c1 == [conn[w] EXCEPT !.near = "open"]
             c  == [c1 EXCEPT !.far = "accepted"]
  <2>1. conn' = [conn EXCEPT ![w] = c]
    BY <1>1, <1>4
  <2>2. c \in Conn /\ c.near = "open" /\ c.far = "accepted" /\ c.to = conn[w].to /\ c.token = conn[w].token
    BY <1>1 DEF Conn
  <2> HIDE DEF c
  <2>3. conn' \in [Windows -> Conn] /\ conn'[w] = c /\ \A v \in Windows : v # w => conn'[v] = conn[v]
    BY <1>1, <2>1, <2>2
  <2>4. Shapes'
    BY <1>2, <1>4, <2>3 DEF IInv, Shapes
  <2>5. conn[w].near # "none" /\ conn[w].to # None
    BY <1>2 DEF IInv, LoopsOK, EndsAgree
  <2>6. EndsAgree(conn'[w])
    BY <1>4, <2>2, <2>3, <2>5 DEF EndsAgree, TokenMatches
  <2>7. win'[w].loop = "await" <=> conn'[w].near # "none"
    BY <1>4, <2>2, <2>3, <2>5 DEF IInv, LoopsOK
  <2>8. /\ \A a \in Agents : Serving(conn'[w], a) <=> Serving(conn[w], a)
        /\ \A a \in Agents : conn'[w].to = a => agent[a].pc = "up"
    BY <1>3, <2>2, <2>3 DEF Serving, IInv, ServersAreUp
  <2> QED
    BY <1>2, <1>4, <2>3, <2>4, <2>6, <2>7, <2>8, ConnStep
<1>5. CASE conn' = [conn EXCEPT ![w] = NoConn] /\ Settled(w)
  <2>1. /\ win' \in [Windows -> Editor] /\ win'[w].loop = "sleep"
        /\ \A v \in Windows : v # w => win'[v] = win[v]
    BY <1>5, LoopMoves DEF Settled
  <2> QED
    BY <1>1, <1>2, <1>3, <1>5, <2>1, DropStep
<1> QED
  BY <1>4, <1>5 DEF HandleIPC

\* ide.register makes the window a client.
LEMMA TrackClientStep ==
  ASSUME IInv, NEW w \in Windows, TrackClient(w)
  PROVE  IInv'
<1> DEFINE a == conn[w].to
           c == [conn[w] EXCEPT !.far = "tracked"]
           r == [agent[a] EXCEPT !.conns = @ \cup {w}]
<1>1. conn \in [Windows -> Conn] /\ agent \in [Agents -> Process]
  BY DEF IInv, Shapes
<1>2. conn[w].far = "accepted" /\ UNCHANGED <<closing, file, win, commands, timeouts>>
  BY DEF TrackClient
<1>3. /\ a # None /\ conn[w].near \in {"open", "closing"} /\ conn[w].token = a
      /\ (win[w].loop = "await" <=> conn[w].near # "none")
  BY <1>2 DEF IInv, LoopsOK, EndsAgree
<1>4. a \in Agents
  BY <1>1, <1>3 DEF Conn
<1>5. conn' = [conn EXCEPT ![w] = c] /\ agent' = [agent EXCEPT ![a] = r]
  BY <1>1, <1>4 DEF TrackClient
<1>6. c \in Conn /\ c.near = conn[w].near /\ c.far = "tracked" /\ c.to = a /\ c.token = conn[w].token
  BY <1>1 DEF Conn
<1>7. r \in Process /\ r.pc = agent[a].pc /\ r.conns = agent[a].conns \cup {w}
  BY <1>1, <1>4 DEF Process
<1> HIDE DEF a, c, r
<1>8. conn' \in [Windows -> Conn] /\ conn'[w] = c /\ \A v \in Windows : v # w => conn'[v] = conn[v]
  BY <1>1, <1>5, <1>6
<1>9. agent' \in [Agents -> Process] /\ agent'[a] = r /\ \A b \in Agents : b # a => agent'[b] = agent[b]
  BY <1>1, <1>4, <1>5, <1>7
<1>10. Shapes'
  BY <1>2, <1>8, <1>9 DEF IInv, Shapes
<1>11. LoopsOK'
  <2>1. EndsAgree(c)
    BY <1>3, <1>6 DEF EndsAgree
  <2> QED
    BY <1>2, <1>3, <1>6, <1>8, <2>1 DEF IInv, LoopsOK
<1>12. \A b \in Agents : agent'[b].pc = agent[b].pc
  BY <1>7, <1>9
<1>13. ServersAreUp'
  BY <1>6, <1>8, <1>12 DEF IInv, ServersAreUp, a
<1>14. Clients'
  <2>1. ASSUME NEW b \in Agents, NEW v \in Windows PROVE ClientOf(b, v)'
    <3>1. ClientOf(b, v)
      BY DEF IInv, Clients
    <3>2. CASE v # w
      <4>1. v \in agent'[b].conns <=> v \in agent[b].conns
        BY <1>7, <1>9, <3>2
      <4> QED
        BY <1>2, <1>8, <3>1, <3>2, <4>1 DEF ClientOf
    <3>3. CASE v = w
      <4>1. ~Serving(conn[w], b)
        BY <1>2 DEF Serving
      <4>2. w \notin agent[b].conns /\ ~InHands(closing[b], w)
        BY <3>1, <3>3, <4>1 DEF ClientOf
      <4>3. Serving(conn'[w], b) <=> b = a
        BY <1>6, <1>8 DEF Serving
      <4>4. w \in agent'[b].conns <=> b = a
        BY <1>7, <1>9, <4>2
      <4> QED
        BY <1>2, <3>3, <4>2, <4>3, <4>4 DEF ClientOf
    <3> QED
      BY <3>2, <3>3
  <2> QED
    BY <2>1 DEF Clients
<1>15. ClosesOK'
  BY <1>2, <1>12 DEF IInv, ClosesOK
<1> QED
  BY <1>10, <1>11, <1>13, <1>14, <1>15 DEF IInv

\* The client is told that it is registered.
LEMMA WriteRegisteredStep ==
  ASSUME IInv, NEW w \in Windows, WriteRegistered(w)
  PROVE  IInv'
<1> DEFINE c == [conn[w] EXCEPT !.far = "registered"]
<1>1. conn \in [Windows -> Conn]
  BY DEF IInv, Shapes
<1>2. /\ conn[w].far = "tracked" /\ conn' = [conn EXCEPT ![w] = c]
      /\ UNCHANGED <<agent, closing, file, win, commands, timeouts>>
  BY <1>1 DEF WriteRegistered
<1>3. /\ c \in Conn /\ c.near = conn[w].near /\ c.far = "registered"
      /\ c.to = conn[w].to /\ c.token = conn[w].token
  BY <1>1 DEF Conn
<1> HIDE DEF c
<1>4. conn' \in [Windows -> Conn] /\ conn'[w] = c /\ \A v \in Windows : v # w => conn'[v] = conn[v]
  BY <1>1, <1>2, <1>3
<1>5. Shapes'
  BY <1>2, <1>4 DEF IInv, Shapes
<1>6. EndsAgree(conn[w]) /\ (win[w].loop = "await" <=> conn[w].near # "none")
  BY DEF IInv, LoopsOK
<1>7. EndsAgree(conn'[w]) /\ (win'[w].loop = "await" <=> conn'[w].near # "none")
  BY <1>2, <1>3, <1>4, <1>6 DEF EndsAgree
<1>8. /\ \A a \in Agents : Serving(conn'[w], a) <=> Serving(conn[w], a)
      /\ \A a \in Agents : conn'[w].to = a => agent[a].pc = "up"
  BY <1>2, <1>3, <1>4 DEF Serving, IInv, ServersAreUp
<1> QED
  BY <1>2, <1>4, <1>5, <1>7, <1>8, ConnStep

\* serveConn returns and its deferred calls run.
LEMMA ServeConnReturnsStep ==
  ASSUME IInv, NEW w \in Windows, conn[w].far \in {"accepted", "tracked", "registered"},
         ServeConnReturns(w), timeouts' \in 0..MaxTimeouts
  PROVE  IInv'
<1> DEFINE a == conn[w].to
           r == [agent[a] EXCEPT !.conns = @ \ {w}]
<1>1. conn \in [Windows -> Conn] /\ agent \in [Agents -> Process] /\ commands \in 0..MaxCommands
  BY DEF IInv, Shapes
<1>2. a # None /\ conn[w].near # "none"
  BY DEF IInv, LoopsOK, EndsAgree
<1>3. a \in Agents
  BY <1>1, <1>2 DEF Conn
<1>4. /\ conn' = Hangup({w}) /\ Forget(w) /\ UNCHANGED <<file, win, commands>>
      /\ agent' = [agent EXCEPT ![a] = r]
  BY <1>1, <1>3 DEF ServeConnReturns
<1>5. r \in Process /\ r.pc = agent[a].pc /\ r.conns = agent[a].conns \ {w}
  BY <1>1, <1>3 DEF Process
<1> HIDE DEF r
<1>6. agent' \in [Agents -> Process] /\ agent'[a] = r /\ \A b \in Agents : b # a => agent'[b] = agent[b]
  BY <1>1, <1>3, <1>4, <1>5
<1>7. SamePhases(Agents)
  BY <1>5, <1>6 DEF SamePhases
<1>8. \A b \in Agents : b # a => w \notin agent[b].conns
  BY DEF IInv, Clients, ClientOf, Serving
<1>9. \A b \in Agents : agent'[b].conns = agent[b].conns \ {w}
  BY <1>5, <1>6, <1>8
<1>10. commands' \in 0..MaxCommands
  BY <1>1, <1>4
<1> QED
  BY <1>2, <1>4, <1>6, <1>7, <1>9, <1>10, HangupStep

\* The three ways in which serveConn's read fails.
LEMMA ReadStep ==
  ASSUME IInv, NEW w \in Windows, ReadClose(w) \/ ReadIdle(w) \/ RegisterTimeout(w)
  PROVE  IInv'
<1>1. timeouts \in 0..MaxTimeouts /\ MaxTimeouts \in Nat
  BY BridgeAssumption DEF IInv, Shapes
<1>2. (timeouts < MaxTimeouts /\ timeouts' = timeouts + 1) \/ timeouts' = timeouts
  BY DEF ReadClose, ReadIdle, RegisterTimeout
<1>3. timeouts' \in 0..MaxTimeouts
  BY <1>1, <1>2
<1>4. conn[w].far \in {"accepted", "tracked", "registered"} /\ ServeConnReturns(w)
  BY DEF ReadClose, ReadIdle, RegisterTimeout
<1> QED
  BY <1>3, <1>4, ServeConnReturnsStep

-----------------------------------------------------------------------------
(* The theorems                                                            *)

\* Nothing runs and nothing is connected at first.
LEMMA InitInv == Init => IInv
<1> SUFFICES ASSUME Init PROVE IInv
  OBVIOUS
<1>1. Shapes
  BY BridgeAssumption, NoConnIs DEF Init, Shapes, Process, Closing, NotClosing, Editor
<1>2. LoopsOK
  BY NoConnIs DEF Init, LoopsOK
<1>3. ServersAreUp
  BY BridgeAssumption, NoConnIs DEF Init, ServersAreUp
<1>4. Clients
  BY NoConnIs DEF Init, Clients, ClientOf, InHands, NotClosing
<1>5. ClosesOK
  BY BridgeAssumption DEF Init, ClosesOK, NotClosing, Closers
<1> QED
  BY <1>1, <1>2, <1>3, <1>4, <1>5 DEF IInv

\* Every step of an agent, a window or the goroutine between them keeps it.
LEMMA NextInv == IInv /\ [Next]_vars => IInv'
<1> SUFFICES ASSUME IInv, [Next]_vars PROVE IInv'
  OBVIOUS
<1>1. ASSUME NEW a \in Agents, NEW k \in Closers, Close(a, k) PROVE IInv'
  BY <1>1, CloseTakeStep, CloseConnStep, CloseRestStep DEF Close
<1>2. ASSUME NEW w \in Windows, Serve(w) PROVE IInv'
  BY <1>2, HandleIPCStep, TrackClientStep, WriteRegisteredStep, ReadStep, AcceptStep DEF Serve
<1>3. ASSUME NEW w \in Windows, Window(w) PROVE IInv'
  BY <1>3, RunLoopStep, WakeStep, FinishStep DEF Window
<1>4. CASE UNCHANGED vars
  BY <1>4 DEF vars, IInv, Shapes, LoopsOK, ServersAreUp, Clients, ClientOf, ClosesOK
<1>5. CASE Next
  BY <1>1, <1>2, <1>3, <1>5, ListenStep, CreateEndpointStep, WriteEndpointStep, WriteFailsStep,
     SignalStep, ExitStep, CommandStep, ReadStep DEF Next
<1> QED
  BY <1>4, <1>5

\* Both ends of every connection, the clients of every bridge and the Close
\* calls of every agent agree, for any number of agents and windows.
THEOREM BridgeInvariance == Spec => []IInv
BY InitInv, NextInv, PTL DEF Spec

\* AgentIpcClient's loop awaits just when there is a socket to await, so it never
\* sleeps on a live connection and never waits for one that is gone.
THEOREM BridgeTypeCorrect == Spec => []TypeOK
<1>1. IInv => TypeOK
  BY DEF IInv, Shapes, LoopsOK, TypeOK, Process, Closing, Editor, Conn
<1> QED
  BY <1>1, BridgeInvariance, PTL

\* trackClient, untrack and Close: a client is in conns or in the hands of a
\* Close just while its connection is served, and handleIPC lets in only the
\* windows that hold this agent's token.
THEOREM ClientsFollowConnections == Spec => []ClientsAreConnections
<1>1. IInv => ClientsAreConnections
  <2> SUFFICES ASSUME IInv, NEW a \in Agents, NEW w \in Windows
               PROVE  /\ Serving(conn[w], a) <=>
                           (w \in agent[a].conns \/ \E k \in Closers : w \in closing[a][k].held)
                      /\ Serving(conn[w], a) => conn[w].token = a
    BY DEF ClientsAreConnections, Serving
  <2>1. Serving(conn[w], a) => conn[w].token = a
    BY DEF IInv, LoopsOK, EndsAgree, Serving
  <2> QED
    BY <2>1 DEF IInv, Clients, ClientOf, InHands
<1> QED
  BY <1>1, BridgeInvariance, PTL

\* removeEndpoint: main returns after a Close of its own has removed the file,
\* and nobody writes the endpoint of an ended agent again, whatever the other
\* Close and the agent's successor do to the file meanwhile.
THEOREM ExitLeavesNoEndpoint == Spec => []ExitRemovesEndpoint
<1>1. IInv => ExitRemovesEndpoint
  BY DEF IInv, ClosesOK, ExitRemovesEndpoint
<1> QED
  BY <1>1, BridgeInvariance, PTL

=============================================================================
