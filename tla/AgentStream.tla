---------------------------- MODULE AgentStream ----------------------------
(***************************************************************************)
(* The Local Agent's end of its one stream to the server: recvLoop and its *)
(* two bounded channels, transport.Loop with the dispatcher and the tools  *)
(* that run a process, Hub.Listen and the Broadcast to the IDE windows;    *)
(* and, at the other end, the questions AgentSessionService asks about a   *)
(* chat that names no file.                                                *)
(*                                                                         *)
(* Requests and events share the stream and recvLoop, each kind has one    *)
(* goroutine that serves it, and neither a process nor a window has to     *)
(* let go of the goroutine that waits for it.                              *)
(***************************************************************************)
EXTENDS Naturals, Sequences, FiniteSets, Functions

CONSTANTS
  Calls, FormOf,           \* tool requests, and what each one asks for
  Chats, Windows,
  Loads,                   \* what can come together: calls, chats, windows, stalls of these
  RequestCap, EventCap,    \* the capacities of the channels
  None

\* malformed: HandleEnvelope refuses the envelope.  unknown: no such tool.
\* read: a tool without a process.  build: build.run and test.run.  git:
\* git.status, the one that runs several commands.
Forms == {"malformed", "unknown", "read", "build", "git"}

\* What the server sends, and what comes back from the user.
Requests == [kind : {"request"}, of : Calls]
Events   == [kind : {"question.ask", "workflow.progress", "design.review"}, of : Chats]
Submits  == [kind : {"chat.submit"}, of : Chats]
UserAnswers == [kind : {"question.answer"}, of : Chats, by : Windows, blank : BOOLEAN]

\* Why a run ended early, and what a response says went wrong.
Causes == {"TIMEOUT", "CANCELLED"}
Errors == {"INVALID_REQUEST", "TOOL_NOT_SUPPORTED", "REFUSED", "INTERNAL_ERROR", "RUN_FAILED",
           "PROCESS_TIMEOUT", "PROCESS_CANCELLED", "GIT_NOT_AVAILABLE"}

ASSUME StreamAssumption ==
  /\ FormOf \in [Calls -> Forms]
  /\ \A l \in Loads : /\ l.calls \subseteq Calls /\ l.chats \subseteq Chats
                     /\ l.windows \subseteq Windows /\ l.stalls \in Nat
  /\ {RequestCap, EventCap} \subseteq Nat \ {0}
  /\ IsFiniteSet(Windows)
  /\ None \notin Calls \cup Chats \cup Windows
  /\ None \notin Requests \cup Events \cup UserAnswers
  /\ None \notin Causes \cup Errors

VARIABLES
  load,      \* one of Loads
  link,      \* the stream is up
  ctx,       \* the agent has not been told to stop
  wire,      \* envelopes from the server, in order
  recv,      \* the envelope recvLoop holds
  requests, events,   \* the channels
  dropped,   \* envelopes recvLoop gave up on
  loop,      \* transport.Loop: the call it serves and how far it is
  proc,      \* the process it waits for
  reply,     \* what the server was told about each call
  hub,       \* Hub.Listen: the event it pushes and the windows left to write to, in order
  window,    \* the windows and their connections
  inbox,     \* events under way to the server
  pendingChats, verdict, submits, stalls

tools    == <<loop, proc, reply>>
ide      == <<hub, window, stalls>>
server   == <<inbox, pendingChats, verdict, submits>>
channels == <<recv, requests, events, dropped>>
vars     == <<load, link, ctx, wire, channels, tools, ide, server>>

Request(c)   == [kind |-> "request", of |-> c]
Ask(q)       == [kind |-> "question.ask", of |-> q]
Progress(q)  == [kind |-> "workflow.progress", of |-> q]
Review(q)    == [kind |-> "design.review", of |-> q]

NoProcess == [state |-> "none", code |-> 0, cause |-> None, heir |-> FALSE]
Receiving == [pc |-> "receive", call |-> None, cmd |-> 0, res |-> None, last |-> NoProcess]
Listening == [event |-> None, left |-> <<>>]

Init ==
  /\ load \in Loads
  /\ link = TRUE /\ ctx = TRUE
  /\ wire = <<>> /\ recv = None /\ requests = <<>> /\ events = <<>> /\ dropped = {}
  /\ loop = Receiving /\ proc = NoProcess
  /\ reply = [c \in Calls |-> None]
  /\ hub = Listening
  /\ window = [w \in Windows |-> [open |-> w \in load.windows, reads |-> TRUE,
                                  owes |-> FALSE, shows |-> {}, seen |-> {}]]
  /\ inbox = {} /\ pendingChats = {} /\ stalls = 0
  /\ verdict = [q \in Chats |-> None]
  /\ submits = [q \in Chats |-> 0]

-----------------------------------------------------------------------------
(* The stream: GrpcToolSession.send, recvLoop                              *)

Asked == {c \in Calls : \/ reply[c] # None \/ loop.call = c
                        \/ \E m \in Range(wire) \cup Range(requests) \cup {recv} \cup dropped :
                             m = Request(c)}

\* The server sends a request.
Call(c) ==
  /\ link /\ c \in load.calls \ Asked
  /\ wire' = Append(wire, Request(c))
  /\ UNCHANGED <<load, link, ctx, channels, tools, ide, server>>

\* Recv and FromProto, which refuses no envelope that the server builds.
Recv ==
  /\ recv = None /\ wire # <<>>
  /\ recv' = Head(wire) /\ wire' = Tail(wire)
  /\ UNCHANGED <<load, link, ctx, requests, events, dropped, tools, ide, server>>

\* MUTANT: recvLoop waits for its channel as long as it takes.
MutGivesUp == FALSE

\* The channel is full for five seconds.
GivesUp ==
  IF recv.kind = "request" THEN Len(requests) = RequestCap ELSE Len(events) = EventCap

\* The select of recvLoop: the channel takes the envelope, or it is dropped.
Enqueue ==
  /\ recv # None
  /\ \/ /\ recv.kind = "request" /\ Len(requests) < RequestCap
        /\ requests' = Append(requests, recv)
        /\ UNCHANGED <<events, dropped>>
     \/ /\ recv.kind # "request" /\ Len(events) < EventCap
        /\ events' = Append(events, recv)
        /\ UNCHANGED <<requests, dropped>>
     \/ /\ GivesUp
        /\ dropped' = dropped \cup {recv}
        /\ UNCHANGED <<requests, events>>
  /\ recv' = None
  /\ UNCHANGED <<load, link, ctx, wire, tools, ide, server>>

\* The connection is lost: Recv returns an error and recvLoop ends for good.
Break ==
  /\ link
  /\ link' = FALSE
  /\ wire' = <<>> /\ inbox' = {}
  /\ UNCHANGED <<load, ctx, channels, tools, ide, pendingChats, verdict, submits>>

-----------------------------------------------------------------------------
(* transport.Loop, HandleEnvelope, Dispatch                                *)

Response(status, error) == [status |-> status, error |-> error, named |-> TRUE]

\* errorEnvelope names no call.
Uncorrelated == [status |-> "FAILED", error |-> "INVALID_REQUEST", named |-> FALSE]

Answer(c, response) ==
  loop' = [loop EXCEPT !.pc = "send", !.call = c, !.res = response, !.last = proc]

\* ReceiveRequest, the checks of HandleEnvelope and Dispatch, and a tool up to
\* the point where it starts its process.
Handle ==
  /\ ctx /\ loop.pc = "receive" /\ requests # <<>>
  /\ requests' = Tail(requests)
  /\ LET c == Head(requests).of
     IN CASE FormOf[c] = "malformed" -> Answer(c, Uncorrelated)
          [] FormOf[c] = "unknown"   -> Answer(c, Response("FAILED", "TOOL_NOT_SUPPORTED"))
          [] FormOf[c] = "read"      -> \/ Answer(c, Response("SUCCESS", None))
                                        \/ Answer(c, Response("FAILED", "REFUSED"))
          [] OTHER -> \/ loop' = [loop EXCEPT !.pc = "start", !.call = c, !.cmd = 1]
                      \/ Answer(c, Response("FAILED", "REFUSED"))
  /\ UNCHANGED <<load, link, ctx, wire, recv, events, dropped, proc, reply, ide, server>>

\* Loop returns when its context ends or Send fails.
StopLoop ==
  /\ loop.pc \in {"receive", "send"}
  /\ ~ctx \/ (loop.pc = "send" /\ ~link)
  /\ loop' = [loop EXCEPT !.pc = "ended"]
  /\ UNCHANGED <<load, link, ctx, wire, channels, proc, reply, ide, server>>

SendResponse ==
  /\ loop.pc = "send" /\ link
  /\ reply' = [reply EXCEPT ![loop.call] = [res |-> loop.res, last |-> loop.last]]
  /\ loop' = Receiving
  /\ UNCHANGED <<load, link, ctx, wire, channels, proc, ide, server>>

-----------------------------------------------------------------------------
(* process.Run, the Maven adapters, gitOut                                 *)

\* git.status: branch, head, porcelain.
Commands(c) == IF FormOf[c] = "git" THEN 3 ELSE 1

\* git.status goes on after a success and after any failure of its second
\* command (a repository without commits has no head).
GoesOn(outcome) == outcome = "SUCCESS" \/ loop.cmd = 2

\* cmd.Start, which may fail; a cancelled context starts nothing and its error
\* comes first.
Start ==
  /\ loop.pc = "start"
  /\ \/ /\ loop' = [loop EXCEPT !.pc = "wait"]
        /\ proc' = IF ctx THEN [NoProcess EXCEPT !.state = "running"]
                   ELSE [NoProcess EXCEPT !.state = "ended", !.code = 1, !.cause = "CANCELLED"]
     \/ /\ ctx
        /\ IF GoesOn("FAILED") THEN loop' = [loop EXCEPT !.cmd = @ + 1]
           ELSE Answer(loop.call, Response("FAILED", "INTERNAL_ERROR"))
        /\ UNCHANGED proc
  /\ UNCHANGED <<load, link, ctx, wire, channels, reply, ide, server>>

\* The process ends; a descendant may still hold its output open.
Exit(code, heir) ==
  /\ proc.state = "running"
  /\ proc' = [proc EXCEPT !.state = "ended", !.code = code, !.heir = heir]
  /\ UNCHANGED <<load, link, ctx, wire, channels, loop, reply, ide, server>>

HeirExit ==
  /\ proc.heir
  /\ proc' = [proc EXCEPT !.heir = FALSE]
  /\ UNCHANGED <<load, link, ctx, wire, channels, loop, reply, ide, server>>

\* The deadline of runCtx passes while Run has not returned.
Deadline ==
  /\ proc.state # "none" /\ proc.cause = None
  /\ proc' = [proc EXCEPT !.cause = "TIMEOUT"]
  /\ UNCHANGED <<load, link, ctx, wire, channels, loop, reply, ide, server>>

\* CommandContext kills the process itself, not its descendants.
Kill(heir) ==
  /\ proc.state = "running" /\ proc.cause # None
  /\ proc' = [proc EXCEPT !.state = "ended", !.code = 1, !.heir = heir]
  /\ UNCHANGED <<load, link, ctx, wire, channels, loop, reply, ide, server>>

\* MUTANT: the exit code is looked at first.
MutOutcomeOf(p) ==
  IF p.code = 0 THEN "SUCCESS" ELSE IF p.cause # None THEN p.cause ELSE "FAILED"

\* The precedence of Run and statusOf.
OutcomeOf(p) ==
  IF p.cause # None THEN p.cause ELSE IF p.code = 0 THEN "SUCCESS" ELSE "FAILED"

\* The response of build.run and test.run.  Maven may report failed tests and
\* exit with 0.
BuildResponses(outcome) ==
  CASE outcome = "TIMEOUT"   -> {Response("TIMEOUT", "PROCESS_TIMEOUT")}
    [] outcome = "CANCELLED" -> {Response("CANCELLED", "PROCESS_CANCELLED")}
    [] outcome = "FAILED"    -> {Response("FAILED", "RUN_FAILED")}
    [] outcome = "SUCCESS"   -> {Response("SUCCESS", None), Response("FAILED", "RUN_FAILED")}

\* gitOut turns an outcome into an error, which mapError reports as FAILED.
GitError(outcome) ==
  Response("FAILED", CASE outcome = "TIMEOUT"   -> "PROCESS_TIMEOUT"
                       [] outcome = "CANCELLED" -> "PROCESS_CANCELLED"
                       [] OTHER                 -> "GIT_NOT_AVAILABLE")

\* cmd.Run returns once the process has ended and its output is closed.
Collect ==
  /\ loop.pc = "wait"
  /\ proc.state = "ended" /\ ~proc.heir
  /\ LET c == loop.call
         outcome == OutcomeOf(proc)
     IN IF FormOf[c] = "build"
        THEN \E r \in BuildResponses(outcome) : Answer(c, r)
        ELSE IF ~GoesOn(outcome) THEN Answer(c, GitError(outcome))
        ELSE IF loop.cmd = Commands(c) THEN Answer(c, Response("SUCCESS", None))
        ELSE loop' = [loop EXCEPT !.pc = "start", !.cmd = @ + 1]
  /\ proc' = NoProcess
  /\ UNCHANGED <<load, link, ctx, wire, channels, reply, ide, server>>

\* MUTANT: the cancellation is recorded whether or not there is a run.
MutCancelledRun(p) == [p EXCEPT !.cause = "CANCELLED"]

\* The first cause to end runCtx is the one it keeps.
CancelledRun(p) ==
  IF p.state # "none" /\ p.cause = None THEN [p EXCEPT !.cause = "CANCELLED"] ELSE p

\* SIGTERM: main's context is cancelled, and with it runCtx.
Stop ==
  /\ ctx
  /\ ctx' = FALSE
  /\ proc' = CancelledRun(proc)
  /\ UNCHANGED <<load, link, wire, channels, loop, reply, ide, server>>

-----------------------------------------------------------------------------
(* Hub.Listen, Broadcast                                                   *)

\* The orders in which Go may go through a map with these keys.
Orders(S) == {order \in [1..Cardinality(S) -> S] : IsInjective(order)}

\* Broadcast copies the connections first, and with them the order in which it
\* will write to them.  When the context has ended the select may still take an
\* event.
Listen ==
  /\ hub.event = None /\ events # <<>>
  /\ events' = Tail(events)
  /\ \E order \in Orders({w \in Windows : window[w].open}) :
       hub' = [event |-> Head(events), left |-> order]
  /\ UNCHANGED <<load, link, ctx, wire, recv, requests, dropped, tools, window, stalls, server>>

\* WriteJSON returns: the window reads, or its connection is closed.  The lock
\* of the connection is held by a reply that does not return either.
Writable(w) == window[w].reads \/ ~window[w].open

Received(w, m) ==
  IF window[w].open /\ m.kind = "question.ask"
  THEN [window[w] EXCEPT !.shows = @ \cup {m.of}, !.seen = @ \cup {m.of}]
  ELSE window[w]

\* The next connection; those behind it wait until its write has returned.
Push ==
  /\ hub.left # <<>>
  /\ LET w == Head(hub.left)
     IN  Writable(w) /\ window' = [window EXCEPT ![w] = Received(w, hub.event)]
  /\ hub' = [hub EXCEPT !.left = Tail(@)]
  /\ UNCHANGED <<load, link, ctx, wire, channels, tools, stalls, server>>

Pushed ==
  /\ hub.event # None /\ hub.left = <<>>
  /\ hub' = Listening
  /\ UNCHANGED <<load, link, ctx, wire, channels, tools, window, stalls, server>>

-----------------------------------------------------------------------------
(* The windows and serveConn                                               *)

\* A window's extension host hangs, and may come back.
Stall(w) ==
  /\ window[w].open /\ window[w].reads /\ stalls < load.stalls
  /\ window' = [window EXCEPT ![w].reads = FALSE]
  /\ stalls' = stalls + 1
  /\ UNCHANGED <<load, link, ctx, wire, channels, tools, hub, server>>

Resume(w) ==
  /\ window[w].open /\ ~window[w].reads
  /\ window' = [window EXCEPT ![w].reads = TRUE]
  /\ UNCHANGED <<load, link, ctx, wire, channels, tools, hub, stalls, server>>

\* serveConn reads the next frame of w only when it owes no reply.
Serves(w) == window[w].open /\ ~window[w].owes

\* submitChat: chat.accepted or an error goes back to the window.
Chat(w, q) ==
  /\ Serves(w) /\ window[w].reads
  /\ q \in load.chats
  /\ verdict[q] = None /\ q \notin pendingChats /\ \A m \in inbox : m.of # q
  /\ window' = [window EXCEPT ![w].owes = TRUE]
  /\ inbox' = IF link THEN inbox \cup {[kind |-> "chat.submit", of |-> q]} ELSE inbox
  /\ UNCHANGED <<load, link, ctx, wire, channels, tools, hub, stalls, pendingChats, verdict, submits>>

\* promptQuestion sends what the user typed; a box left empty or dismissed
\* sends nothing.  forwardAnswer replies only when it fails.
Answers(w, q, blank) ==
  /\ Serves(w) /\ window[w].reads /\ q \in window[w].shows
  /\ window' = [window EXCEPT ![w].shows = @ \ {q}, ![w].owes = ~link]
  /\ inbox' = IF link THEN inbox \cup {[kind |-> "question.answer", of |-> q,
                                       by |-> w, blank |-> blank]} ELSE inbox
  /\ UNCHANGED <<load, link, ctx, wire, channels, tools, hub, stalls, pendingChats, verdict, submits>>

Dismiss(w, q) ==
  /\ q \in window[w].shows /\ window[w].reads
  /\ window' = [window EXCEPT ![w].shows = @ \ {q}]
  /\ UNCHANGED <<load, link, ctx, wire, channels, tools, hub, stalls, server>>

WriteReply(w) ==
  /\ window[w].owes /\ Writable(w)
  /\ window' = [window EXCEPT ![w].owes = FALSE]
  /\ UNCHANGED <<load, link, ctx, wire, channels, tools, hub, stalls, server>>

\* MUTANT: no read deadline.
MutReadDeadline(w) == FALSE

\* readIdleTimeout ends a ReadJSON on a window that sends nothing, whether it
\* hangs or has nothing to say.
ReadDeadline(w) == Serves(w)

\* serveConn returns and closes the connection.
IdleCut(w) ==
  /\ ReadDeadline(w)
  /\ window' = [window EXCEPT ![w].open = FALSE, ![w].shows = {}]
  /\ UNCHANGED <<load, link, ctx, wire, channels, tools, hub, stalls, server>>

-----------------------------------------------------------------------------
(* AgentSessionService: onChat, onAnswer, emitOutcome                      *)

Emit(ms) == wire' = IF link THEN wire \o ms ELSE wire

\* The chat names no file: NeedQuestion.
OnChat(q) ==
  /\ [kind |-> "chat.submit", of |-> q] \in inbox
  /\ inbox' = inbox \ {[kind |-> "chat.submit", of |-> q]}
  /\ pendingChats' = pendingChats \cup {q}
  /\ Emit(<<Ask(q)>>)
  /\ UNCHANGED <<load, link, ctx, channels, tools, ide, verdict, submits>>

\* MUTANT: the pending chat is read and stays in the map.
MutAfterAnswer(q) == pendingChats

\* pendingChats.remove, whatever the answer says.
AfterAnswer(q) == pendingChats \ {q}

\* The first answer takes the chat; a blank one ends it without a word.
OnAnswer(m) ==
  /\ m \in inbox /\ m.kind = "question.answer"
  /\ inbox' = inbox \ {m}
  /\ pendingChats' = AfterAnswer(m.of)
  /\ verdict' = IF verdict[m.of] = None THEN [verdict EXCEPT ![m.of] = m] ELSE verdict
  /\ IF m.of \in pendingChats /\ ~m.blank
     THEN submits' = [submits EXCEPT ![m.of] = @ + 1] /\ Emit(<<Progress(m.of), Review(m.of)>>)
     ELSE UNCHANGED <<submits, wire>>
  /\ UNCHANGED <<load, link, ctx, channels, tools, ide>>

-----------------------------------------------------------------------------
Next ==
  \/ \E c \in Calls : Call(c)
  \/ Recv \/ Enqueue \/ Break
  \/ Handle \/ StopLoop \/ SendResponse
  \/ Start \/ HeirExit \/ Deadline \/ Collect \/ Stop
  \/ \E heir \in BOOLEAN : Kill(heir) \/ \E code \in {0, 1} : Exit(code, heir)
  \/ Listen \/ Push \/ Pushed
  \/ \E w \in Windows :
       \/ Stall(w) \/ Resume(w) \/ WriteReply(w) \/ IdleCut(w)
       \/ \E q \in Chats : \/ Chat(w, q) \/ Dismiss(w, q)
                           \/ \E blank \in BOOLEAN : Answers(w, q, blank)
  \/ \E q \in Chats : OnChat(q)
  \/ \E m \in inbox : OnAnswer(m)

Spec == Init /\ [][Next]_vars

\* The agent's goroutines run and its timers fire; the stream delivers what it
\* holds.  Nothing is assumed of processes, their descendants, windows, users:
\* only a window that hangs is sure to send nothing until its deadline.
FairSpec ==
  /\ Spec
  /\ WF_vars(Recv) /\ WF_vars(Enqueue) /\ WF_vars(Handle) /\ WF_vars(SendResponse)
  /\ WF_vars(Start) /\ WF_vars(Collect) /\ WF_vars(Deadline)
  /\ WF_vars(\E heir \in BOOLEAN : Kill(heir))
  /\ WF_vars(Listen) /\ WF_vars(Push) /\ WF_vars(Pushed)
  /\ \A w \in Windows : WF_vars(WriteReply(w)) /\ WF_vars(~window[w].reads /\ IdleCut(w))

-----------------------------------------------------------------------------
(* Properties                                                              *)

\* Types; the channels keep to their capacities, and a process is waited for
\* exactly while Loop is in Run.
TypeOK ==
  /\ Len(requests) <= RequestCap /\ Len(events) <= EventCap
  /\ loop.pc \in {"receive", "start", "wait", "send", "ended"}
  /\ loop.call \in Calls \cup {None} /\ loop.cmd \in 0..3
  /\ proc.state # "none" <=> loop.pc = "wait"
  /\ proc.state = "none" => proc = NoProcess
  /\ proc.heir => proc.state = "ended"
  /\ hub.left # <<>> => hub.event # None
  /\ pendingChats \subseteq Chats
  /\ submits \in [Chats -> Nat]

\* process.Run, statusOf, gitOut and the tool handlers: what the server is told
\* of a call that ran processes is what became of the last of them.  SUCCESS
\* means it ended by itself with 0 before its deadline; a timeout and a
\* cancellation are told as such by both families of tools; nothing is
\* CANCELLED unless the agent is stopping.
RepliesAreTrue ==
  \A c \in Calls : reply[c] # None /\ reply[c].last.state = "ended" =>
    LET told == reply[c].res
        last == reply[c].last
    IN /\ told.status = "SUCCESS" => last.code = 0 /\ last.cause = None
       /\ told.error = "PROCESS_TIMEOUT" <=> last.cause = "TIMEOUT"
       /\ told.error = "PROCESS_CANCELLED" <=> last.cause = "CANCELLED"
       /\ last.cause = "CANCELLED" => ~ctx

\* Every window is asked, and any of them may answer.  The chat is submitted
\* again for the first answer that reaches the server and for no other, and
\* for none if that one is blank.
FirstAnswerDecides ==
  \A q \in Chats :
    submits[q] = IF verdict[q] # None /\ ~verdict[q].blank THEN 1 ELSE 0

\* A window that has stopped reading while serveConn writes it a reply has no
\* read deadline.
Wedged(w) == window[w].open /\ window[w].owes /\ ~window[w].reads

\* One request at a time, behind whatever events the Hub is slow to take: each
\* request is answered or dropped, whatever its process does, as long as no
\* descendant of a process keeps the output open for ever.
RequestsSettle ==
  []<>(~proc.heir) =>
    \A c \in Calls :
      c \in Asked ~> \/ reply[c] # None \/ Request(c) \in dropped
                     \/ ~link \/ ~ctx

\* Broadcast writes to one window after the other, without a deadline.  A window
\* that does not stop reading for good gets every question or loses its connection,
\* although the one before it in Broadcast has stopped, unless the question was
\* dropped: the read deadline of the other one ends the write, if serveConn does
\* not owe that window a reply as well.
QuestionsReachWindows ==
  []<>(\A w \in Windows : ~Wedged(w)) =>
    \A q \in Chats, w \in Windows :
      []<>window[w].reads =>
        (q \in pendingChats ~> \/ q \in window[w].seen \/ ~window[w].open
                               \/ Ask(q) \in dropped \/ ~link \/ ~ctx)

=============================================================================
