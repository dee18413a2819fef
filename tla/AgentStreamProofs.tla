------------------------- MODULE AgentStreamProofs -------------------------
(***************************************************************************)
(* Proofs about the agent's end of its stream: the channels of recvLoop,   *)
(* what transport.Loop tells the server about the processes it ran, and    *)
(* the answer that decides a question.  For any number of calls, chats and *)
(* windows and any capacity of the channels.                               *)
(***************************************************************************)
EXTENDS AgentStream, FiniteSetTheorems, TLAPS

-----------------------------------------------------------------------------
(* The inductive invariant                                                 *)

Result  == [status : {"SUCCESS", "FAILED"} \cup Causes, error : Errors \cup {None}, named : BOOLEAN]
Process == [state : {"none", "running", "ended"}, code : {0, 1}, cause : Causes \cup {None},
            heir : BOOLEAN]
Loop    == [pc : {"receive", "start", "wait", "send", "ended"}, call : Calls \cup {None},
            cmd : 0..3, res : Result \cup {None}, last : Process]
Told    == [res : Result, last : Process]
Screen  == [open : BOOLEAN, reads : BOOLEAN, owes : BOOLEAN, shows : SUBSET Chats, seen : SUBSET Chats]

\* The stream and the channels.
ChannelsOK ==
  /\ wire \in Seq(Requests \cup Events)
  /\ recv \in Requests \cup Events \cup {None}
  /\ requests \in Seq(Requests) /\ Len(requests) <= RequestCap
  /\ events \in Seq(Events) /\ Len(events) <= EventCap

\* A response is true of the last process of its call.
IsTrue(told, last) ==
  last.state = "ended" =>
    /\ told.status = "SUCCESS" => last.code = 0 /\ last.cause = None
    /\ told.error = "PROCESS_TIMEOUT" <=> last.cause = "TIMEOUT"
    /\ told.error = "PROCESS_CANCELLED" <=> last.cause = "CANCELLED"

\* Nothing is cancelled while the agent runs.
CancelledBy(running, p) == p.cause = "CANCELLED" => ~running

\* Loop runs the commands of a call one after the other.
Running(l) ==
  l.pc \in {"start", "wait"} =>
    /\ l.call \in Calls /\ l.cmd \in 1..3
    /\ FormOf[l.call] = "build" => l.cmd = 1
    /\ FormOf[l.call] \in {"build", "git"}

\* It sends a true response.
Sending(l, running) ==
  l.pc = "send" => /\ l.call \in Calls /\ l.res \in Result
                   /\ IsTrue(l.res, l.last) /\ CancelledBy(running, l.last)

\* The process is there just while Loop waits for it.
Waited(l, p) ==
  /\ p.state # "none" <=> l.pc = "wait"
  /\ p.state = "none" => p = NoProcess
  /\ p.heir => p.state = "ended"

ToolsOK ==
  /\ loop \in Loop /\ proc \in Process /\ ctx \in BOOLEAN
  /\ Running(loop) /\ Sending(loop, ctx) /\ Waited(loop, proc) /\ CancelledBy(ctx, proc)

RepliesOK ==
  /\ reply \in [Calls -> Told \cup {None}]
  /\ \A c \in Calls : reply[c] # None =>
       IsTrue(reply[c].res, reply[c].last) /\ CancelledBy(ctx, reply[c].last)

\* The windows, and the event the Hub pushes to them.
WindowsOK ==
  /\ window \in [Windows -> Screen]
  /\ hub \in [event : Events \cup {None}, left : Seq(Windows)]
  /\ hub.left # <<>> => hub.event # None

\* The question of chat q is open or answered.
Posed(pend, verd, q) == q \in pend \/ verd[q] # None

\* No question is under way that was not posed.
Known(pend, verd, m) == m # None /\ m.kind = "question.ask" => Posed(pend, verd, m.of)

AllKnown(pend, verd, ms) == \A i \in 1 .. Len(ms) : Known(pend, verd, ms[i])

QuestionsOK ==
  /\ AllKnown(pendingChats, verdict, wire) /\ AllKnown(pendingChats, verdict, events)
  /\ Known(pendingChats, verdict, recv) /\ Known(pendingChats, verdict, hub.event)
  /\ \A w \in Windows : \A q \in window[w].shows : Posed(pendingChats, verdict, q)

\* A chat on its way to the server is new; an answer on its way is to a question
\* that was posed.
Fresh(pend, verd, m) ==
  /\ m \in Submits => m.of \notin pend /\ verd[m.of] = None
  /\ m \in UserAnswers => Posed(pend, verd, m.of)

\* One answer decides.
Decided(pend, verd, n, q) ==
  /\ verd[q] # None => q \notin pend
  /\ n[q] = IF verd[q] # None /\ ~verd[q].blank THEN 1 ELSE 0

ServerOK ==
  /\ link \in BOOLEAN
  /\ inbox \subseteq Submits \cup UserAnswers
  /\ pendingChats \subseteq Chats
  /\ verdict \in [Chats -> UserAnswers \cup {None}]
  /\ submits \in [Chats -> Nat]
  /\ \A m \in inbox : Fresh(pendingChats, verdict, m)
  /\ \A q \in Chats : Decided(pendingChats, verdict, submits, q)

IInv == ChannelsOK /\ ToolsOK /\ RepliesOK /\ WindowsOK /\ QuestionsOK /\ ServerOK

-----------------------------------------------------------------------------
(* The tools: transport.Loop and process.Run                               *)

\* The constants the steps need.
LEMMA NoneIsNoWord ==
  /\ None \notin Causes \cup Errors /\ None \notin Requests \cup Events \cup UserAnswers
  /\ NoProcess \in Process /\ NoProcess.state = "none" /\ NoProcess.cause = None /\ ~NoProcess.heir
BY StreamAssumption DEF NoProcess, Process

\* The responses are what Loop can send.
LEMMA ResponseTypes ==
  ASSUME NEW s \in {"SUCCESS", "FAILED"} \cup Causes, NEW e \in Errors \cup {None}
  PROVE  /\ Response(s, e) \in Result /\ Response(s, e).status = s /\ Response(s, e).error = e
         /\ Uncorrelated \in Result
BY DEF Response, Uncorrelated, Result, Errors

\* Loop has a response to send.
LEMMA AnswerIs ==
  ASSUME loop \in Loop, proc \in Process, NEW c \in Calls, NEW r \in Result, Answer(c, r)
  PROVE  /\ loop' \in Loop /\ loop'.pc = "send" /\ loop'.call = c
         /\ loop'.res = r /\ loop'.last = proc
<1> DEFINE l1 == [loop EXCEPT !.pc = "send"]
           l2 == [l1 EXCEPT !.call = c]
           l3 == [l2 EXCEPT !.res = r]
           l4 == [l3 EXCEPT !.last = proc]
<1>1. loop' = l4
  BY DEF Answer
<1>2. l1 \in Loop /\ l1.pc = "send"
  BY DEF Loop
<1> HIDE DEF l1
<1>3. l2 \in Loop /\ l2.pc = "send" /\ l2.call = c
  BY <1>2 DEF Loop
<1> HIDE DEF l2
<1>4. l3 \in Loop /\ l3.pc = "send" /\ l3.call = c /\ l3.res = r
  BY <1>3 DEF Loop
<1> HIDE DEF l3
<1>5. l4 \in Loop /\ l4.pc = "send" /\ l4.call = c /\ l4.res = r /\ l4.last = proc
  BY <1>4 DEF Loop
<1> QED
  BY <1>1, <1>5

\* A true response keeps what is known of the tools.
LEMMA AnswerKeeps ==
  ASSUME ToolsOK, NEW c \in Calls, NEW r \in Result, Answer(c, r), IsTrue(r, proc),
         proc' = NoProcess, ctx' = ctx
  PROVE  ToolsOK'
<1>1. loop \in Loop /\ proc \in Process /\ CancelledBy(ctx, proc)
  BY DEF ToolsOK
<1>2. /\ loop' \in Loop /\ loop'.pc = "send" /\ loop'.call = c
      /\ loop'.res = r /\ loop'.last = proc
  BY <1>1, AnswerIs
<1>3. Sending(loop', ctx') /\ Running(loop')
  BY <1>1, <1>2 DEF Sending, Running
<1>4. Waited(loop', proc')
  BY <1>2, NoneIsNoWord DEF Waited
<1>5. CancelledBy(ctx', proc')
  BY NoneIsNoWord DEF CancelledBy, Causes
<1>6. proc' \in Process /\ ctx' \in BOOLEAN
  BY NoneIsNoWord DEF ToolsOK
<1> QED
  BY <1>2, <1>3, <1>4, <1>5, <1>6 DEF ToolsOK

\* Loop is at command n of call c.
AtCommand(pc, c, n) == [loop EXCEPT !.pc = pc, !.call = c, !.cmd = n]

\* Loop goes on to a command of a call that runs processes.
LEMMA NextCommand ==
  ASSUME loop \in Loop, NEW pc \in {"start", "wait"}, NEW c \in Calls, NEW n \in 1..3,
         FormOf[c] \in {"build", "git"}, FormOf[c] = "build" => n = 1,
         NEW l, l = AtCommand(pc, c, n)
  PROVE  l \in Loop /\ l.pc = pc /\ Running(l) /\ \A b \in BOOLEAN : Sending(l, b)
<1> DEFINE l1 == [loop EXCEPT !.pc = pc]
           l2 == [l1 EXCEPT !.call = c]
           l3 == [l2 EXCEPT !.cmd = n]
<1>1. l = l3
  BY DEF AtCommand
<1>2. l1 \in Loop /\ l1.pc = pc
  BY DEF Loop
<1> HIDE DEF l1
<1>3. l2 \in Loop /\ l2.pc = pc /\ l2.call = c
  BY <1>2 DEF Loop
<1> HIDE DEF l2
<1>4. l3 \in Loop /\ l3.pc = pc /\ l3.call = c /\ l3.cmd = n
  BY <1>3 DEF Loop
<1> HIDE DEF l3
<1> QED
  BY <1>1, <1>4 DEF Running, Sending

\* HandleEnvelope, Dispatch: a call that runs no process is answered at once.
LEMMA HandleTools ==
  ASSUME IInv, Handle
  PROVE  ToolsOK'
<1> DEFINE c == Head(requests).of
<1>1. ToolsOK /\ loop \in Loop /\ loop.pc = "receive" /\ proc' = proc /\ ctx' = ctx
  BY DEF IInv, ToolsOK, Handle
<1>2. proc = NoProcess
  BY <1>1 DEF ToolsOK, Waited
<1>3. c \in Calls
  <2>1. requests \in Seq(Requests) /\ requests # <<>>
    BY DEF IInv, ChannelsOK, Handle
  <2>2. Head(requests) \in Requests
    BY <2>1
  <2> QED
    BY <2>2 DEF Requests
<1>4. \A r : IsTrue(r, proc)
  BY <1>2, NoneIsNoWord DEF IsTrue
<1>5. ASSUME NEW r \in Result, Answer(c, r) PROVE ToolsOK'
  <2> HIDE DEF c
  <2> QED
    BY <1>1, <1>2, <1>3, <1>4, <1>5, AnswerKeeps
<1>6. ASSUME loop' = [loop EXCEPT !.pc = "start", !.call = c, !.cmd = 1],
             FormOf[c] \in {"build", "git"}
      PROVE  ToolsOK'
  <2> HIDE DEF c
  <2>1. loop' \in Loop /\ loop'.pc = "start" /\ Running(loop') /\ \A b \in BOOLEAN : Sending(loop', b)
    <3>1. loop' = AtCommand("start", c, 1)
      BY <1>6 DEF AtCommand
    <3>2. 1 \in 1..3 /\ "start" \in {"start", "wait"}
      OBVIOUS
    <3> QED
      BY <1>1, <1>3, <1>6, <3>1, <3>2, NextCommand
  <2>2. Waited(loop', proc')
    BY <1>1, <1>2, <2>1, NoneIsNoWord DEF Waited
  <2> QED
    BY <1>1, <2>1, <2>2 DEF ToolsOK
<1>7. /\ Uncorrelated \in Result /\ Response("FAILED", "TOOL_NOT_SUPPORTED") \in Result
      /\ Response("SUCCESS", None) \in Result /\ Response("FAILED", "REFUSED") \in Result
  BY ResponseTypes DEF Errors
<1>8. FormOf[c] \in Forms
  BY <1>3, StreamAssumption
<1>9. \/ \E r \in {Uncorrelated, Response("FAILED", "TOOL_NOT_SUPPORTED"),
                  Response("SUCCESS", None), Response("FAILED", "REFUSED")} : Answer(c, r)
      \/ loop' = [loop EXCEPT !.pc = "start", !.call = c, !.cmd = 1] /\ FormOf[c] \in {"build", "git"}
  BY <1>8 DEF Handle, Forms
<1> QED
  BY <1>5, <1>6, <1>7, <1>9

\* Loop returns.
LEMMA StopLoopTools ==
  ASSUME IInv, StopLoop
  PROVE  ToolsOK'
<1>1. /\ ToolsOK /\ loop \in Loop /\ loop.pc \in {"receive", "send"} /\ proc' = proc /\ ctx' = ctx
      /\ loop' = [loop EXCEPT !.pc = "ended"]
  BY DEF IInv, ToolsOK, StopLoop
<1>2. loop' \in Loop /\ loop'.pc = "ended"
  BY <1>1 DEF Loop
<1>3. Running(loop') /\ Sending(loop', ctx') /\ Waited(loop', proc')
  BY <1>1, <1>2 DEF ToolsOK, Running, Sending, Waited
<1> QED
  BY <1>1, <1>2, <1>3 DEF ToolsOK

\* Send: the server is told.
LEMMA SendResponseTools ==
  ASSUME IInv, SendResponse
  PROVE  ToolsOK' /\ RepliesOK'
<1>1. /\ ToolsOK /\ RepliesOK /\ loop \in Loop /\ loop.pc = "send" /\ proc' = proc /\ ctx' = ctx
      /\ loop' = Receiving
      /\ reply' = [reply EXCEPT ![loop.call] = [res |-> loop.res, last |-> loop.last]]
  BY DEF IInv, ToolsOK, SendResponse
<1>2. Receiving \in Loop /\ Receiving.pc = "receive"
  BY NoneIsNoWord DEF Receiving, Loop
<1>3. ToolsOK'
  <2>1. Running(loop') /\ Sending(loop', ctx') /\ Waited(loop', proc')
    BY <1>1, <1>2 DEF ToolsOK, Running, Sending, Waited
  <2> QED
    BY <1>1, <1>2, <2>1 DEF ToolsOK
<1>4. RepliesOK'
  <2> DEFINE c == loop.call
             r == [res |-> loop.res, last |-> loop.last]
  <2>1. c \in Calls /\ loop.res \in Result /\ IsTrue(loop.res, loop.last) /\ CancelledBy(ctx, loop.last)
    BY <1>1 DEF ToolsOK, Sending
  <2>2. r \in Told /\ r.res = loop.res /\ r.last = loop.last
    BY <1>1, <2>1 DEF Told, Loop
  <2>3. reply \in [Calls -> Told \cup {None}] /\ reply' = [reply EXCEPT ![c] = r]
    BY <1>1 DEF RepliesOK
  <2> HIDE DEF c, r
  <2>4. /\ reply' \in [Calls -> Told \cup {None}] /\ reply'[c] = r
        /\ \A d \in Calls : d # c => reply'[d] = reply[d]
    BY <2>1, <2>2, <2>3
  <2> QED
    BY <1>1, <2>1, <2>2, <2>4 DEF RepliesOK
<1> QED
  BY <1>3, <1>4

\* cmd.Start
LEMMA StartTools ==
  ASSUME IInv, Start
  PROVE  ToolsOK'
<1>1. ToolsOK /\ loop \in Loop /\ loop.pc = "start" /\ ctx' = ctx
  BY DEF IInv, ToolsOK, Start
<1>2. /\ proc = NoProcess /\ loop.call \in Calls /\ loop.cmd \in 1..3
      /\ (FormOf[loop.call] = "build" => loop.cmd = 1) /\ FormOf[loop.call] \in {"build", "git"}
  BY <1>1 DEF ToolsOK, Waited, Running
<1>3. CASE /\ loop' = [loop EXCEPT !.pc = "wait"]
           /\ proc' = IF ctx THEN [NoProcess EXCEPT !.state = "running"]
                      ELSE [NoProcess EXCEPT !.state = "ended", !.code = 1, !.cause = "CANCELLED"]
  <2>1. loop' \in Loop /\ loop'.pc = "wait" /\ loop'.call = loop.call /\ loop'.cmd = loop.cmd
    BY <1>1, <1>3 DEF Loop
  <2>2. Running(loop') /\ Sending(loop', ctx')
    BY <1>2, <2>1 DEF Running, Sending
  <2>3. /\ proc' \in Process /\ proc'.state # "none" /\ (proc'.heir => proc'.state = "ended")
        /\ CancelledBy(ctx', proc')
    <3>1. CASE ctx
      <4>1. proc' = [NoProcess EXCEPT !.state = "running"]
        BY <1>3, <3>1
      <4>2. proc' \in Process /\ proc'.state = "running" /\ proc'.cause = None /\ ~proc'.heir
        BY <4>1 DEF NoProcess, Process
      <4> QED
        BY <4>2, NoneIsNoWord DEF CancelledBy, Causes
    <3>2. CASE ~ctx
      <4> DEFINE p1 == [NoProcess EXCEPT !.state = "ended"]
                 p2 == [p1 EXCEPT !.code = 1]
                 p3 == [p2 EXCEPT !.cause = "CANCELLED"]
      <4>1. proc' = p3
        BY <1>3, <3>2
      <4>2. p3 \in Process /\ p3.state = "ended"
        BY DEF NoProcess, Process, Causes
      <4> QED
        BY <1>1, <3>2, <4>1, <4>2 DEF CancelledBy
    <3> QED
      BY <1>1, <3>1, <3>2 DEF ToolsOK
  <2> QED
    BY <1>1, <2>1, <2>2, <2>3 DEF ToolsOK, Waited
<1>4. CASE loop' = [loop EXCEPT !.cmd = @ + 1] /\ GoesOn("FAILED") /\ proc' = proc
  <2>1. loop.cmd = 2
    BY <1>4 DEF GoesOn
  <2>2. loop' \in Loop /\ loop'.pc = "start" /\ loop'.call = loop.call /\ loop'.cmd = 3
    BY <1>1, <1>4, <2>1 DEF Loop
  <2>3. Running(loop') /\ Sending(loop', ctx')
    BY <1>2, <2>1, <2>2 DEF Running, Sending
  <2> QED
    BY <1>1, <1>4, <2>2, <2>3 DEF ToolsOK, Waited
<1>5. CASE Answer(loop.call, Response("FAILED", "INTERNAL_ERROR")) /\ proc' = proc
  <2>1. Response("FAILED", "INTERNAL_ERROR") \in Result
    BY ResponseTypes DEF Errors
  <2>2. \A r : IsTrue(r, proc)
    BY <1>2, NoneIsNoWord DEF IsTrue
  <2> QED
    BY <1>1, <1>2, <1>5, <2>1, <2>2, AnswerKeeps
<1> QED
  BY <1>3, <1>4, <1>5 DEF Start

\* The process, its descendants and its deadline.
LEMMA ProcessTools ==
  ASSUME IInv,
         \/ HeirExit \/ Deadline
         \/ \E heir \in BOOLEAN : Kill(heir) \/ \E code \in {0, 1} : Exit(code, heir)
  PROVE  ToolsOK'
<1>1. ToolsOK /\ proc \in Process /\ loop' = loop /\ ctx' = ctx
  BY DEF IInv, ToolsOK, HeirExit, Deadline, Kill, Exit
<1>2. ASSUME proc' \in Process, proc'.state # "none", proc.state # "none",
             proc'.heir => proc'.state = "ended", proc'.cause \in {proc.cause, "TIMEOUT"}
      PROVE  ToolsOK'
  BY <1>1, <1>2 DEF ToolsOK, Waited, CancelledBy
<1>3. CASE HeirExit
  <2>1. proc' = [proc EXCEPT !.heir = FALSE] /\ proc.heir
    BY <1>3 DEF HeirExit
  <2>2. proc.state = "ended"
    BY <1>1, <2>1 DEF ToolsOK, Waited
  <2>3. proc' \in Process /\ proc'.state = "ended" /\ proc'.cause = proc.cause
    BY <1>1, <2>1, <2>2 DEF Process
  <2> QED
    BY <1>2, <2>2, <2>3
<1>4. CASE Deadline
  <2>1. proc' = [proc EXCEPT !.cause = "TIMEOUT"] /\ proc.state # "none"
    BY <1>4 DEF Deadline
  <2>2. /\ proc' \in Process /\ proc'.state = proc.state /\ proc'.cause = "TIMEOUT"
        /\ proc'.heir = proc.heir
    BY <1>1, <2>1 DEF Process, Causes
  <2> QED
    BY <1>1, <1>2, <2>1, <2>2 DEF ToolsOK, Waited
<1>5. ASSUME NEW heir \in BOOLEAN, NEW code \in {0, 1}, (Kill(heir) /\ code = 1) \/ Exit(code, heir)
      PROVE  ToolsOK'
  <2> DEFINE p1 == [proc EXCEPT !.state = "ended"]
             p2 == [p1 EXCEPT !.code = code]
             p3 == [p2 EXCEPT !.heir = heir]
  <2>1. proc' = p3 /\ proc.state = "running"
    BY <1>5 DEF Kill, Exit
  <2>2. p3 \in Process /\ p3.state = "ended" /\ p3.cause = proc.cause
    BY <1>1 DEF Process
  <2> HIDE DEF p3
  <2> QED
    BY <1>2, <2>1, <2>2
<1> QED
  BY <1>3, <1>4, <1>5

\* Run's precedence: a cause first, then the exit code.
LEMMA Outcomes ==
  ASSUME NEW p \in Process
  PROVE  \/ p.cause = "TIMEOUT" /\ OutcomeOf(p) = "TIMEOUT"
         \/ p.cause = "CANCELLED" /\ OutcomeOf(p) = "CANCELLED"
         \/ p.cause = None /\ p.code = 0 /\ OutcomeOf(p) = "SUCCESS"
         \/ p.cause = None /\ p.code = 1 /\ OutcomeOf(p) = "FAILED"
BY NoneIsNoWord DEF OutcomeOf, Process, Causes

\* statusOf: the response of a build or a test run is true of its process.
LEMMA BuildIsTrue ==
  ASSUME NEW p \in Process, NEW r \in BuildResponses(OutcomeOf(p))
  PROVE  r \in Result /\ IsTrue(r, p)
<1> DEFINE T == Response("TIMEOUT", "PROCESS_TIMEOUT")
           C == Response("CANCELLED", "PROCESS_CANCELLED")
           F == Response("FAILED", "RUN_FAILED")
           S == Response("SUCCESS", None)
<1>1. /\ T \in Result /\ T.status = "TIMEOUT" /\ T.error = "PROCESS_TIMEOUT"
      /\ C \in Result /\ C.status = "CANCELLED" /\ C.error = "PROCESS_CANCELLED"
      /\ F \in Result /\ F.status = "FAILED" /\ F.error = "RUN_FAILED"
      /\ S \in Result /\ S.status = "SUCCESS" /\ S.error = None
  BY ResponseTypes DEF Errors, Causes
<1>2. /\ OutcomeOf(p) = "TIMEOUT" => r = T
      /\ OutcomeOf(p) = "CANCELLED" => r = C
      /\ OutcomeOf(p) = "FAILED" => r = F
      /\ OutcomeOf(p) = "SUCCESS" => r = S \/ r = F
  BY DEF BuildResponses
<1> HIDE DEF T, C, F, S
<1>3. None # "PROCESS_TIMEOUT" /\ None # "PROCESS_CANCELLED" /\ None # "TIMEOUT" /\ None # "CANCELLED"
  BY NoneIsNoWord DEF Errors, Causes
<1> QED
  BY <1>1, <1>2, <1>3, Outcomes DEF IsTrue

\* mapError: so is the error of a git command.
LEMMA GitIsTrue ==
  ASSUME NEW p \in Process, OutcomeOf(p) # "SUCCESS"
  PROVE  GitError(OutcomeOf(p)) \in Result /\ IsTrue(GitError(OutcomeOf(p)), p)
<1> DEFINE e == CASE OutcomeOf(p) = "TIMEOUT"   -> "PROCESS_TIMEOUT"
                  [] OutcomeOf(p) = "CANCELLED" -> "PROCESS_CANCELLED"
                  [] OTHER                      -> "GIT_NOT_AVAILABLE"
           r == GitError(OutcomeOf(p))
<1>1. /\ OutcomeOf(p) = "TIMEOUT" => e = "PROCESS_TIMEOUT"
      /\ OutcomeOf(p) = "CANCELLED" => e = "PROCESS_CANCELLED"
      /\ OutcomeOf(p) = "FAILED" => e = "GIT_NOT_AVAILABLE"
  OBVIOUS
<1>2. e \in Errors
  BY DEF Errors
<1>3. r = Response("FAILED", e)
  BY DEF GitError
<1> HIDE DEF e
<1>4. r \in Result /\ r.status = "FAILED" /\ r.error = e
  BY <1>2, <1>3, ResponseTypes
<1> HIDE DEF r
<1>5. None # "TIMEOUT" /\ None # "CANCELLED"
  BY NoneIsNoWord DEF Causes
<1>6. IsTrue(r, p)
  BY <1>1, <1>4, <1>5, Outcomes DEF IsTrue
<1> QED
  BY <1>4, <1>6 DEF r

\* Run returns, and the tool answers or goes on.
LEMMA CollectTools ==
  ASSUME IInv, Collect
  PROVE  ToolsOK'
<1> DEFINE c == loop.call
           outcome == OutcomeOf(proc)
<1>1. /\ ToolsOK /\ loop \in Loop /\ proc \in Process /\ loop.pc = "wait"
      /\ proc' = NoProcess /\ ctx' = ctx
  BY DEF IInv, ToolsOK, Collect
<1>2. /\ c \in Calls /\ loop.cmd \in 1..3
      /\ (FormOf[c] = "build" => loop.cmd = 1) /\ FormOf[c] \in {"build", "git"}
  BY <1>1 DEF ToolsOK, Running
<1>3. CASE FormOf[c] = "build"
  <2>1. PICK r \in BuildResponses(outcome) : Answer(c, r)
    BY <1>3 DEF Collect
  <2>2. r \in Result /\ IsTrue(r, proc)
    BY <1>1, <2>1, BuildIsTrue
  <2> QED
    BY <1>1, <1>2, <2>1, <2>2, AnswerKeeps
<1>4. CASE FormOf[c] = "git"
  <2>1. \/ ~GoesOn(outcome) /\ Answer(c, GitError(outcome))
        \/ GoesOn(outcome) /\ loop.cmd = Commands(c) /\ Answer(c, Response("SUCCESS", None))
        \/ loop.cmd # Commands(c) /\ loop' = [loop EXCEPT !.pc = "start", !.cmd = @ + 1]
    BY <1>4 DEF Collect
  <2>2. Commands(c) = 3
    BY <1>4 DEF Commands
  <2>3. CASE ~GoesOn(outcome) /\ Answer(c, GitError(outcome))
    <3>1. outcome # "SUCCESS"
      BY <2>3 DEF GoesOn
    <3>2. GitError(outcome) \in Result /\ IsTrue(GitError(outcome), proc)
      BY <1>1, <3>1, GitIsTrue
    <3> QED
      BY <1>1, <1>2, <2>3, <3>2, AnswerKeeps
  <2>4. CASE GoesOn(outcome) /\ loop.cmd = Commands(c) /\ Answer(c, Response("SUCCESS", None))
    <3> DEFINE r == Response("SUCCESS", None)
    <3>1. outcome = "SUCCESS"
      BY <2>2, <2>4 DEF GoesOn
    <3>2. proc.cause = None /\ proc.code = 0
      BY <1>1, <3>1, Outcomes
    <3>3. r \in Result /\ r.status = "SUCCESS" /\ r.error = None
      BY ResponseTypes
    <3> HIDE DEF r
    <3>4. None # "PROCESS_TIMEOUT" /\ None # "PROCESS_CANCELLED" /\ None # "TIMEOUT" /\ None # "CANCELLED"
      BY NoneIsNoWord DEF Errors, Causes
    <3>5. IsTrue(r, proc)
      BY <3>2, <3>3, <3>4 DEF IsTrue
    <3>6. Answer(c, r)
      BY <2>4 DEF r
    <3> QED
      BY <1>1, <1>2, <3>3, <3>5, <3>6, AnswerKeeps
  <2>5. CASE loop.cmd # Commands(c) /\ loop' = [loop EXCEPT !.pc = "start", !.cmd = @ + 1]
    <3> DEFINE l1 == [loop EXCEPT !.pc = "start"]
               l2 == [l1 EXCEPT !.cmd = loop.cmd + 1]
    <3>1. loop' = l2 /\ loop.cmd + 1 \in 1..3
      BY <1>1, <1>2, <2>2, <2>5 DEF Loop
    <3>2. l1 \in Loop /\ l1.pc = "start" /\ l1.call = c
      BY <1>1 DEF Loop
    <3> HIDE DEF l1
    <3>3. l2 \in Loop /\ l2.pc = "start" /\ l2.call = c /\ l2.cmd = loop.cmd + 1
      BY <3>1, <3>2 DEF Loop
    <3> HIDE DEF l2
    <3>4. Running(loop') /\ Sending(loop', ctx')
      BY <1>2, <1>4, <3>1, <3>3 DEF Running, Sending
    <3>5. Waited(loop', proc') /\ CancelledBy(ctx', proc')
      BY <1>1, <3>1, <3>3, NoneIsNoWord DEF Waited, CancelledBy, Causes
    <3>6. proc' \in Process /\ ctx' \in BOOLEAN
      BY <1>1, NoneIsNoWord DEF ToolsOK
    <3> QED
      BY <3>1, <3>3, <3>4, <3>5, <3>6 DEF ToolsOK
  <2> QED
    BY <2>1, <2>3, <2>4, <2>5
<1> QED
  BY <1>2, <1>3, <1>4

\* SIGTERM: what was cancelled was cancelled because the agent stops.
LEMMA StopTools ==
  ASSUME IInv, Stop
  PROVE  ToolsOK' /\ RepliesOK'
<1>1. /\ ToolsOK /\ RepliesOK /\ loop' = loop /\ reply' = reply
      /\ ctx' = FALSE /\ proc' = CancelledRun(proc) /\ proc \in Process
  BY DEF IInv, ToolsOK, Stop
<1>2. RepliesOK'
  BY <1>1 DEF RepliesOK, CancelledBy
<1>3. /\ proc' \in Process /\ proc'.state = proc.state /\ proc'.heir = proc.heir
      /\ proc.state = "none" => proc' = proc
  BY <1>1 DEF CancelledRun, Process, Causes
<1>4. Waited(loop', proc') /\ CancelledBy(ctx', proc') /\ Sending(loop', ctx')
  BY <1>1, <1>3 DEF ToolsOK, Waited, CancelledBy, Sending
<1> QED
  BY <1>1, <1>2, <1>3, <1>4 DEF ToolsOK

-----------------------------------------------------------------------------
(* The channels                                                            *)

\* Taking from, adding to and joining queues of known questions.
LEMMA KnownTail ==
  ASSUME NEW S, NEW s \in Seq(S), s # <<>>, NEW pend, NEW verd, AllKnown(pend, verd, s)
  PROVE  Head(s) \in S /\ Tail(s) \in Seq(S) /\ Len(Tail(s)) = Len(s) - 1
         /\ Known(pend, verd, Head(s)) /\ AllKnown(pend, verd, Tail(s))
<1>1. Head(s) \in S /\ Tail(s) \in Seq(S) /\ Len(Tail(s)) = Len(s) - 1 /\ Head(s) = s[1] /\ 1 \in 1 .. Len(s)
  OBVIOUS
<1>2. ASSUME NEW i \in 1 .. Len(Tail(s)) PROVE Known(pend, verd, Tail(s)[i])
  <2>1. i + 1 \in 1 .. Len(s) /\ Tail(s)[i] = s[i + 1]
    BY <1>1
  <2> QED
    BY <2>1 DEF AllKnown
<1> QED
  BY <1>1, <1>2 DEF AllKnown

\* See KnownTail.
LEMMA KnownJoin ==
  ASSUME NEW S, NEW s \in Seq(S), NEW t \in Seq(S), NEW pend, NEW verd,
         AllKnown(pend, verd, s), AllKnown(pend, verd, t)
  PROVE  s \o t \in Seq(S) /\ AllKnown(pend, verd, s \o t)
<1>1. ASSUME NEW i \in 1 .. Len(s \o t) PROVE Known(pend, verd, (s \o t)[i])
  <2>1. CASE i \in 1 .. Len(s)
    BY <2>1 DEF AllKnown
  <2>2. CASE i \notin 1 .. Len(s)
    <3>1. i - Len(s) \in 1 .. Len(t) /\ (s \o t)[i] = t[i - Len(s)]
      BY <2>2
    <3> QED
      BY <3>1 DEF AllKnown
  <2> QED
    BY <2>1, <2>2
<1> QED
  BY <1>1 DEF AllKnown

\* See KnownTail.
LEMMA KnownAppend ==
  ASSUME NEW S, NEW s \in Seq(S), NEW m \in S, NEW pend, NEW verd,
         AllKnown(pend, verd, s), Known(pend, verd, m)
  PROVE  Append(s, m) \in Seq(S) /\ AllKnown(pend, verd, Append(s, m)) /\ Len(Append(s, m)) = Len(s) + 1
<1>1. ASSUME NEW i \in 1 .. Len(Append(s, m)) PROVE Known(pend, verd, Append(s, m)[i])
  <2>1. (i \in 1 .. Len(s) /\ Append(s, m)[i] = s[i]) \/ Append(s, m)[i] = m
    OBVIOUS
  <2> QED
    BY <2>1 DEF AllKnown
<1> QED
  BY <1>1 DEF AllKnown

\* The conjuncts of the invariant that a step leaves alone.
LEMMA Untouched ==
  ASSUME IInv
  PROVE  /\ UNCHANGED <<wire, recv, requests, events>> => ChannelsOK'
         /\ UNCHANGED <<loop, proc, ctx>> => ToolsOK'
         /\ UNCHANGED <<reply, ctx>> => RepliesOK'
         /\ UNCHANGED <<window, hub>> => WindowsOK'
         /\ UNCHANGED <<wire, recv, events, hub, window, pendingChats, verdict>> => QuestionsOK'
         /\ UNCHANGED <<link, inbox, pendingChats, verdict, submits>> => ServerOK'
<1>1. UNCHANGED <<wire, recv, requests, events>> => ChannelsOK'
  BY DEF IInv, ChannelsOK
<1>2. UNCHANGED <<loop, proc, ctx>> => ToolsOK'
  BY DEF IInv, ToolsOK
<1>3. UNCHANGED <<reply, ctx>> => RepliesOK'
  BY DEF IInv, RepliesOK
<1>4. UNCHANGED <<window, hub>> => WindowsOK'
  BY DEF IInv, WindowsOK
<1>5. UNCHANGED <<wire, recv, events, hub, window, pendingChats, verdict>> => QuestionsOK'
  BY DEF IInv, QuestionsOK
<1>6. UNCHANGED <<link, inbox, pendingChats, verdict, submits>> => ServerOK'
  BY DEF IInv, ServerOK
<1> QED
  BY <1>1, <1>2, <1>3, <1>4, <1>5, <1>6

\* The steps of Loop and of its process keep the invariant.
LEMMA ToolsKeepInv ==
  ASSUME IInv,
         \/ Handle \/ StopLoop \/ SendResponse
         \/ Start \/ HeirExit \/ Deadline \/ Collect \/ Stop
         \/ \E heir \in BOOLEAN : Kill(heir) \/ \E code \in {0, 1} : Exit(code, heir)
  PROVE  IInv'
<1>1. ToolsOK'
  BY HandleTools, StopLoopTools, SendResponseTools, StartTools, ProcessTools, CollectTools, StopTools
<1>2. RepliesOK'
  <2>1. CASE SendResponse \/ Stop
    BY <2>1, SendResponseTools, StopTools
  <2>2. CASE ~(SendResponse \/ Stop)
    <3>1. UNCHANGED <<reply, ctx>>
      BY <2>2 DEF Handle, StopLoop, Start, HeirExit, Deadline, Collect, Kill, Exit
    <3> QED
      BY <3>1, Untouched
  <2> QED
    BY <2>1, <2>2
<1>3. ChannelsOK'
  <2>1. CASE Handle
    <3>1. requests' = Tail(requests) /\ requests # <<>> /\ UNCHANGED <<wire, recv, events>>
      BY <2>1 DEF Handle
    <3>2. ChannelsOK
      BY DEF IInv
    <3>3. requests' \in Seq(Requests) /\ Len(requests') <= RequestCap
      BY <3>1, <3>2, StreamAssumption DEF ChannelsOK
    <3> QED
      BY <3>1, <3>2, <3>3 DEF ChannelsOK
  <2>2. CASE ~Handle
    <3>1. UNCHANGED <<wire, recv, requests, events>>
      BY <2>2 DEF StopLoop, SendResponse, Start, HeirExit, Deadline, Collect, Stop, Kill, Exit, channels
    <3> QED
      BY <3>1, Untouched
  <2> QED
    BY <2>1, <2>2
<1>4. /\ UNCHANGED <<window, hub>> /\ UNCHANGED <<link, inbox, pendingChats, verdict, submits>>
      /\ UNCHANGED <<wire, recv, events, hub, window, pendingChats, verdict>>
  BY DEF Handle, StopLoop, SendResponse, Start, HeirExit, Deadline, Collect, Stop, Kill, Exit,
         channels, ide, server
<1> QED
  BY <1>1, <1>2, <1>3, <1>4, Untouched DEF IInv

\* send, recvLoop and the loss of the connection keep the invariant.
LEMMA StreamKeepsInv ==
  ASSUME IInv, (\E c \in Calls : Call(c)) \/ Recv \/ Enqueue \/ Break
  PROVE  IInv'
<1>1. /\ UNCHANGED <<loop, proc, ctx>> /\ UNCHANGED <<reply, ctx>> /\ UNCHANGED <<window, hub>>
      /\ UNCHANGED <<pendingChats, verdict, submits>>
  BY DEF Call, Recv, Enqueue, Break, tools, ide, server
<1>2. ToolsOK' /\ RepliesOK' /\ WindowsOK'
  BY <1>1, Untouched
<1>3. ChannelsOK /\ QuestionsOK /\ ServerOK
  BY DEF IInv
<1>4. /\ wire \in Seq(Requests \cup Events) /\ recv \in Requests \cup Events \cup {None}
      /\ requests \in Seq(Requests) /\ Len(requests) <= RequestCap
      /\ events \in Seq(Events) /\ Len(events) <= EventCap
  BY <1>3 DEF ChannelsOK
<1>5. /\ AllKnown(pendingChats, verdict, wire) /\ AllKnown(pendingChats, verdict, events)
      /\ Known(pendingChats, verdict, recv)
  BY <1>3 DEF QuestionsOK
<1>6. ServerOK'
  <2>1. CASE Break
    BY <1>1, <1>3, <2>1 DEF ServerOK, Break
  <2>2. CASE ~Break
    <3>1. UNCHANGED <<link, inbox>>
      BY <2>2 DEF Call, Recv, Enqueue, server
    <3> QED
      BY <1>1, <3>1, Untouched
  <2> QED
    BY <2>1, <2>2
<1>7. ASSUME wire' \in Seq(Requests \cup Events), AllKnown(pendingChats, verdict, wire'),
             recv' \in Requests \cup Events \cup {None}, Known(pendingChats, verdict, recv'),
             requests' \in Seq(Requests), Len(requests') <= RequestCap,
             events' \in Seq(Events), Len(events') <= EventCap, AllKnown(pendingChats, verdict, events')
      PROVE  IInv'
  <2>1. ChannelsOK'
    BY <1>7 DEF ChannelsOK
  <2>2. QuestionsOK'
    BY <1>1, <1>3, <1>7 DEF QuestionsOK
  <2> QED
    BY <1>2, <1>6, <2>1, <2>2 DEF IInv
<1>8. ASSUME NEW c \in Calls, Call(c) PROVE IInv'
  <2>1. wire' = Append(wire, Request(c)) /\ UNCHANGED <<recv, requests, events>>
    BY <1>8 DEF Call, channels
  <2>2. Request(c) \in Requests \cup Events /\ Known(pendingChats, verdict, Request(c))
    BY DEF Request, Requests, Known
  <2>3. wire' \in Seq(Requests \cup Events) /\ AllKnown(pendingChats, verdict, wire')
    BY <1>4, <1>5, <2>1, <2>2, KnownAppend
  <2> QED
    BY <1>4, <1>5, <1>7, <2>1, <2>3
<1>9. CASE Recv
  <2>1. wire # <<>> /\ recv' = Head(wire) /\ wire' = Tail(wire) /\ UNCHANGED <<requests, events>>
    BY <1>9 DEF Recv
  <2>2. /\ Head(wire) \in Requests \cup Events /\ Tail(wire) \in Seq(Requests \cup Events)
        /\ Known(pendingChats, verdict, Head(wire)) /\ AllKnown(pendingChats, verdict, Tail(wire))
    BY <1>4, <1>5, <2>1, KnownTail
  <2> QED
    BY <1>4, <1>5, <1>7, <2>1, <2>2
<1>10. CASE Enqueue
  <2>1. recv # None /\ recv' = None /\ wire' = wire
    BY <1>10 DEF Enqueue
  <2>2. Known(pendingChats, verdict, None)
    BY DEF Known
  <2>3. CASE recv.kind = "request" /\ Len(requests) < RequestCap
             /\ requests' = Append(requests, recv) /\ events' = events
    <3>1. recv \in Requests
      BY <1>4, <2>1, <2>3 DEF Requests, Events
    <3>2. requests' \in Seq(Requests) /\ Len(requests') <= RequestCap
      BY <1>4, <2>3, <3>1, StreamAssumption
    <3> QED
      BY <1>4, <1>5, <1>7, <2>1, <2>2, <2>3, <3>2
  <2>4. CASE recv.kind # "request" /\ Len(events) < EventCap
             /\ events' = Append(events, recv) /\ requests' = requests
    <3>1. recv \in Events
      BY <1>4, <2>1, <2>4 DEF Requests, Events
    <3>2. /\ events' \in Seq(Events) /\ AllKnown(pendingChats, verdict, events')
          /\ Len(events') = Len(events) + 1
      BY <1>4, <1>5, <2>4, <3>1, KnownAppend
    <3>3. Len(events') <= EventCap
      BY <1>4, <2>4, <3>2, StreamAssumption
    <3> QED
      BY <1>4, <1>5, <1>7, <2>1, <2>2, <2>4, <3>2, <3>3
  <2>5. CASE requests' = requests /\ events' = events
    BY <1>4, <1>5, <1>7, <2>1, <2>2, <2>5
  <2> QED
    BY <1>10, <2>3, <2>4, <2>5 DEF Enqueue
<1>11. CASE Break
  <2>1. wire' = <<>> /\ UNCHANGED <<recv, requests, events>>
    BY <1>11 DEF Break, channels
  <2>2. <<>> \in Seq(Requests \cup Events) /\ AllKnown(pendingChats, verdict, <<>>)
    BY DEF AllKnown
  <2> QED
    BY <1>4, <1>5, <1>7, <2>1, <2>2
<1> QED
  BY <1>8, <1>9, <1>10, <1>11

-----------------------------------------------------------------------------
(* The windows                                                             *)

\* A window shows only questions that were posed.
Truthful(s) == s \in Screen /\ \A q \in s.shows : Posed(pendingChats, verdict, q)

\* Broadcast goes through the windows in a sequence.
LEMMA OrdersAreSeqs ==
  ASSUME NEW W \in SUBSET Windows
  PROVE  Orders(W) \subseteq Seq(Windows)
<1>1. Cardinality(W) \in Nat
  BY StreamAssumption, FS_Subset, FS_CardinalityType
<1> QED
  BY <1>1 DEF Orders

\* Hub.Listen and Broadcast: what a window comes to show was asked.
LEMMA HubKeepsInv ==
  ASSUME IInv, Listen \/ Push \/ Pushed
  PROVE  IInv'
<1>1. /\ UNCHANGED <<loop, proc, ctx>> /\ UNCHANGED <<reply, ctx>>
      /\ UNCHANGED <<link, inbox, pendingChats, verdict, submits>> /\ UNCHANGED <<wire, recv, requests>>
  BY DEF Listen, Pushed, Push, channels, tools, server
<1>2. ToolsOK' /\ RepliesOK' /\ ServerOK'
  BY <1>1, Untouched
<1>3. ChannelsOK /\ QuestionsOK /\ WindowsOK
  BY DEF IInv
<1>4. CASE Listen
  <2>1. /\ events # <<>> /\ events' = Tail(events) /\ window' = window
        /\ \E order \in Orders({w \in Windows : window[w].open}) :
             hub' = [event |-> Head(events), left |-> order]
    BY <1>4 DEF Listen
  <2>2. events \in Seq(Events) /\ Len(events) <= EventCap /\ AllKnown(pendingChats, verdict, events)
    BY <1>3 DEF ChannelsOK, QuestionsOK
  <2>3. /\ Head(events) \in Events /\ Tail(events) \in Seq(Events) /\ Len(Tail(events)) = Len(events) - 1
        /\ Known(pendingChats, verdict, Head(events)) /\ AllKnown(pendingChats, verdict, Tail(events))
    BY <2>1, <2>2, KnownTail
  <2>4. Len(events') <= EventCap
    BY <2>1, <2>2, <2>3, StreamAssumption
  <2>5. ChannelsOK'
    BY <1>1, <1>3, <2>1, <2>3, <2>4 DEF ChannelsOK
  <2>6. hub'.event = Head(events) /\ hub' \in [event : Events \cup {None}, left : Seq(Windows)]
    BY <2>1, <2>3, OrdersAreSeqs
  <2>7. hub'.event # None
    BY <2>3, <2>6, NoneIsNoWord
  <2>8. WindowsOK'
    BY <1>3, <2>1, <2>6, <2>7 DEF WindowsOK
  <2>9. QuestionsOK'
    BY <1>1, <1>3, <2>1, <2>3, <2>6 DEF QuestionsOK
  <2> QED
    BY <1>2, <2>5, <2>8, <2>9 DEF IInv
<1>5. CASE Pushed
  <2>1. hub' = Listening /\ events' = events /\ window' = window
    BY <1>5 DEF Pushed, channels
  <2>2. hub'.event = None /\ hub'.left = <<>> /\ hub' \in [event : Events \cup {None}, left : Seq(Windows)]
    BY <2>1 DEF Listening
  <2>3. WindowsOK'
    BY <1>3, <2>1, <2>2 DEF WindowsOK
  <2>4. Known(pendingChats, verdict, hub'.event)
    BY <2>2 DEF Known
  <2>5. QuestionsOK'
    BY <1>1, <1>3, <2>1, <2>4 DEF QuestionsOK
  <2>6. ChannelsOK'
    BY <1>1, <2>1, Untouched
  <2> QED
    BY <1>2, <2>3, <2>5, <2>6 DEF IInv
<1>6. CASE Push
  <2> DEFINE w == Head(hub.left)
  <2>1. /\ hub.left # <<>> /\ window' = [window EXCEPT ![w] = Received(w, hub.event)]
        /\ hub' = [hub EXCEPT !.left = Tail(@)] /\ events' = events
    BY <1>6 DEF Push, channels
  <2>2. /\ hub \in [event : Events \cup {None}, left : Seq(Windows)] /\ hub.event # None
        /\ window \in [Windows -> Screen]
    BY <1>3, <2>1 DEF WindowsOK
  <2>3. /\ hub' \in [event : Events \cup {None}, left : Seq(Windows)]
        /\ hub'.event = hub.event /\ w \in Windows
    <3>1. hub.left \in Seq(Windows) /\ hub.left # <<>>
      BY <2>1, <2>2
    <3>2. Tail(hub.left) \in Seq(Windows) /\ w \in Windows
      BY <3>1
    <3>3. hub' = [hub EXCEPT !.left = Tail(hub.left)]
      BY <2>1
    <3> QED
      BY <2>2, <3>2, <3>3
  <2> HIDE DEF w
  <2>4. Truthful(Received(w, hub.event))
    <3>1. window[w] \in Screen /\ Truthful(window[w])
      BY <1>3, <2>2, <2>3 DEF QuestionsOK, Truthful
    <3>2. CASE hub.event.kind = "question.ask" /\ window[w].open
      <4> DEFINE q == hub.event.of
                 s1 == [window[w] EXCEPT !.shows = @ \cup {q}]
                 s2 == [s1 EXCEPT !.seen = @ \cup {q}]
      <4>1. q \in Chats
        BY <2>2 DEF Events
      <4>2. Posed(pendingChats, verdict, q)
        BY <1>3, <2>2, <3>2 DEF QuestionsOK, Known
      <4>3. Received(w, hub.event) = s2
        BY <3>2 DEF Received
      <4> HIDE DEF q
      <4>4. s1 \in Screen /\ s1.shows = window[w].shows \cup {q}
        BY <3>1, <4>1 DEF Screen
      <4> HIDE DEF s1
      <4>5. s2 \in Screen /\ s2.shows = s1.shows
        BY <4>1, <4>4 DEF Screen
      <4> HIDE DEF s2
      <4>6. Truthful(s2)
        BY <3>1, <4>2, <4>4, <4>5 DEF Truthful
      <4> QED
        BY <4>3, <4>6
    <3>3. CASE ~(hub.event.kind = "question.ask" /\ window[w].open)
      BY <3>1, <3>3 DEF Received
    <3> QED
      BY <3>2, <3>3
  <2>5. WindowsOK'
    BY <2>1, <2>2, <2>3, <2>4 DEF WindowsOK, Truthful
  <2>6. \A v \in Windows : \A q \in window'[v].shows : Posed(pendingChats, verdict, q)
    BY <1>3, <2>1, <2>2, <2>4 DEF QuestionsOK, Truthful
  <2>7. QuestionsOK'
    BY <1>1, <1>3, <2>1, <2>3, <2>6 DEF QuestionsOK
  <2>8. ChannelsOK'
    BY <1>1, <2>1, Untouched
  <2> QED
    BY <1>2, <2>5, <2>7, <2>8 DEF IInv
<1> QED
  BY <1>4, <1>5, <1>6

\* A window that shows no more than before.
LEMMA WindowKeeps ==
  ASSUME IInv, NEW w \in Windows, NEW s \in Screen, s.shows \subseteq window[w].shows,
         window' = [window EXCEPT ![w] = s],
         UNCHANGED <<wire, recv, requests, events, loop, proc, ctx, reply, hub, pendingChats, verdict>>
  PROVE  ChannelsOK' /\ ToolsOK' /\ RepliesOK' /\ WindowsOK' /\ QuestionsOK'
<1>1. ChannelsOK' /\ ToolsOK' /\ RepliesOK'
  BY Untouched
<1>2. WindowsOK /\ QuestionsOK
  BY DEF IInv
<1>3. window \in [Windows -> Screen]
  BY <1>2 DEF WindowsOK
<1>4. WindowsOK'
  BY <1>2, <1>3 DEF WindowsOK
<1>5. \A v \in Windows : window'[v].shows \subseteq window[v].shows
  BY <1>3
<1>6. QuestionsOK'
  BY <1>2, <1>5 DEF QuestionsOK
<1> QED
  BY <1>1, <1>4, <1>6

\* serveConn, the extension host and the user's box: nothing new is shown.
LEMMA WindowsKeepInv ==
  ASSUME IInv, NEW w \in Windows,
         \/ Stall(w) \/ Resume(w) \/ WriteReply(w) \/ IdleCut(w)
         \/ \E q \in Chats : Dismiss(w, q)
  PROVE  IInv'
<1>1. /\ UNCHANGED <<wire, recv, requests, events, loop, proc, ctx, reply, hub, pendingChats, verdict>>
      /\ UNCHANGED <<link, inbox, pendingChats, verdict, submits>>
  BY DEF Stall, Resume, WriteReply, IdleCut, Dismiss, channels, tools, server
<1>2. window \in [Windows -> Screen]
  BY DEF IInv, WindowsOK
<1>3. ASSUME NEW s \in Screen, s.shows \subseteq window[w].shows, window' = [window EXCEPT ![w] = s]
      PROVE  IInv'
  <2>1. ChannelsOK' /\ ToolsOK' /\ RepliesOK' /\ WindowsOK' /\ QuestionsOK'
    BY <1>1, <1>3, WindowKeeps
  <2> QED
    BY <1>1, <2>1, Untouched DEF IInv
<1>4. CASE Stall(w)
  <2> DEFINE s == [window[w] EXCEPT !.reads = FALSE]
  <2>1. window' = [window EXCEPT ![w] = s]
    BY <1>2, <1>4 DEF Stall
  <2>2. s \in Screen /\ s.shows = window[w].shows
    BY <1>2 DEF Screen
  <2> QED
    BY <1>3, <2>1, <2>2
<1>5. CASE Resume(w)
  <2> DEFINE s == [window[w] EXCEPT !.reads = TRUE]
  <2>1. window' = [window EXCEPT ![w] = s]
    BY <1>2, <1>5 DEF Resume
  <2>2. s \in Screen /\ s.shows = window[w].shows
    BY <1>2 DEF Screen
  <2> QED
    BY <1>3, <2>1, <2>2
<1>6. CASE WriteReply(w)
  <2> DEFINE s == [window[w] EXCEPT !.owes = FALSE]
  <2>1. window' = [window EXCEPT ![w] = s]
    BY <1>2, <1>6 DEF WriteReply
  <2>2. s \in Screen /\ s.shows = window[w].shows
    BY <1>2 DEF Screen
  <2> QED
    BY <1>3, <2>1, <2>2
<1>7. CASE IdleCut(w)
  <2> DEFINE s1 == [window[w] EXCEPT !.open = FALSE]
             s  == [s1 EXCEPT !.shows = {}]
  <2>1. window' = [window EXCEPT ![w] = s]
    BY <1>2, <1>7 DEF IdleCut
  <2>2. s \in Screen /\ s.shows = {}
    BY <1>2 DEF Screen
  <2> QED
    BY <1>3, <2>1, <2>2
<1>8. ASSUME NEW q \in Chats, Dismiss(w, q) PROVE IInv'
  <2> DEFINE s == [window[w] EXCEPT !.shows = @ \ {q}]
  <2>1. window' = [window EXCEPT ![w] = s]
    BY <1>2, <1>8 DEF Dismiss
  <2>2. s \in Screen /\ s.shows = window[w].shows \ {q}
    BY <1>2 DEF Screen
  <2> QED
    BY <1>3, <2>1, <2>2
<1> QED
  BY <1>4, <1>5, <1>6, <1>7, <1>8

\* submitChat and forwardAnswer: a chat that is sent is new, and an answer is to
\* a question the window showed.
LEMMA UserKeepsInv ==
  ASSUME IInv, NEW w \in Windows, NEW q \in Chats,
         Chat(w, q) \/ \E blank \in BOOLEAN : Answers(w, q, blank)
  PROVE  IInv'
<1>1. /\ UNCHANGED <<wire, recv, requests, events, loop, proc, ctx, reply, hub, pendingChats, verdict>>
      /\ UNCHANGED <<link, submits>>
  BY DEF Chat, Answers, channels, tools
<1>2. window \in [Windows -> Screen] /\ QuestionsOK /\ ServerOK
  BY DEF IInv, WindowsOK
<1>3. ASSUME NEW s \in Screen, s.shows \subseteq window[w].shows, window' = [window EXCEPT ![w] = s],
             NEW m \in Submits \cup UserAnswers, Fresh(pendingChats, verdict, m),
             inbox' = IF link THEN inbox \cup {m} ELSE inbox
      PROVE  IInv'
  <2>1. ChannelsOK' /\ ToolsOK' /\ RepliesOK' /\ WindowsOK' /\ QuestionsOK'
    BY <1>1, <1>3, WindowKeeps
  <2>2. inbox' \subseteq inbox \cup {m}
    BY <1>3
  <2>3. ServerOK'
    BY <1>1, <1>2, <1>3, <2>2 DEF ServerOK
  <2> QED
    BY <2>1, <2>3 DEF IInv
<1>4. CASE Chat(w, q)
  <2> DEFINE s == [window[w] EXCEPT !.owes = TRUE]
             m == [kind |-> "chat.submit", of |-> q]
  <2>1. /\ window' = [window EXCEPT ![w] = s]
        /\ inbox' = IF link THEN inbox \cup {m} ELSE inbox
        /\ verdict[q] = None /\ q \notin pendingChats
    BY <1>2, <1>4 DEF Chat
  <2>2. s \in Screen /\ s.shows = window[w].shows
    BY <1>2 DEF Screen
  <2>3. m \in Submits /\ m \notin UserAnswers /\ m.of = q
    BY DEF Submits, UserAnswers
  <2> HIDE DEF s, m
  <2>4. Fresh(pendingChats, verdict, m)
    BY <2>1, <2>3 DEF Fresh
  <2> QED
    BY <1>3, <2>1, <2>2, <2>3, <2>4
<1>5. ASSUME NEW blank \in BOOLEAN, Answers(w, q, blank) PROVE IInv'
  <2> DEFINE s1 == [window[w] EXCEPT !.shows = @ \ {q}]
             s  == [s1 EXCEPT !.owes = ~link]
             m  == [kind |-> "question.answer", of |-> q, by |-> w, blank |-> blank]
  <2>1. /\ window' = [window EXCEPT ![w] = s]
        /\ inbox' = IF link THEN inbox \cup {m} ELSE inbox
        /\ q \in window[w].shows
    BY <1>2, <1>5 DEF Answers
  <2>2. s1 \in Screen /\ s1.shows = window[w].shows \ {q}
    BY <1>2 DEF Screen
  <2> HIDE DEF s1
  <2>3. (~link) \in BOOLEAN
    OBVIOUS
  <2>4. s \in Screen /\ s.shows = s1.shows
    BY <2>2, <2>3 DEF Screen
  <2>5. m \in UserAnswers /\ m \notin Submits /\ m.of = q
    BY DEF Submits, UserAnswers
  <2>6. Posed(pendingChats, verdict, q)
    BY <1>2, <2>1 DEF QuestionsOK
  <2> HIDE DEF s, m
  <2>7. Fresh(pendingChats, verdict, m)
    BY <2>5, <2>6 DEF Fresh
  <2> QED
    BY <1>3, <2>1, <2>2, <2>4, <2>5, <2>7
<1> QED
  BY <1>4, <1>5

-----------------------------------------------------------------------------
(* The questions: onChat, onAnswer                                         *)

\* A question that was posed stays posed.
LEMMA StaysKnown ==
  ASSUME IInv, NEW pend, NEW verd,
         \A q \in Chats : Posed(pendingChats, verdict, q) => Posed(pend, verd, q)
  PROVE  /\ AllKnown(pend, verd, wire) /\ AllKnown(pend, verd, events)
         /\ Known(pend, verd, recv) /\ Known(pend, verd, hub.event)
         /\ \A w \in Windows : \A q \in window[w].shows : Posed(pend, verd, q)
<1>1. ChannelsOK /\ WindowsOK /\ QuestionsOK
  BY DEF IInv
<1>2. ASSUME NEW m \in Requests \cup Events \cup {None}, Known(pendingChats, verdict, m)
      PROVE  Known(pend, verd, m)
  BY <1>2 DEF Known, Requests, Events
<1>3. ASSUME NEW S \in SUBSET (Requests \cup Events), NEW s \in Seq(S), AllKnown(pendingChats, verdict, s)
      PROVE  AllKnown(pend, verd, s)
  <2>1. \A i \in 1 .. Len(s) : s[i] \in Requests \cup Events
    <3>1. \A i \in 1 .. Len(s) : s[i] \in S
      OBVIOUS
    <3> QED
      BY <3>1
  <2> QED
    BY <1>2, <1>3, <2>1 DEF AllKnown
<1>4. AllKnown(pend, verd, wire) /\ AllKnown(pend, verd, events)
  <2>1. Events \in SUBSET (Requests \cup Events) /\ Requests \cup Events \in SUBSET (Requests \cup Events)
    OBVIOUS
  <2> QED
    BY <1>1, <1>3, <2>1 DEF ChannelsOK, QuestionsOK
<1>5. recv \in Requests \cup Events \cup {None} /\ hub.event \in Requests \cup Events \cup {None}
  BY <1>1 DEF ChannelsOK, WindowsOK
<1>6. Known(pend, verd, recv) /\ Known(pend, verd, hub.event)
  BY <1>1, <1>2, <1>5 DEF QuestionsOK
<1>7. \A w \in Windows : \A q \in window[w].shows : Posed(pend, verd, q)
  <2>1. \A w \in Windows : window[w].shows \subseteq Chats
    BY <1>1 DEF WindowsOK, Screen
  <2> QED
    BY <1>1, <2>1 DEF QuestionsOK
<1> QED
  BY <1>4, <1>6, <1>7

\* What the server emits goes to the end of the wire.
LEMMA EmitKeeps ==
  ASSUME IInv, NEW ms \in Seq(Requests \cup Events), wire' \in {wire, wire \o ms},
         \A q \in Chats : Posed(pendingChats, verdict, q) => Posed(pendingChats', verdict', q),
         AllKnown(pendingChats', verdict', ms),
         UNCHANGED <<recv, requests, events, loop, proc, ctx, reply, window, hub>>
  PROVE  ChannelsOK' /\ ToolsOK' /\ RepliesOK' /\ WindowsOK' /\ QuestionsOK'
<1>1. ToolsOK' /\ RepliesOK' /\ WindowsOK'
  BY Untouched
<1>2. /\ AllKnown(pendingChats', verdict', wire) /\ AllKnown(pendingChats', verdict', events)
      /\ Known(pendingChats', verdict', recv) /\ Known(pendingChats', verdict', hub.event)
      /\ \A w \in Windows : \A q \in window[w].shows : Posed(pendingChats', verdict', q)
  BY StaysKnown
<1>3. ChannelsOK
  BY DEF IInv
<1>4. wire \in Seq(Requests \cup Events)
  BY <1>3 DEF ChannelsOK
<1>5. wire' \in Seq(Requests \cup Events) /\ AllKnown(pendingChats', verdict', wire')
  BY <1>2, <1>4, KnownJoin
<1>6. ChannelsOK'
  BY <1>3, <1>5 DEF ChannelsOK
<1>7. QuestionsOK'
  BY <1>2, <1>5 DEF QuestionsOK
<1> QED
  BY <1>1, <1>6, <1>7

\* onChat: the question becomes pending before it is sent.
LEMMA OnChatKeepsInv ==
  ASSUME IInv, NEW q \in Chats, OnChat(q)
  PROVE  IInv'
<1> DEFINE m == [kind |-> "chat.submit", of |-> q]
<1>1. /\ m \in inbox /\ inbox' = inbox \ {m} /\ pendingChats' = pendingChats \cup {q}
      /\ wire' \in {wire, wire \o <<Ask(q)>>}
      /\ UNCHANGED <<recv, requests, events, loop, proc, ctx, reply, window, hub>>
      /\ UNCHANGED <<link, verdict, submits>>
  BY DEF OnChat, Emit, channels, tools, ide
<1>2. m \in Submits /\ m.of = q
  BY DEF Submits
<1>3. ServerOK
  BY DEF IInv
<1>4. q \notin pendingChats /\ verdict[q] = None
  BY <1>1, <1>2, <1>3 DEF ServerOK, Fresh
<1>5. \A r \in Chats : Posed(pendingChats, verdict, r) => Posed(pendingChats', verdict', r)
  BY <1>1 DEF Posed
<1>6. <<Ask(q)>> \in Seq(Requests \cup Events) /\ AllKnown(pendingChats', verdict', <<Ask(q)>>)
  <2>1. Ask(q) \in Events /\ Ask(q).of = q
    BY DEF Ask, Events
  <2>2. Known(pendingChats', verdict', Ask(q))
    BY <1>1, <2>1 DEF Known, Posed
  <2> QED
    BY <2>1, <2>2 DEF AllKnown
<1>7. ChannelsOK' /\ ToolsOK' /\ RepliesOK' /\ WindowsOK' /\ QuestionsOK'
  BY <1>1, <1>5, <1>6, EmitKeeps
<1>8. ASSUME NEW k \in inbox' PROVE Fresh(pendingChats', verdict', k)
  <2>1. k \in inbox /\ k # m /\ k \in Submits \cup UserAnswers
    BY <1>1, <1>3 DEF ServerOK
  <2>2. Fresh(pendingChats, verdict, k)
    BY <1>3, <2>1 DEF ServerOK
  <2>3. k \in Submits => k.of # q
    BY <2>1 DEF Submits
  <2>4. k \in UserAnswers => k.of \in Chats
    BY DEF UserAnswers
  <2> QED
    BY <1>1, <1>5, <2>2, <2>3, <2>4 DEF Fresh
<1>9. \A r \in Chats : Decided(pendingChats', verdict', submits', r)
  BY <1>1, <1>3, <1>4 DEF ServerOK, Decided
<1>10. ServerOK'
  BY <1>1, <1>3, <1>8, <1>9 DEF ServerOK
<1> QED
  BY <1>7, <1>10 DEF IInv

\* onAnswer: the first answer takes the pending chat, so a later one finds none.
LEMMA OnAnswerKeepsInv ==
  ASSUME IInv, NEW m \in inbox, OnAnswer(m)
  PROVE  IInv'
<1> DEFINE q == m.of
<1>1. /\ m.kind = "question.answer" /\ inbox' = inbox \ {m} /\ pendingChats' = pendingChats \ {q}
      /\ verdict' = IF verdict[q] = None THEN [verdict EXCEPT ![q] = m] ELSE verdict
      /\ \/ /\ q \in pendingChats /\ ~m.blank /\ submits' = [submits EXCEPT ![q] = @ + 1]
            /\ wire' \in {wire, wire \o <<Progress(q), Review(q)>>}
         \/ ~(q \in pendingChats /\ ~m.blank) /\ submits' = submits /\ wire' = wire
      /\ UNCHANGED <<recv, requests, events, loop, proc, ctx, reply, window, hub>>
      /\ link' = link
  BY DEF OnAnswer, AfterAnswer, Emit, channels, tools, ide
<1>2. ServerOK
  BY DEF IInv
<1>3. m \in UserAnswers /\ q \in Chats /\ m.blank \in BOOLEAN
  BY <1>1, <1>2 DEF ServerOK, Submits, UserAnswers
<1>4. m # None
  BY <1>3, NoneIsNoWord
<1>5. verdict \in [Chats -> UserAnswers \cup {None}] /\ submits \in [Chats -> Nat]
  BY <1>2 DEF ServerOK
<1>6. Posed(pendingChats, verdict, q) /\ Decided(pendingChats, verdict, submits, q)
  BY <1>2, <1>3 DEF ServerOK, Fresh
<1> HIDE DEF q
<1>7. /\ verdict' \in [Chats -> UserAnswers \cup {None}] /\ verdict'[q] # None
      /\ verdict[q] # None => verdict'[q] = verdict[q]
      /\ verdict[q] = None => verdict'[q] = m
      /\ \A r \in Chats : r # q => verdict'[r] = verdict[r]
  BY <1>1, <1>3, <1>4, <1>5
<1>8. \A r \in Chats : Posed(pendingChats, verdict, r) => Posed(pendingChats', verdict', r)
  BY <1>1, <1>7 DEF Posed
<1>9. /\ <<Progress(q), Review(q)>> \in Seq(Requests \cup Events)
      /\ AllKnown(pendingChats', verdict', <<Progress(q), Review(q)>>)
  <2>1. /\ Progress(q) \in Events /\ Progress(q).kind = "workflow.progress"
        /\ Review(q) \in Events /\ Review(q).kind = "design.review"
    BY <1>3 DEF Progress, Review, Events
  <2>2. Known(pendingChats', verdict', Progress(q)) /\ Known(pendingChats', verdict', Review(q))
    BY <2>1 DEF Known
  <2> QED
    BY <2>1, <2>2 DEF AllKnown
<1>10. ChannelsOK' /\ ToolsOK' /\ RepliesOK' /\ WindowsOK' /\ QuestionsOK'
  <2>1. wire' \in {wire, wire \o <<Progress(q), Review(q)>>}
    BY <1>1
  <2> QED
    BY <1>1, <1>8, <1>9, <2>1, EmitKeeps
<1>11. ASSUME NEW k \in inbox' PROVE Fresh(pendingChats', verdict', k)
  <2>1. k \in inbox /\ Fresh(pendingChats, verdict, k)
    BY <1>1, <1>2 DEF ServerOK
  <2>2. k \in Submits => k.of # q /\ k.of \in Chats
    BY <1>6, <2>1 DEF Fresh, Posed, Submits
  <2>3. k \in UserAnswers => k.of \in Chats
    BY DEF UserAnswers
  <2> QED
    BY <1>1, <1>7, <1>8, <2>1, <2>2, <2>3 DEF Fresh
<1>12. submits' \in [Chats -> Nat]
  <2>1. submits' = submits \/ submits' = [submits EXCEPT ![q] = @ + 1]
    BY <1>1
  <2>2. submits[q] + 1 \in Nat
    BY <1>3, <1>5 DEF q
  <2> QED
    BY <1>5, <2>1, <2>2
<1>13. ASSUME NEW r \in Chats PROVE Decided(pendingChats', verdict', submits', r)
  <2>1. CASE r # q
    <3>1. submits'[r] = submits[r] /\ verdict'[r] = verdict[r]
      BY <1>1, <1>5, <1>7, <2>1
    <3>2. Decided(pendingChats, verdict, submits, r)
      BY <1>2 DEF ServerOK
    <3> QED
      BY <1>1, <3>1, <3>2 DEF Decided
  <2>2. CASE r = q /\ verdict[q] # None
    <3>1. q \notin pendingChats
      BY <1>6, <2>2 DEF Decided
    <3>2. submits' = submits /\ verdict'[q] = verdict[q]
      BY <1>1, <1>7, <2>2, <3>1
    <3> QED
      BY <1>1, <1>6, <2>2, <3>2 DEF Decided
  <2>3. CASE r = q /\ verdict[q] = None
    <3>1. q \in pendingChats /\ submits[q] = 0 /\ verdict'[q] = m
      BY <1>6, <1>7, <2>3 DEF Posed, Decided
    <3>2. submits'[q] = IF ~m.blank THEN 1 ELSE 0
      BY <1>1, <1>3, <1>5, <3>1
    <3> QED
      BY <1>1, <1>4, <2>3, <3>1, <3>2 DEF Decided
  <2> QED
    BY <2>1, <2>2, <2>3
<1>14. ServerOK'
  BY <1>1, <1>2, <1>7, <1>11, <1>12, <1>13 DEF ServerOK
<1> QED
  BY <1>10, <1>14 DEF IInv

-----------------------------------------------------------------------------
(* The theorems                                                            *)

\* The agent starts with empty channels, and no question is open.
LEMMA InitInv == Init => IInv
<1> SUFFICES ASSUME Init PROVE IInv
  OBVIOUS
<1>1. ChannelsOK
  <2>1. <<>> \in Seq(Requests \cup Events) /\ <<>> \in Seq(Requests) /\ <<>> \in Seq(Events)
    OBVIOUS
  <2>2. 0 <= RequestCap /\ 0 <= EventCap
    BY StreamAssumption
  <2> QED
    BY <2>1, <2>2 DEF Init, ChannelsOK
<1>2. ToolsOK
  <2>1. Receiving \in Loop /\ Receiving.pc = "receive"
    BY NoneIsNoWord DEF Receiving, Loop
  <2>2. loop = Receiving /\ proc = NoProcess /\ ctx = TRUE
    BY DEF Init
  <2>3. Running(loop) /\ Sending(loop, ctx) /\ Waited(loop, proc)
    BY <2>1, <2>2, NoneIsNoWord DEF Running, Sending, Waited
  <2>4. CancelledBy(ctx, proc)
    BY <2>2, NoneIsNoWord DEF CancelledBy, Causes
  <2> QED
    BY <2>1, <2>2, <2>3, <2>4, NoneIsNoWord DEF ToolsOK
<1>3. RepliesOK
  BY DEF Init, RepliesOK
<1>4. hub = Listening /\ hub.event = None /\ hub.left = <<>>
  BY DEF Init, Listening
<1>5. window \in [Windows -> Screen] /\ \A w \in Windows : window[w].shows = {}
  BY DEF Init, Screen
<1>6. WindowsOK
  BY <1>4, <1>5 DEF Listening, WindowsOK
<1>7. QuestionsOK
  BY <1>4, <1>5 DEF Init, QuestionsOK, AllKnown, Known
<1>8. ServerOK
  BY DEF Init, ServerOK, Decided
<1> QED
  BY <1>1, <1>2, <1>3, <1>6, <1>7, <1>8 DEF IInv

\* Every step of the agent, of its windows and of the server keeps the invariant.
LEMMA NextInv == IInv /\ [Next]_vars => IInv'
<1> SUFFICES ASSUME IInv, [Next]_vars PROVE IInv'
  OBVIOUS
<1>1. CASE UNCHANGED vars
  <2>1. /\ UNCHANGED <<wire, recv, requests, events>> /\ UNCHANGED <<loop, proc, ctx>>
        /\ UNCHANGED <<reply, ctx>> /\ UNCHANGED <<window, hub>>
        /\ UNCHANGED <<wire, recv, events, hub, window, pendingChats, verdict>>
        /\ UNCHANGED <<link, inbox, pendingChats, verdict, submits>>
    BY <1>1 DEF vars, channels, tools, ide, server
  <2>2. /\ ChannelsOK' /\ ToolsOK' /\ RepliesOK' /\ WindowsOK' /\ QuestionsOK' /\ ServerOK'
    BY <2>1, Untouched
  <2> QED
    BY <2>2 DEF IInv
<1>2. CASE Next
  BY <1>2, ToolsKeepInv, StreamKeepsInv, HubKeepsInv, WindowsKeepInv, UserKeepsInv,
     OnChatKeepsInv, OnAnswerKeepsInv DEF Next
<1> QED
  BY <1>1, <1>2

\* The inductive invariant holds whatever the process, the windows, the user and
\* the connection do: recvLoop's channels, the one run of transport.Loop, the
\* replies already sent, and the questions under way between onChat and onAnswer.
THEOREM StreamInvariance == Spec => []IInv
BY InitInv, NextInv, PTL DEF Spec

\* recvLoop never puts more into a channel than it holds, Loop waits for a
\* process just while one is running or being collected, and the Hub has
\* connections left to write to only while it has an event.
THEOREM StreamTypeCorrect == Spec => []TypeOK
<1>1. IInv => TypeOK
  <2> SUFFICES ASSUME IInv PROVE TypeOK
    OBVIOUS
  <2>1. Len(requests) <= RequestCap /\ Len(events) <= EventCap
    BY DEF IInv, ChannelsOK
  <2>2. /\ loop.pc \in {"receive", "start", "wait", "send", "ended"}
        /\ loop.call \in Calls \cup {None} /\ loop.cmd \in 0..3
    BY DEF IInv, ToolsOK, Loop
  <2>3. /\ proc.state # "none" <=> loop.pc = "wait"
        /\ proc.state = "none" => proc = NoProcess
        /\ proc.heir => proc.state = "ended"
    BY DEF IInv, ToolsOK, Waited
  <2>4. hub.left # <<>> => hub.event # None
    BY DEF IInv, WindowsOK
  <2>5. pendingChats \subseteq Chats /\ submits \in [Chats -> Nat]
    BY DEF IInv, ServerOK
  <2> QED
    BY <2>1, <2>2, <2>3, <2>4, <2>5 DEF TypeOK
<1> QED
  BY <1>1, StreamInvariance, PTL

\* process.Run, statusOf, gitOut: what the server was told of a call is what
\* became of its last process, for every order of exit, deadline, kill and
\* SIGTERM and however long a descendant keeps the output open.
THEOREM TrueReplies == Spec => []RepliesAreTrue
<1>1. IInv => RepliesAreTrue
  <2> SUFFICES ASSUME IInv, NEW c \in Calls, reply[c] # None, reply[c].last.state = "ended"
               PROVE  LET told == reply[c].res
                          last == reply[c].last
                      IN /\ told.status = "SUCCESS" => last.code = 0 /\ last.cause = None
                         /\ told.error = "PROCESS_TIMEOUT" <=> last.cause = "TIMEOUT"
                         /\ told.error = "PROCESS_CANCELLED" <=> last.cause = "CANCELLED"
                         /\ last.cause = "CANCELLED" => ~ctx
    BY DEF RepliesAreTrue
  <2>1. IsTrue(reply[c].res, reply[c].last) /\ CancelledBy(ctx, reply[c].last)
    BY DEF IInv, RepliesOK
  <2> QED
    BY <2>1 DEF IsTrue, CancelledBy
<1> QED
  BY <1>1, StreamInvariance, PTL

\* onAnswer: however many windows answer a question and in whatever order their
\* answers arrive, the first one decides the chat, once.
THEOREM OneAnswerDecides == Spec => []FirstAnswerDecides
<1>1. IInv => FirstAnswerDecides
  BY DEF IInv, ServerOK, Decided, FirstAnswerDecides
<1> QED
  BY <1>1, StreamInvariance, PTL

=============================================================================
