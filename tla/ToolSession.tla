---------------------------- MODULE ToolSession ----------------------------
(***************************************************************************)
(* Tool calls from the server to the Local Agent: DefaultToolGateway       *)
(* (call_id cache, timeout), RoutedLocalAgentChannel, GrpcToolSession (one *)
(* outbound stream, pending futures by wire call id) and the agent's       *)
(* transport and dispatcher at the other end.                              *)
(*                                                                         *)
(* A caller is one invocation of DefaultToolGateway.call; its channel task *)
(* runs on a pool thread.  GrpcToolSession issues a wire call id per       *)
(* invocation, so callers name the wire calls too.  A retry is a second    *)
(* caller with the same call id.                                           *)
(*                                                                         *)
(* Streams are the agent's connections, one after the other.  A connection *)
(* breaks at the network first; the server's onError runs some time later, *)
(* possibly after the agent has opened the next one.                       *)
(***************************************************************************)
EXTENDS Naturals, FiniteSets

CONSTANTS
  Callers, CallIds, Streams, None

\* read: any tool without side effects.  write: one of SIDE_EFFECT_TOOLS.
\* agent_apply: workspace.apply_changes asked for by an AGENT.
Tools   == {"read", "write", "agent_apply"}
\* SUCCESS is a response of the agent, whichever status it carries; HARNESS is
\* the answer of InMemoryLocalAgentChannel.
Answers == {"SUCCESS", "HARNESS", "UNAVAILABLE", "INTERNAL", "TIMEOUT", "DENIED"}

\* None is null: no caller, id or stream, no answer and no open future.
ASSUME SessionAssumption ==
  /\ None \notin Callers \cup CallIds \cup Streams
  /\ None \notin Answers \cup {"open"}

VARIABLES
  call,      \* a caller's request, its channel task and its future
  cache,     \* sideEffectResults
  outbound,  \* the stream GrpcToolSession sends on
  pending,   \* wire calls with a future in the map
  stream,    \* the connections
  requests, running, responses,   \* wire calls on the way to, at and from the agent
  executed   \* wire calls whose tool ran

agent == <<requests, running, responses, executed>>
vars  == <<call, cache, outbound, pending, stream, agent>>

\* after: the calls for the same id and tool that had returned when it was made.
NoCall == [after |-> {}, id |-> None, tool |-> "read", gw |-> "idle", res |-> None,
           inv |-> "none", ret |-> None, fut |-> None, intr |-> FALSE]

Init ==
  /\ call = [c \in Callers |-> NoCall]
  /\ cache = [id \in CallIds |-> None]
  /\ outbound = None
  /\ pending = {}
  /\ stream = [s \in Streams |-> "new"]
  /\ requests = {} /\ running = {} /\ responses = {} /\ executed = {}

-----------------------------------------------------------------------------
(* DefaultToolGateway.call                                                 *)

\* MUTANT: a timeout is not remembered, so that a retry can succeed.
MutRememberAnswers(c, answer) ==
  IF call[c].tool = "write" /\ cache[call[c].id] = None /\ answer # "TIMEOUT"
  THEN [cache EXCEPT ![call[c].id] = answer] ELSE cache

\* rememberSideEffect
Remember(c, answer) ==
  IF call[c].tool = "write" /\ cache[call[c].id] = None
  THEN [cache EXCEPT ![call[c].id] = answer] ELSE cache

Call(c, id, tool) ==
  /\ call[c].gw = "idle"
  /\ LET asked == [NoCall EXCEPT !.id = id, !.tool = tool,
                                  !.after = {d \in Callers : call[d].gw = "done" /\ call[d].id = id
                                                         /\ call[d].tool = tool}]
     IN \/ /\ tool = "agent_apply"
           /\ call' = [call EXCEPT ![c] = [asked EXCEPT !.gw = "done", !.res = "DENIED"]]
        \/ /\ tool = "write" /\ cache[id] # None
           /\ call' = [call EXCEPT ![c] = [asked EXCEPT !.gw = "done", !.res = cache[id]]]
        \/ /\ tool # "agent_apply"
           /\ tool = "write" => cache[id] = None
           /\ call' = [call EXCEPT ![c] = [asked EXCEPT !.gw = "waiting", !.inv = "start"]]
  /\ UNCHANGED <<cache, outbound, pending, stream, agent>>

\* The channel's answer arrives within timeout_ms.
Return(c) ==
  /\ call[c].gw = "waiting"
  /\ call[c].inv = "returned"
  /\ call' = [call EXCEPT ![c].gw = "done", ![c].res = call[c].ret]
  /\ cache' = Remember(c, call[c].ret)
  /\ UNCHANGED <<outbound, pending, stream, agent>>

\* MUTANT: future.cancel(false).
MutCancelled(c) ==
  {[call[c] EXCEPT !.gw = "done", !.res = "TIMEOUT"]}

\* future.cancel(true): the task never starts, or its thread is interrupted.
Cancelled(c) ==
  LET late == [call[c] EXCEPT !.gw = "done", !.res = "TIMEOUT"]
  IN {[late EXCEPT !.intr = TRUE]} \cup
     (IF call[c].inv = "start" THEN {[late EXCEPT !.inv = "returned"]} ELSE {})

Timeout(c) ==
  /\ call[c].gw = "waiting"
  /\ call[c].inv # "returned"
  /\ \E after \in Cancelled(c) : call' = [call EXCEPT ![c] = after]
  /\ cache' = Remember(c, "TIMEOUT")
  /\ UNCHANGED <<outbound, pending, stream, agent>>

-----------------------------------------------------------------------------
(* RoutedLocalAgentChannel.invoke, GrpcToolSession.invoke                  *)

At(c, step) == call[c].inv = step

Goto(c, step) == call' = [call EXCEPT ![c].inv = step]

Give(c, answer) == call' = [call EXCEPT ![c].inv = "returned", ![c].ret = answer]

Route(c) ==
  /\ At(c, "start")
  /\ IF outbound # None THEN Goto(c, "session") ELSE Give(c, "HARNESS")
  /\ UNCHANGED <<cache, outbound, pending, stream, agent>>

CheckOpen(c) ==
  /\ At(c, "session")
  /\ IF outbound # None THEN Goto(c, "put") ELSE Give(c, "UNAVAILABLE")
  /\ UNCHANGED <<cache, outbound, pending, stream, agent>>

Put(c) ==
  /\ At(c, "put")
  /\ call' = [call EXCEPT ![c].inv = "send", ![c].fut = "open"]
  /\ pending' = pending \cup {c}
  /\ UNCHANGED <<cache, outbound, stream, agent>>

Attached(status) == \E s \in Streams : s = outbound /\ stream[s] = status

\* send: nothing is sent without a stream; onNext on a broken one is lost or
\* throws.
SendRequest(c) ==
  /\ At(c, "send")
  /\ \/ /\ Attached("open")
        /\ Goto(c, "wait")
        /\ requests' = requests \cup {<<outbound, c>>}
        /\ UNCHANGED pending
     \/ /\ ~Attached("open")
        /\ Goto(c, "wait")
        /\ UNCHANGED <<requests, pending>>
     \/ /\ Attached("broken")
        /\ Give(c, "INTERNAL")
        /\ pending' = pending \ {c}
        /\ UNCHANGED requests
  /\ UNCHANGED <<cache, outbound, stream, running, responses, executed>>

\* future.get returns ...
Await(c) ==
  /\ At(c, "wait")
  /\ call[c].fut # "open"
  /\ Give(c, call[c].fut)
  /\ UNCHANGED <<cache, outbound, pending, stream, agent>>

\* ... or is interrupted.
Interrupted(c) ==
  /\ At(c, "wait")
  /\ call[c].fut = "open"
  /\ call[c].intr
  /\ Give(c, "INTERNAL")
  /\ pending' = pending \ {c}
  /\ UNCHANGED <<cache, outbound, stream, agent>>

Invoke(c) ==
  Route(c) \/ CheckOpen(c) \/ Put(c) \/ SendRequest(c) \/ Await(c) \/ Interrupted(c)

-----------------------------------------------------------------------------
(* AgentSessionService.open and its stream's callbacks                     *)

\* MUTANT: the futures are completed with null.
MutSettle(cs, answer) ==
  [c \in Callers |-> IF c \in cs /\ call[c].fut = "open"
                     THEN [call[c] EXCEPT !.fut = None] ELSE call[c]]

Settle(cs, answer) ==
  [c \in Callers |-> IF c \in cs /\ call[c].fut = "open"
                     THEN [call[c] EXCEPT !.fut = answer] ELSE call[c]]

\* MUTANT: a stream is attached only if there is none.
MutAttach(s) == IF outbound = None THEN s ELSE outbound

\* attach replaces the stream before it.
Attach(s) == s

Open(s) ==
  /\ stream[s] = "new"
  /\ \A r \in Streams : stream[r] # "open"
  /\ stream' = [stream EXCEPT ![s] = "open"]
  /\ outbound' = Attach(s)
  /\ UNCHANGED <<call, cache, pending, agent>>

\* The connection is lost with what is under way to and at the agent.
Break(s) ==
  /\ stream[s] = "open"
  /\ stream' = [stream EXCEPT ![s] = "broken"]
  /\ requests' = {m \in requests : m[1] # s}
  /\ running' = {m \in running : m[1] # s}
  /\ UNCHANGED <<call, cache, outbound, pending, responses, executed>>

\* detach, from onError or onCompleted of s: whichever stream is attached now
\* is dropped,
DetachStream(s) ==
  /\ stream[s] = "broken"
  /\ stream' = [stream EXCEPT ![s] = "failing"]
  /\ outbound' = None
  /\ responses' = {m \in responses : m[1] # s}
  /\ UNCHANGED <<call, cache, pending, requests, running, executed>>

\* every future in the map is completed,
DetachFail(s) ==
  /\ stream[s] = "failing"
  /\ stream' = [stream EXCEPT ![s] = "clearing"]
  /\ call' = Settle(pending, "UNAVAILABLE")
  /\ UNCHANGED <<cache, outbound, pending, agent>>

\* and the map is cleared.
DetachClear(s) ==
  /\ stream[s] = "clearing"
  /\ stream' = [stream EXCEPT ![s] = "closed"]
  /\ pending' = {}
  /\ UNCHANGED <<call, cache, outbound, agent>>

\* MUTANT: a response completes whatever waits.
MutAnswered(c) == pending

\* The calls a response with wire call id c completes.
Answered(c) == {c} \cap pending

\* complete
Deliver(s, c) ==
  /\ <<s, c>> \in responses
  /\ stream[s] \in {"open", "broken"}
  /\ responses' = responses \ {<<s, c>>}
  /\ call' = Settle(Answered(c), "SUCCESS")
  /\ pending' = pending \ Answered(c)
  /\ UNCHANGED <<cache, outbound, stream, requests, running, executed>>

-----------------------------------------------------------------------------
(* The Local Agent: recvLoop, transport.Loop, Dispatcher.Dispatch          *)

\* recvLoop finds the requests channel full for five seconds.
Drop(s, c) ==
  /\ <<s, c>> \in requests
  /\ requests' = requests \ {<<s, c>>}
  /\ UNCHANGED <<call, cache, outbound, pending, stream, running, responses, executed>>

\* Loop handles one request at a time: the tool runs ...
Dispatch(s, c) ==
  /\ <<s, c>> \in requests
  /\ running = {}
  /\ requests' = requests \ {<<s, c>>}
  /\ running' = {<<s, c>>}
  /\ executed' = executed \cup {c}
  /\ UNCHANGED <<call, cache, outbound, pending, stream, responses>>

\* ... and its response is sent.
SendResponse(s, c) ==
  /\ <<s, c>> \in running
  /\ running' = {}
  /\ responses' = responses \cup {<<s, c>>}
  /\ UNCHANGED <<call, cache, outbound, pending, stream, requests, executed>>

-----------------------------------------------------------------------------
Connection(s) ==
  \/ Open(s) \/ Break(s) \/ DetachStream(s) \/ DetachFail(s) \/ DetachClear(s)
  \/ \E c \in Callers : Deliver(s, c) \/ Drop(s, c) \/ Dispatch(s, c) \/ SendResponse(s, c)

Next ==
  \/ \E c \in Callers : \/ \E id \in CallIds, tool \in Tools : Call(c, id, tool)
                        \/ Return(c) \/ Timeout(c) \/ Invoke(c)
  \/ \E s \in Streams : Connection(s)

Spec == Init /\ [][Next]_vars

\* The server's threads keep running and its timers fire.  Nothing is assumed
\* of the network, the agent or the callers.
FairSpec ==
  /\ Spec
  /\ \A c \in Callers : WF_vars(Return(c)) /\ WF_vars(Timeout(c)) /\ WF_vars(Invoke(c))
  /\ \A s \in Streams : WF_vars(DetachFail(s) \/ DetachClear(s))

-----------------------------------------------------------------------------
(* Properties                                                              *)

\* Calls, futures, map and connections have the shapes the code gives them; an
\* entry of the map has a future, open or completed with an answer.
TypeOK ==
  /\ call \in [Callers -> [after : SUBSET Callers, id : CallIds \cup {None}, tool : Tools,
                           gw : {"idle", "waiting", "done"}, res : Answers \cup {None},
                           inv : {"none", "start", "session", "put", "send", "wait", "returned"},
                           ret : Answers \cup {None}, fut : Answers \cup {None, "open"},
                           intr : BOOLEAN]]
  /\ cache \in [CallIds -> Answers \cup {None}]
  /\ outbound \in Streams \cup {None}
  /\ pending \subseteq Callers
  /\ \A c \in pending : call[c].fut # None
  /\ stream \in [Streams -> {"new", "open", "broken", "failing", "clearing", "closed"}]
  /\ {requests, running, responses} \subseteq SUBSET (Streams \X Callers)
  /\ executed \subseteq Callers

\* A SUCCESS that came over the stream answers this very call: its tool ran,
\* or, for a call with side effects, the tool of an earlier call with its id.
SuccessWasExecuted ==
  \A c \in Callers : call[c].res = "SUCCESS" =>
    \/ c \in executed
    \/ call[c].tool = "write" /\ \E d \in executed : call[d].id = call[c].id

\* c and d ask for the same call with side effects.
SameCall(c, d) ==
  call[c].tool = "write" /\ call[d].tool = "write" /\ call[c].id = call[d].id

\* A tool with side effects does not run again for a retry, although its first
\* call timed out, or the tool runs after its caller has given up.  Only calls
\* that are under way at the same time both miss the cache.
ExecutedOnce ==
  \A c, d \in executed : SameCall(c, d) => c \notin call[d].after

\* A retry of a call with side effects is told what the first call was told,
\* unless a third call of that id overlapped the first.
RetryGetsSameAnswer ==
  \A c, d \in Callers :
    /\ call[d].gw = "done" /\ c \in call[d].after /\ SameCall(c, d)
    /\ \A e \in Callers \ {c} : SameCall(c, e) => c \in call[e].after \/ e \in call[c].after
    => call[c].res = call[d].res

\* No thread of the pool waits for ever and no entry stays in the map, whatever
\* the agent does and wherever a detach meets the call.
WorkerEnds ==
  \A c \in Callers :
    call[c].inv \notin {"none", "returned"} ~> call[c].inv = "returned" /\ c \notin pending

\* attach's comment: a new stream replaces the one before it.  The calls of a
\* connected agent use its stream unless the onError of an earlier stream came
\* late and dropped it.
AttachedIsUsed ==
  \A s \in Streams : stream[s] = "open" =>
    \/ outbound = s
    \/ outbound = None /\ \E r \in Streams \ {s} : stream[r] \in {"failing", "clearing", "closed"}

=============================================================================
