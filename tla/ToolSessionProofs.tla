------------------------- MODULE ToolSessionProofs -------------------------
(***************************************************************************)
(* Proofs about ToolSession, for any set of callers, call ids and streams. *)
(*                                                                         *)
(* The inductive invariant adds to the properties what the server knows of *)
(* a call at each point of its way: who may appear in the map and on the   *)
(* wire (WorkersOK), that an answer of the agent was preceded by its tool  *)
(* (AgentOK), and who put an entry into sideEffectResults (CacheOK).       *)
(***************************************************************************)
EXTENDS ToolSession, TLAPS

CallT == [after : SUBSET Callers, id : CallIds \cup {None}, tool : Tools,
          gw : {"idle", "waiting", "done"}, res : Answers \cup {None},
          inv : {"none", "start", "session", "put", "send", "wait", "returned"},
          ret : Answers \cup {None}, fut : Answers \cup {None, "open"},
          intr : BOOLEAN]

\* Only a call whose channel task was submitted is in the map, on the wire or
\* at the agent.
WorkersOK ==
  /\ \A c \in Callers : /\ call[c].gw = "idle" => call[c].inv = "none" /\ call[c].tool = "read"
                        /\ call[c].gw = "waiting" => call[c].inv # "none"
                        /\ call[c].gw # "idle" => call[c].id \in CallIds
  /\ \A c \in pending \cup executed : call[c].inv # "none"
  /\ \A m \in requests \cup running \cup responses : call[m[2]].inv # "none"

\* A task that waits has a future, and one that returned to its caller gave an
\* answer.
FuturesOK ==
  \A c \in Callers :
    /\ call[c].inv \in {"send", "wait"} => call[c].fut # None
    /\ call[c].gw = "waiting" /\ call[c].inv = "returned" => call[c].ret # None

\* A response on its way, and a SUCCESS at the server, follow the tool's run.
AgentOK ==
  /\ \A m \in running \cup responses : m[2] \in executed
  /\ \A c \in Callers : call[c].fut = "SUCCESS" \/ call[c].ret = "SUCCESS" => c \in executed

\* c is a call with side effects that has returned.
Served(c) == call[c].tool = "write" /\ call[c].gw = "done"

\* Two calls of one id were under way at the same time.
Overlap(c, e) == SameCall(c, e) /\ c \notin call[e].after /\ e \notin call[c].after

\* sideEffectResults: a call that returned left an entry; a task is submitted
\* only for a call that found none, hence after no other; an entry is the
\* answer of one of these tasks and of every call that did not overlap it.
CacheOK ==
  /\ \A c \in Callers : \A d \in call[c].after : call[d].gw = "done"
  /\ \A c \in Callers : call[c].inv # "none" /\ call[c].tool = "write" => call[c].after = {}
  /\ \A c \in Callers : Served(c) => cache[call[c].id] # None
  /\ \A c \in Callers : Served(c) /\ call[c].res # cache[call[c].id]
                          => \E e \in Callers \ {c} : Overlap(c, e)
  /\ \A c \in Callers : Served(c) /\ call[c].inv = "none" => call[c].res = cache[call[c].id]
  /\ \A id \in CallIds : cache[id] # None =>
       \E e \in Callers : Served(e) /\ call[e].id = id /\ call[e].inv # "none"
  /\ \A id \in CallIds : cache[id] = "SUCCESS" => \E d \in executed : call[d].id = id

IInv ==
  /\ TypeOK /\ WorkersOK /\ FuturesOK /\ AgentOK /\ CacheOK
  /\ SuccessWasExecuted /\ AttachedIsUsed

-----------------------------------------------------------------------------
\* The first state: no call, no connection, nothing remembered.
LEMMA InitInv == Init => IInv
<1> SUFFICES ASSUME Init PROVE IInv
  OBVIOUS
<1>1. TypeOK
  BY DEF Init, TypeOK, NoCall, Tools
<1>2. \A c \in Callers : call[c] = NoCall
  BY DEF Init
<1>3. NoCall.gw = "idle" /\ NoCall.inv = "none" /\ NoCall.fut = None /\ NoCall.ret = None
      /\ NoCall.tool = "read" /\ NoCall.after = {} /\ NoCall.res = None
  BY DEF NoCall
<1>4. WorkersOK /\ FuturesOK /\ AgentOK
  BY <1>2, <1>3, SessionAssumption DEF Init, WorkersOK, FuturesOK, AgentOK, Answers
<1>5. CacheOK
  BY <1>2, <1>3, SessionAssumption DEF Init, CacheOK, Served, Answers
<1>6. SuccessWasExecuted /\ AttachedIsUsed
  BY <1>2, <1>3, SessionAssumption DEF Init, SuccessWasExecuted, AttachedIsUsed, Answers
<1> QED
  BY <1>1, <1>4, <1>5, <1>6 DEF IInv

\* A step of c's channel task, of a detach or of a response leaves the gateway
\* side of every call alone: what was asked, when, and the answer returned.
SameRequest(c) ==
  /\ call'[c].after = call[c].after
  /\ call'[c].id = call[c].id
  /\ call'[c].tool = call[c].tool
  /\ call'[c].gw = call[c].gw
  /\ call'[c].res = call[c].res
  /\ call'[c].inv = "none" <=> call[c].inv = "none"

\* While the gateway and its cache rest, what they know stays true: the tools
\* that ran have run.
LEMMA GatewayRests ==
  ASSUME IInv, cache' = cache, executed \subseteq executed', executed' \subseteq Callers,
         \A c \in Callers : SameRequest(c)
  PROVE  CacheOK' /\ SuccessWasExecuted'
<1>1. CacheOK'
  <2>1. \A c, e \in Callers : Overlap(c, e) => Overlap(c, e)'
    BY DEF Overlap, SameCall, SameRequest
  <2>2. \A c \in Callers : Served(c)' <=> Served(c)
    BY DEF Served, SameRequest
  <2>3. \A c \in Callers : \A d \in call[c].after : d \in Callers
    BY DEF IInv, TypeOK
  <2>4. \A c \in Callers : \A d \in call'[c].after : call'[d].gw = "done"
    BY <2>3 DEF IInv, CacheOK, SameRequest
  <2>5. \A c \in Callers : call'[c].inv # "none" /\ call'[c].tool = "write" => call'[c].after = {}
    BY DEF IInv, CacheOK, SameRequest
  <2>6. \A c \in Callers : Served(c)' => cache'[call'[c].id] # None
    BY <2>2 DEF IInv, CacheOK, SameRequest
  <2>7. \A c \in Callers : Served(c)' /\ call'[c].res # cache'[call'[c].id]
                          => \E e \in Callers \ {c} : Overlap(c, e)'
    BY <2>1, <2>2 DEF IInv, CacheOK, SameRequest
  <2>8. \A c \in Callers : Served(c)' /\ call'[c].inv = "none" => call'[c].res = cache'[call'[c].id]
    BY <2>2 DEF IInv, CacheOK, SameRequest
  <2>9. \A id \in CallIds : cache'[id] # None =>
          \E e \in Callers : Served(e)' /\ call'[e].id = id /\ call'[e].inv # "none"
    BY <2>2 DEF IInv, CacheOK, SameRequest
  <2>10. \A id \in CallIds : cache'[id] = "SUCCESS" => \E d \in executed' : call'[d].id = id
    BY DEF IInv, CacheOK, SameRequest
  <2> QED
    BY <2>4, <2>5, <2>6, <2>7, <2>8, <2>9, <2>10 DEF CacheOK
<1>2. SuccessWasExecuted'
  BY DEF IInv, SuccessWasExecuted, SameRequest
<1> QED
  BY <1>1, <1>2

-----------------------------------------------------------------------------
(* The channel task                                                        *)

\* What a move of c's task does to the calls.
LEMMA TaskMoves ==
  ASSUME IInv, NEW c \in Callers, call[c].inv # "none",
         NEW step \in {"session", "put", "wait"}, Goto(c, step),
         step = "wait" => call[c].inv = "send"
  PROVE  /\ call' \in [Callers -> CallT]
         /\ \A d \in Callers : SameRequest(d)
         /\ FuturesOK'
         /\ \A d \in Callers : call'[d].fut = call[d].fut /\ call'[d].ret = call[d].ret
<1>1. call \in [Callers -> CallT]
  BY DEF IInv, TypeOK, CallT
<1>2. call' = [call EXCEPT ![c].inv = step]
  BY DEF Goto
<1>3. call' \in [Callers -> CallT]
  BY <1>1, <1>2 DEF CallT
<1>4. \A d \in Callers : SameRequest(d)
  BY <1>1, <1>2 DEF CallT, SameRequest
<1>5. \A d \in Callers : call'[d].fut = call[d].fut /\ call'[d].ret = call[d].ret
  BY <1>1, <1>2 DEF CallT
<1>6. \A d \in Callers : call'[d].inv = IF d = c THEN step ELSE call[d].inv
  BY <1>1, <1>2 DEF CallT
<1>7. FuturesOK'
  BY <1>4, <1>5, <1>6 DEF IInv, FuturesOK, SameRequest
<1> QED
  BY <1>3, <1>4, <1>5, <1>7

\* What the end of c's task, with its answer, does to the calls.
LEMMA TaskEnds ==
  ASSUME IInv, NEW c \in Callers, call[c].inv # "none",
         NEW answer \in Answers, Give(c, answer)
  PROVE  /\ call' \in [Callers -> CallT]
         /\ \A d \in Callers : SameRequest(d)
         /\ FuturesOK'
         /\ \A d \in Callers : call'[d].fut = call[d].fut
         /\ \A d \in Callers : call'[d].ret = IF d = c THEN answer ELSE call[d].ret
<1>1. call \in [Callers -> CallT]
  BY DEF IInv, TypeOK, CallT
<1>2. call' = [call EXCEPT ![c].inv = "returned", ![c].ret = answer]
  BY DEF Give
<1>3. call' \in [Callers -> CallT]
  <2> DEFINE ended == [call[c] EXCEPT !.inv = "returned"]
  <2>0. ended \in CallT
    BY <1>1 DEF CallT
  <2>1. [ended EXCEPT !.ret = answer] \in CallT
    <3> HIDE DEF ended
    <3> QED
      BY <2>0 DEF CallT
  <2>2. call' = [call EXCEPT ![c] = [ended EXCEPT !.ret = answer]]
    BY <1>1, <1>2
  <2> QED
    BY <1>1, <2>1, <2>2
<1>4. \A d \in Callers : SameRequest(d)
  BY <1>1, <1>2 DEF CallT, SameRequest
<1>5. \A d \in Callers : /\ call'[d].fut = call[d].fut
                         /\ call'[d].ret = IF d = c THEN answer ELSE call[d].ret
  BY <1>1, <1>2 DEF CallT
<1>6. \A d \in Callers : call'[d].inv = IF d = c THEN "returned" ELSE call[d].inv
  BY <1>1, <1>2 DEF CallT
<1>7. FuturesOK'
  BY <1>4, <1>5, <1>6, SessionAssumption DEF IInv, FuturesOK, SameRequest
<1> QED
  BY <1>3, <1>4, <1>5, <1>7

\* A step of a task that sends nothing keeps the invariant: the map only loses
\* calls, and an answer SUCCESS is the agent's.
LEMMA TaskRests ==
  ASSUME IInv, call' \in [Callers -> CallT],
         \A c \in Callers : SameRequest(c),
         \A c \in Callers : call'[c].fut = call[c].fut,
         \A c \in Callers : call'[c].ret = "SUCCESS" => call[c].ret = "SUCCESS" \/ call[c].fut = "SUCCESS",
         FuturesOK', pending' \subseteq pending, UNCHANGED <<cache, outbound, stream, agent>>
  PROVE  IInv'
<1> USE DEF agent
<1>1. TypeOK'
  BY DEF IInv, TypeOK, CallT
<1>2. WorkersOK'
  BY DEF IInv, TypeOK, WorkersOK, SameRequest
<1>3. AgentOK'
  BY DEF IInv, AgentOK
<1>4. CacheOK' /\ SuccessWasExecuted'
  BY GatewayRests DEF IInv, TypeOK
<1>5. AttachedIsUsed'
  BY DEF IInv, AttachedIsUsed
<1> QED
  BY <1>1, <1>2, <1>3, <1>4, <1>5 DEF IInv

\* RoutedLocalAgentChannel.invoke chooses the session or the harness.
LEMMA RouteStep == ASSUME IInv, NEW c \in Callers, Route(c) PROVE IInv'
<1>1. CASE outbound # None
  <2>1. Goto(c, "session") /\ call[c].inv # "none"
    BY <1>1 DEF Route, At
  <2> QED
    BY <2>1, TaskMoves, TaskRests DEF Route
<1>2. CASE outbound = None
  <2>1. Give(c, "HARNESS") /\ call[c].inv # "none"
    BY <1>2 DEF Route, At
  <2> QED
    BY <2>1, TaskEnds, TaskRests DEF Route, Answers
<1> QED
  BY <1>1, <1>2

\* GrpcToolSession.invoke finds the stream attached or gone.
LEMMA CheckOpenStep == ASSUME IInv, NEW c \in Callers, CheckOpen(c) PROVE IInv'
<1>1. CASE outbound # None
  <2>1. Goto(c, "put") /\ call[c].inv # "none"
    BY <1>1 DEF CheckOpen, At
  <2> QED
    BY <2>1, TaskMoves, TaskRests DEF CheckOpen
<1>2. CASE outbound = None
  <2>1. Give(c, "UNAVAILABLE") /\ call[c].inv # "none"
    BY <1>2 DEF CheckOpen, At
  <2> QED
    BY <2>1, TaskEnds, TaskRests DEF CheckOpen, Answers
<1> QED
  BY <1>1, <1>2

\* The future enters the map.
LEMMA PutStep == ASSUME IInv, NEW c \in Callers, Put(c) PROVE IInv'
<1> USE DEF agent
<1>1. call \in [Callers -> CallT]
  BY DEF IInv, TypeOK, CallT
<1>2. /\ call' = [call EXCEPT ![c].inv = "send", ![c].fut = "open"]
      /\ call[c].inv = "put"
      /\ pending' = pending \cup {c}
      /\ UNCHANGED <<cache, outbound, stream, agent>>
  BY DEF Put, At
<1>3. call' \in [Callers -> CallT]
  <2> DEFINE sending == [call[c] EXCEPT !.inv = "send"]
  <2>0. sending \in CallT
    BY <1>1 DEF CallT
  <2>1. [sending EXCEPT !.fut = "open"] \in CallT
    <3> HIDE DEF sending
    <3> QED
      BY <2>0 DEF CallT
  <2>2. call' = [call EXCEPT ![c] = [sending EXCEPT !.fut = "open"]]
    BY <1>1, <1>2
  <2> QED
    BY <1>1, <2>1, <2>2
<1>4. \A d \in Callers : SameRequest(d)
  BY <1>1, <1>2 DEF CallT, SameRequest
<1>5. \A d \in Callers : /\ call'[d].fut = IF d = c THEN "open" ELSE call[d].fut
                         /\ call'[d].ret = call[d].ret
  BY <1>1, <1>2 DEF CallT
<1>6. TypeOK'
  BY <1>2, <1>3, <1>5, SessionAssumption DEF IInv, TypeOK, CallT
<1>7. WorkersOK'
  BY <1>2, <1>4 DEF IInv, TypeOK, WorkersOK, SameRequest
<1>8. AgentOK'
  <2>1. \A d \in Callers : call'[d].fut = "SUCCESS" => call[d].fut = "SUCCESS"
    BY <1>5
  <2> QED
    BY <1>2, <1>5, <2>1 DEF IInv, AgentOK
<1>9. CacheOK' /\ SuccessWasExecuted'
  BY <1>2, <1>4, GatewayRests DEF IInv, TypeOK
<1>10. AttachedIsUsed'
  BY <1>2 DEF IInv, AttachedIsUsed
<1>11. FuturesOK'
  <2>1. \A d \in Callers : call'[d].inv = IF d = c THEN "send" ELSE call[d].inv
    BY <1>1, <1>2 DEF CallT
  <2> QED
    BY <1>4, <1>5, <2>1, SessionAssumption DEF IInv, FuturesOK, SameRequest
<1> QED
  BY <1>6, <1>7, <1>8, <1>9, <1>10, <1>11 DEF IInv

\* send: the request is on the wire, lost, or refused by a broken stream.
LEMMA SendRequestStep == ASSUME IInv, NEW c \in Callers, SendRequest(c) PROVE IInv'
<1> USE DEF agent
<1>0. call[c].inv # "none" /\ call[c].inv = "send"
  BY DEF SendRequest, At
<1>1. CASE /\ Attached("open") /\ Goto(c, "wait")
           /\ requests' = requests \cup {<<outbound, c>>}
           /\ UNCHANGED pending
  <2>1. /\ call' \in [Callers -> CallT]
        /\ \A d \in Callers : SameRequest(d)
        /\ FuturesOK'
        /\ \A d \in Callers : call'[d].fut = call[d].fut /\ call'[d].ret = call[d].ret
    BY <1>0, <1>1, TaskMoves
  <2>2. outbound \in Streams
    BY <1>1 DEF Attached
  <2>3. UNCHANGED <<cache, outbound, pending, stream, running, responses, executed>>
    BY <1>1 DEF SendRequest
  <2>4. TypeOK'
    BY <1>1, <2>1, <2>2, <2>3 DEF IInv, TypeOK, CallT
  <2>5. WorkersOK'
    BY <1>0, <1>1, <2>1, <2>3 DEF IInv, TypeOK, WorkersOK, SameRequest
  <2>6. AgentOK'
    BY <2>1, <2>3 DEF IInv, AgentOK
  <2>7. CacheOK' /\ SuccessWasExecuted'
    BY <2>1, <2>3, GatewayRests DEF IInv, TypeOK
  <2>8. AttachedIsUsed'
    BY <2>3 DEF IInv, AttachedIsUsed
  <2> QED
    BY <2>1, <2>4, <2>5, <2>6, <2>7, <2>8 DEF IInv
<1>2. CASE Goto(c, "wait") /\ UNCHANGED <<requests, pending>>
  BY <1>0, <1>2, TaskMoves, TaskRests DEF SendRequest
<1>3. CASE Give(c, "INTERNAL") /\ pending' = pending \ {c} /\ UNCHANGED requests
  BY <1>0, <1>3, TaskEnds, TaskRests DEF SendRequest, Answers
<1> QED
  BY <1>1, <1>2, <1>3 DEF SendRequest

\* future.get returns what completed the future.
LEMMA AwaitStep == ASSUME IInv, NEW c \in Callers, Await(c) PROVE IInv'
<1>1. call[c].inv # "none" /\ Give(c, call[c].fut)
  BY DEF Await, At
<1>2. call[c].fut \in Answers
  BY DEF Await, At, IInv, TypeOK, FuturesOK
<1> QED
  BY <1>1, <1>2, TaskEnds, TaskRests DEF Await

\* future.get is interrupted by the gateway's cancel.
LEMMA InterruptedStep == ASSUME IInv, NEW c \in Callers, Interrupted(c) PROVE IInv'
<1>1. call[c].inv # "none" /\ Give(c, "INTERNAL") /\ pending' \subseteq pending
  BY DEF Interrupted, At
<1> QED
  BY <1>1, TaskEnds, TaskRests DEF Interrupted, Answers

-----------------------------------------------------------------------------
(* The connections                                                         *)

\* The calls whose future is completed with an answer.
LEMMA Settled ==
  ASSUME IInv, NEW cs, NEW answer \in Answers, call' = Settle(cs, answer)
  PROVE  /\ call' \in [Callers -> CallT]
         /\ \A d \in Callers : SameRequest(d)
         /\ \A d \in Callers : call'[d].ret = call[d].ret /\ call'[d].inv = call[d].inv
         /\ \A d \in Callers : call[d].fut # None => call'[d].fut # None
         /\ \A d \in Callers : call'[d].fut = call[d].fut \/ (d \in cs /\ call'[d].fut = answer)
<1>1. call \in [Callers -> CallT]
  BY DEF IInv, TypeOK, CallT
<1>2. \A d \in Callers : [call[d] EXCEPT !.fut = answer] \in CallT
  BY <1>1 DEF CallT
<1>3. call' = [d \in Callers |-> IF d \in cs /\ call[d].fut = "open"
                                THEN [call[d] EXCEPT !.fut = answer] ELSE call[d]]
  BY DEF Settle
<1>4. call' \in [Callers -> CallT]
  BY <1>1, <1>2, <1>3
<1>5. \A d \in Callers : \/ call'[d] = call[d]
                         \/ d \in cs /\ call'[d] = [call[d] EXCEPT !.fut = answer]
  BY <1>3
<1>6. \A d \in Callers :
        /\ SameRequest(d)
        /\ call'[d].ret = call[d].ret /\ call'[d].inv = call[d].inv
        /\ call'[d].fut = call[d].fut \/ (d \in cs /\ call'[d].fut = answer)
  <2> TAKE d \in Callers
  <2>1. CASE call'[d] = call[d]
    BY <2>1 DEF SameRequest
  <2>2. CASE d \in cs /\ call'[d] = [call[d] EXCEPT !.fut = answer]
    <3>1. call[d] \in CallT
      BY <1>1
    <3> QED
      BY <2>2, <3>1 DEF CallT, SameRequest
  <2> QED
    BY <1>5, <2>1, <2>2
<1>8. \A d \in Callers : call[d].fut # None => call'[d].fut # None
  BY <1>6, SessionAssumption
<1> QED
  BY <1>4, <1>6, <1>8

\* What happens to the connections and at the agent while the calls rest.
LEMMA CallsRest ==
  ASSUME IInv, UNCHANGED <<call, cache, pending>>, TypeOK', AttachedIsUsed',
         executed \subseteq executed',
         \A d \in executed' : call[d].inv # "none",
         \A m \in requests' \cup running' \cup responses' : call[m[2]].inv # "none",
         \A m \in running' \cup responses' : m[2] \in executed'
  PROVE  IInv'
<1>1. WorkersOK'
  BY DEF IInv, WorkersOK
<1>2. FuturesOK' /\ AgentOK'
  BY DEF IInv, FuturesOK, AgentOK
<1>3. \A d \in Callers : SameRequest(d)
  BY DEF SameRequest
<1>4. CacheOK' /\ SuccessWasExecuted'
  BY <1>3, GatewayRests DEF TypeOK
<1> QED
  BY <1>1, <1>2, <1>4 DEF IInv

\* AgentSessionService.open attaches the new stream.
LEMMA OpenStep == ASSUME IInv, NEW s \in Streams, Open(s) PROVE IInv'
<1>0. /\ stream' = [stream EXCEPT ![s] = "open"] /\ outbound' = s
      /\ \A r \in Streams : stream[r] # "open"
      /\ UNCHANGED <<call, cache, pending>>
      /\ requests' = requests /\ running' = running /\ responses' = responses
      /\ executed' = executed
  BY DEF Open, Attach, agent
<1>1. TypeOK'
  BY <1>0 DEF IInv, TypeOK
<1>2. AttachedIsUsed'
  BY <1>0 DEF IInv, TypeOK, AttachedIsUsed
<1> QED
  BY <1>0, <1>1, <1>2, CallsRest DEF IInv, WorkersOK, AgentOK

\* The connection is lost.
LEMMA BreakStep == ASSUME IInv, NEW s \in Streams, Break(s) PROVE IInv'
<1>1. TypeOK'
  BY DEF IInv, TypeOK, Break
<1>2. AttachedIsUsed'
  BY DEF IInv, TypeOK, Break, AttachedIsUsed
<1>3. requests' \subseteq requests /\ running' \subseteq running
  BY DEF Break
<1> QED
  BY <1>1, <1>2, <1>3, CallsRest DEF Break, IInv, WorkersOK, AgentOK

\* detach drops the stream that is attached.
LEMMA DetachStreamStep == ASSUME IInv, NEW s \in Streams, DetachStream(s) PROVE IInv'
<1>1. TypeOK'
  BY DEF IInv, TypeOK, DetachStream
<1>2. AttachedIsUsed'
  BY DEF IInv, TypeOK, DetachStream, AttachedIsUsed
<1>3. responses' \subseteq responses
  BY DEF DetachStream
<1> QED
  BY <1>1, <1>2, <1>3, CallsRest DEF DetachStream, IInv, WorkersOK, AgentOK

\* detach clears the map.
LEMMA DetachClearStep == ASSUME IInv, NEW s \in Streams, DetachClear(s) PROVE IInv'
<1> USE DEF agent
<1>1. call' \in [Callers -> CallT] /\ (\A d \in Callers : SameRequest(d))
  BY DEF IInv, TypeOK, CallT, DetachClear, SameRequest
<1>2. TypeOK'
  BY DEF IInv, TypeOK, DetachClear
<1>3. AttachedIsUsed'
  BY DEF IInv, TypeOK, DetachClear, AttachedIsUsed
<1>4. WorkersOK' /\ FuturesOK' /\ AgentOK'
  BY DEF IInv, DetachClear, WorkersOK, FuturesOK, AgentOK
<1>5. CacheOK' /\ SuccessWasExecuted'
  BY <1>1, <1>2, GatewayRests DEF DetachClear, TypeOK
<1> QED
  BY <1>2, <1>3, <1>4, <1>5 DEF IInv

\* A step that completes futures, with SUCCESS only for a tool that ran.
LEMMA FuturesStep ==
  ASSUME IInv, NEW cs \in SUBSET Callers, NEW answer \in Answers, call' = Settle(cs, answer),
         answer = "SUCCESS" => cs \subseteq executed,
         pending' \subseteq pending, responses' \subseteq responses, AttachedIsUsed',
         stream' \in [Streams -> {"new", "open", "broken", "failing", "clearing", "closed"}],
         UNCHANGED <<cache, outbound, requests, running, executed>>
  PROVE  IInv'
<1>1. /\ call' \in [Callers -> CallT]
      /\ \A d \in Callers : SameRequest(d)
      /\ \A d \in Callers : call'[d].ret = call[d].ret /\ call'[d].inv = call[d].inv
      /\ \A d \in Callers : call[d].fut # None => call'[d].fut # None
      /\ \A d \in Callers : call'[d].fut = call[d].fut \/ (d \in cs /\ call'[d].fut = answer)
  BY Settled
<1>2. TypeOK'
  BY <1>1 DEF IInv, TypeOK, CallT
<1>3. WorkersOK'
  BY <1>1 DEF IInv, TypeOK, WorkersOK, SameRequest
<1>4. FuturesOK' /\ AgentOK'
  BY <1>1 DEF IInv, FuturesOK, AgentOK, SameRequest
<1>5. CacheOK' /\ SuccessWasExecuted'
  BY <1>1, GatewayRests DEF IInv, TypeOK
<1> QED
  BY <1>2, <1>3, <1>4, <1>5 DEF IInv

\* detach completes every future in the map.
LEMMA DetachFailStep == ASSUME IInv, NEW s \in Streams, DetachFail(s) PROVE IInv'
<1>1. AttachedIsUsed'
  BY DEF IInv, TypeOK, DetachFail, AttachedIsUsed
<1>2. stream' \in [Streams -> {"new", "open", "broken", "failing", "clearing", "closed"}]
  BY DEF IInv, TypeOK, DetachFail
<1>3. pending \in SUBSET Callers /\ "UNAVAILABLE" \in Answers /\ "UNAVAILABLE" # "SUCCESS"
  BY DEF IInv, TypeOK, Answers
<1> QED
  BY <1>1, <1>2, <1>3, FuturesStep DEF DetachFail, agent

\* complete: the response answers the call it names, if that is in the map.
LEMMA DeliverStep ==
  ASSUME IInv, NEW s \in Streams, NEW c \in Callers, Deliver(s, c)
  PROVE  IInv'
<1>1. AttachedIsUsed'
  BY DEF IInv, Deliver, AttachedIsUsed
<1>2. c \in executed
  BY DEF IInv, AgentOK, Deliver
<1>3. Answered(c) \in SUBSET Callers /\ Answered(c) \subseteq executed /\ "SUCCESS" \in Answers
  BY <1>2 DEF Answered, Answers
<1>4. /\ stream' \in [Streams -> {"new", "open", "broken", "failing", "clearing", "closed"}]
      /\ responses' \subseteq responses
      /\ pending' \subseteq pending
  BY DEF IInv, TypeOK, Deliver
<1> QED
  BY <1>1, <1>3, <1>4, FuturesStep DEF Deliver

\* The agent drops a request.
LEMMA DropStep ==
  ASSUME IInv, NEW s \in Streams, NEW c \in Callers, Drop(s, c)
  PROVE  IInv'
<1>1. TypeOK' /\ AttachedIsUsed'
  BY DEF IInv, TypeOK, Drop, AttachedIsUsed
<1>2. requests' \subseteq requests
  BY DEF Drop
<1> QED
  BY <1>1, <1>2, CallsRest DEF Drop, IInv, WorkersOK, AgentOK

\* The tool runs.
LEMMA DispatchStep ==
  ASSUME IInv, NEW s \in Streams, NEW c \in Callers, Dispatch(s, c)
  PROVE  IInv'
<1>1. TypeOK' /\ AttachedIsUsed'
  BY DEF IInv, TypeOK, Dispatch, AttachedIsUsed
<1>2. requests' \subseteq requests /\ running' = {<<s, c>>} /\ executed' = executed \cup {c}
  BY DEF Dispatch
<1>3. call[c].inv # "none"
  <2>1. <<s, c>> \in requests /\ <<s, c>>[2] = c
    BY DEF Dispatch
  <2> QED
    BY <2>1 DEF IInv, WorkersOK
<1> QED
  BY <1>1, <1>2, <1>3, CallsRest DEF Dispatch, IInv, WorkersOK, AgentOK

\* The response is sent.
LEMMA SendResponseStep ==
  ASSUME IInv, NEW s \in Streams, NEW c \in Callers, SendResponse(s, c)
  PROVE  IInv'
<1>1. TypeOK' /\ AttachedIsUsed'
  BY DEF IInv, TypeOK, SendResponse, AttachedIsUsed
<1> QED
  BY <1>1, CallsRest DEF SendResponse, IInv, WorkersOK, AgentOK

-----------------------------------------------------------------------------
(* The gateway                                                             *)

\* A call that was never made has no part in what the cache knows.
LEMMA IdleIsUnknown ==
  ASSUME IInv, NEW c \in Callers, call[c].gw = "idle"
  PROVE  /\ c \notin pending \cup executed
         /\ \A m \in requests \cup running \cup responses : m[2] # c
         /\ \A d \in Callers : c \notin call[d].after /\ ~Overlap(d, c)
         /\ ~Served(c)
<1>1. call[c].inv = "none" /\ call[c].tool = "read"
  BY DEF IInv, WorkersOK
<1>2. /\ c \notin pending \cup executed
      /\ \A m \in requests \cup running \cup responses : m[2] # c
  BY <1>1 DEF IInv, WorkersOK
<1>3. \A d \in Callers : c \notin call[d].after
  BY DEF IInv, CacheOK
<1>4. ~Served(c) /\ \A d \in Callers : ~Overlap(d, c)
  BY <1>1 DEF Served, Overlap, SameCall
<1> QED
  BY <1>2, <1>3, <1>4

\* A new call: c was idle; the calls that returned before it are those of its
\* id and tool.  It returns at once with what the cache holds, with DENIED, or
\* it submits a task because the cache holds nothing.
LEMMA Asked ==
  ASSUME IInv, NEW c \in Callers, call[c].gw = "idle", NEW id \in CallIds, NEW tool \in Tools,
         call' \in [Callers -> CallT],
         \A d \in Callers \ {c} : call'[d] = call[d],
         call'[c].id = id, call'[c].tool = tool,
         call'[c].after = {d \in Callers : /\ call[d].gw = "done" /\ call[d].id = id
                                          /\ call[d].tool = tool},
         call'[c].ret = None, call'[c].fut = None,
         \/ /\ call'[c].gw = "done" /\ call'[c].inv = "none"
            /\ \/ tool # "write" /\ call'[c].res # "SUCCESS"
               \/ tool = "write" /\ cache[id] # None /\ call'[c].res = cache[id]
         \/ /\ call'[c].gw = "waiting" /\ call'[c].inv = "start" /\ call'[c].res = None
            /\ tool = "write" => cache[id] = None,
         UNCHANGED <<cache, outbound, pending, stream, agent>>
  PROVE  IInv'
<1> USE DEF agent
<1>0. /\ c \notin pending \cup executed
      /\ \A m \in requests \cup running \cup responses : m[2] # c
      /\ \A d \in Callers : c \notin call[d].after /\ ~Overlap(d, c)
      /\ ~Served(c)
  BY IdleIsUnknown
<1>1. TypeOK'
  BY <1>0 DEF IInv, TypeOK, CallT
<1>2. WorkersOK'
  <2>1. \A d \in Callers :
          /\ call'[d].gw = "idle" => call'[d].inv = "none" /\ call'[d].tool = "read"
          /\ call'[d].gw = "waiting" => call'[d].inv # "none"
          /\ call'[d].gw # "idle" => call'[d].id \in CallIds
    BY DEF IInv, WorkersOK
  <2>2. \A d \in pending \cup executed : call'[d].inv # "none"
    BY <1>0 DEF IInv, WorkersOK, TypeOK
  <2>3. \A m \in requests \cup running \cup responses : call'[m[2]].inv # "none"
    BY <1>0 DEF IInv, WorkersOK, TypeOK
  <2> QED
    BY <2>1, <2>2, <2>3 DEF WorkersOK
<1>3. FuturesOK'
  BY DEF IInv, FuturesOK
<1>4. AgentOK'
  BY <1>0, SessionAssumption DEF IInv, AgentOK, Answers
<1>5. CacheOK'
  <2>1. \A d, e \in Callers \ {c} : Overlap(d, e) => Overlap(d, e)'
    BY DEF Overlap, SameCall
  <2>2. \A d \in Callers \ {c} : Served(d)' <=> Served(d)
    BY DEF Served
  <2>3. \A d \in Callers : \A e \in call'[d].after : call'[e].gw = "done"
    <3>1. ASSUME NEW d \in Callers \ {c}, NEW e \in call[d].after PROVE call'[e].gw = "done"
      BY <1>0, <3>1 DEF IInv, CacheOK, TypeOK
    <3>2. ASSUME NEW e \in call'[c].after PROVE call'[e].gw = "done"
      BY <3>2
    <3> QED
      BY <3>1, <3>2
  <2>4. \A d \in Callers : call'[d].inv # "none" /\ call'[d].tool = "write" => call'[d].after = {}
    <3>1. ASSUME call'[c].inv # "none", tool = "write" PROVE call'[c].after = {}
      <4>1. cache[id] = None
        BY <3>1
      <4>2. \A d \in Callers : call[d].gw = "done" /\ call[d].tool = "write" => call[d].id # id
        BY <4>1 DEF IInv, CacheOK, Served
      <4> QED
        BY <3>1, <4>2
    <3> QED
      BY <3>1 DEF IInv, CacheOK
  <2>5. \A d \in Callers : Served(d)' => cache'[call'[d].id] # None
    <3>1. Served(c)' => cache'[call'[c].id] # None
      BY DEF Served
    <3> QED
      BY <2>2, <3>1 DEF IInv, CacheOK
  <2>6. \A d \in Callers : Served(d)' /\ call'[d].res # cache'[call'[d].id]
                          => \E e \in Callers \ {d} : Overlap(d, e)'
    <3>1. Served(c)' => call'[c].res = cache'[call'[c].id]
      BY DEF Served
    <3>2. ASSUME NEW d \in Callers \ {c}, Served(d)', call'[d].res # cache'[call'[d].id]
          PROVE  \E e \in Callers \ {d} : Overlap(d, e)'
      <4>1. PICK e \in Callers \ {d} : Overlap(d, e)
        BY <2>2, <3>2 DEF IInv, CacheOK
      <4>2. e # c
        BY <1>0, <4>1
      <4> QED
        BY <2>1, <4>1, <4>2
    <3> QED
      BY <3>1, <3>2
  <2>7. \A d \in Callers : Served(d)' /\ call'[d].inv = "none" => call'[d].res = cache'[call'[d].id]
    <3>1. Served(c)' => call'[c].res = cache'[call'[c].id]
      BY DEF Served
    <3> QED
      BY <2>2, <3>1 DEF IInv, CacheOK
  <2>8. \A i \in CallIds : cache'[i] # None =>
          \E e \in Callers : Served(e)' /\ call'[e].id = i /\ call'[e].inv # "none"
    <3> SUFFICES ASSUME NEW i \in CallIds, cache'[i] # None
                 PROVE  \E e \in Callers : Served(e)' /\ call'[e].id = i /\ call'[e].inv # "none"
      OBVIOUS
    <3>1. PICK e \in Callers : Served(e) /\ call[e].id = i /\ call[e].inv # "none"
      BY DEF IInv, CacheOK
    <3>2. e # c
      BY <1>0, <3>1
    <3> QED
      BY <2>2, <3>1, <3>2
  <2>9. \A i \in CallIds : cache'[i] = "SUCCESS" => \E d \in executed' : call'[d].id = i
    BY <1>0 DEF IInv, CacheOK, TypeOK
  <2> QED
    BY <2>3, <2>4, <2>5, <2>6, <2>7, <2>8, <2>9 DEF CacheOK
<1>6. SuccessWasExecuted'
  <2>1. \A d \in executed : call'[d] = call[d]
    BY <1>0 DEF IInv, TypeOK
  <2>2. ASSUME call'[c].res = "SUCCESS"
        PROVE  call'[c].tool = "write" /\ \E d \in executed' : call'[d].id = call'[c].id
    <3>1. tool = "write" /\ cache[id] = "SUCCESS"
      BY <2>2, SessionAssumption DEF Answers
    <3> QED
      BY <2>1, <3>1 DEF IInv, CacheOK
  <2>3. ASSUME NEW x \in Callers \ {c}, call'[x].res = "SUCCESS"
        PROVE  \/ x \in executed'
               \/ call'[x].tool = "write" /\ \E d \in executed' : call'[d].id = call'[x].id
    BY <2>1, <2>3 DEF IInv, SuccessWasExecuted
  <2> QED
    BY <2>2, <2>3 DEF SuccessWasExecuted
<1>7. AttachedIsUsed'
  BY DEF IInv, AttachedIsUsed
<1> QED
  BY <1>1, <1>2, <1>3, <1>4, <1>5, <1>6, <1>7 DEF IInv

\* DefaultToolGateway.call up to the point where it waits.
LEMMA CallStep ==
  ASSUME IInv, NEW c \in Callers, NEW id \in CallIds, NEW tool \in Tools, Call(c, id, tool)
  PROVE  IInv'
<1> DEFINE before == {d \in Callers : call[d].gw = "done" /\ call[d].id = id /\ call[d].tool = tool}
           asked  == [NoCall EXCEPT !.id = id, !.tool = tool, !.after = before]
<1>1. call \in [Callers -> CallT]
  BY DEF IInv, TypeOK, CallT
<1>2. call[c].gw = "idle" /\ before \in SUBSET Callers
      /\ UNCHANGED <<cache, outbound, pending, stream, agent>>
  BY DEF Call
<1>3. CASE tool = "agent_apply" /\ call' = [call EXCEPT ![c] = [asked EXCEPT !.gw = "done", !.res = "DENIED"]]
  <2> HIDE DEF before
  <2>1. [asked EXCEPT !.gw = "done", !.res = "DENIED"]
          = [after |-> before, id |-> id, tool |-> tool, gw |-> "done", res |-> "DENIED",
             inv |-> "none", ret |-> None, fut |-> None, intr |-> FALSE]
    <3>1. ASSUME NEW q, q = [asked EXCEPT !.gw = "done", !.res = "DENIED"]
          PROVE  q = [after |-> before, id |-> id, tool |-> tool, gw |-> "done", res |-> "DENIED",
                      inv |-> "none", ret |-> None, fut |-> None, intr |-> FALSE]
      BY <3>1 DEF NoCall
    <3> QED
      BY <3>1
  <2> HIDE DEF asked
  <2>2. [asked EXCEPT !.gw = "done", !.res = "DENIED"] \in CallT
    BY <1>2, <2>1 DEF CallT, Answers
  <2>3. /\ call' \in [Callers -> CallT]
        /\ \A d \in Callers \ {c} : call'[d] = call[d]
        /\ call'[c].id = id /\ call'[c].tool = tool /\ call'[c].after = before
        /\ call'[c].ret = None /\ call'[c].fut = None
        /\ call'[c].gw = "done" /\ call'[c].inv = "none" /\ call'[c].res = "DENIED"
    BY <1>1, <1>3, <2>1, <2>2
  <2> QED
    BY <1>2, <1>3, <2>3, Asked DEF before
<1>4. CASE /\ tool = "write" /\ cache[id] # None
           /\ call' = [call EXCEPT ![c] = [asked EXCEPT !.gw = "done", !.res = cache[id]]]
  <2> HIDE DEF before
  <2>1. [asked EXCEPT !.gw = "done", !.res = cache[id]]
          = [after |-> before, id |-> id, tool |-> tool, gw |-> "done", res |-> cache[id],
             inv |-> "none", ret |-> None, fut |-> None, intr |-> FALSE]
    <3>1. ASSUME NEW q, q = [asked EXCEPT !.gw = "done", !.res = cache[id]]
          PROVE  q = [after |-> before, id |-> id, tool |-> tool, gw |-> "done", res |-> cache[id],
                      inv |-> "none", ret |-> None, fut |-> None, intr |-> FALSE]
      BY <3>1 DEF NoCall
    <3> QED
      BY <3>1
  <2> HIDE DEF asked
  <2>2. cache[id] \in Answers \cup {None}
    BY DEF IInv, TypeOK
  <2>3. [asked EXCEPT !.gw = "done", !.res = cache[id]] \in CallT
    BY <1>2, <2>1, <2>2 DEF CallT
  <2>4. /\ call' \in [Callers -> CallT]
        /\ \A d \in Callers \ {c} : call'[d] = call[d]
        /\ call'[c].id = id /\ call'[c].tool = tool /\ call'[c].after = before
        /\ call'[c].ret = None /\ call'[c].fut = None
        /\ call'[c].gw = "done" /\ call'[c].inv = "none" /\ call'[c].res = cache[id]
    BY <1>1, <1>4, <2>1, <2>3
  <2> QED
    BY <1>2, <1>4, <2>4, Asked DEF before
<1>5. CASE /\ tool = "write" => cache[id] = None
           /\ call' = [call EXCEPT ![c] = [asked EXCEPT !.gw = "waiting", !.inv = "start"]]
  <2> HIDE DEF before
  <2>1. [asked EXCEPT !.gw = "waiting", !.inv = "start"]
          = [after |-> before, id |-> id, tool |-> tool, gw |-> "waiting", res |-> None,
             inv |-> "start", ret |-> None, fut |-> None, intr |-> FALSE]
    <3>1. ASSUME NEW q, q = [asked EXCEPT !.gw = "waiting", !.inv = "start"]
          PROVE  q = [after |-> before, id |-> id, tool |-> tool, gw |-> "waiting", res |-> None,
                      inv |-> "start", ret |-> None, fut |-> None, intr |-> FALSE]
      BY <3>1 DEF NoCall
    <3> QED
      BY <3>1
  <2> HIDE DEF asked
  <2>2. [asked EXCEPT !.gw = "waiting", !.inv = "start"] \in CallT
    BY <1>2, <2>1 DEF CallT
  <2>3. /\ call' \in [Callers -> CallT]
        /\ \A d \in Callers \ {c} : call'[d] = call[d]
        /\ call'[c].id = id /\ call'[c].tool = tool /\ call'[c].after = before
        /\ call'[c].ret = None /\ call'[c].fut = None
        /\ call'[c].gw = "waiting" /\ call'[c].inv = "start" /\ call'[c].res = None
    BY <1>1, <1>5, <2>1, <2>2
  <2> QED
    BY <1>2, <1>5, <2>3, Asked DEF before
<1> QED
  BY <1>3, <1>4, <1>5 DEF Call

\* The caller gets its answer: it is remembered, unless an overlapping call's
\* answer is remembered already.
LEMMA Answering ==
  ASSUME IInv, NEW c \in Callers, call[c].gw = "waiting", NEW answer \in Answers,
         call' \in [Callers -> CallT],
         \A d \in Callers \ {c} : call'[d] = call[d],
         call'[c].after = call[c].after, call'[c].id = call[c].id, call'[c].tool = call[c].tool,
         call'[c].gw = "done", call'[c].res = answer,
         call'[c].inv = call[c].inv \/ call'[c].inv = "returned",
         call'[c].ret = call[c].ret, call'[c].fut = call[c].fut,
         answer = "SUCCESS" => c \in executed,
         cache' = Remember(c, answer),
         UNCHANGED <<outbound, pending, stream, agent>>
  PROVE  IInv'
<1> USE DEF agent
<1> DEFINE id == call[c].id
<1>0. call[c].inv # "none" /\ call'[c].inv # "none" /\ id \in CallIds /\ answer # None
  BY SessionAssumption DEF IInv, WorkersOK
<1>1. /\ cache' \in [CallIds -> Answers \cup {None}]
      /\ \A i \in CallIds : cache[i] # None => cache'[i] = cache[i]
      /\ \A i \in CallIds : cache'[i] = cache[i] \/ (i = id /\ call[c].tool = "write" /\ cache'[i] = answer)
      /\ call[c].tool = "write" => cache'[id] # None
      /\ call[c].tool = "write" /\ cache[id] = None => cache'[id] = answer
  BY <1>0 DEF IInv, TypeOK, Remember
<1>2. \A d \in Callers : /\ call'[d].after = call[d].after /\ call'[d].id = call[d].id
                         /\ call'[d].tool = call[d].tool
                         /\ call'[d].inv = "none" <=> call[d].inv = "none"
                         /\ call[d].gw = "done" => call'[d].gw = "done" /\ call'[d].res = call[d].res
  BY <1>0
<1>3. TypeOK'
  BY <1>1 DEF IInv, TypeOK, CallT
<1>4. WorkersOK'
  <2>1. \A d \in Callers :
          /\ call'[d].gw = "idle" => call'[d].inv = "none" /\ call'[d].tool = "read"
          /\ call'[d].gw = "waiting" => call'[d].inv # "none"
          /\ call'[d].gw # "idle" => call'[d].id \in CallIds
    BY <1>0 DEF IInv, WorkersOK
  <2> QED
    BY <1>2, <2>1 DEF IInv, WorkersOK, TypeOK
<1>5. FuturesOK'
  BY DEF IInv, FuturesOK
<1>6. AgentOK'
  BY DEF IInv, AgentOK
<1>7. CacheOK'
  <2>1. \A d, e \in Callers : Overlap(d, e) => Overlap(d, e)'
    BY <1>2 DEF Overlap, SameCall
  <2>2. /\ \A d \in Callers : Served(d) => Served(d)'
        /\ \A d \in Callers \ {c} : Served(d)' => Served(d)
        /\ Served(c)' <=> call[c].tool = "write"
    BY <1>2 DEF Served
  <2>3. \A d \in Callers : \A e \in call'[d].after : call'[e].gw = "done"
    BY <1>2 DEF IInv, CacheOK, TypeOK
  <2>4. \A d \in Callers : call'[d].inv # "none" /\ call'[d].tool = "write" => call'[d].after = {}
    BY <1>2 DEF IInv, CacheOK
  <2>5. \A d \in Callers : Served(d) => call[d].id \in CallIds
    BY DEF IInv, WorkersOK, Served
  <2>6. \A d \in Callers : Served(d)' => cache'[call'[d].id] # None
    BY <1>1, <1>2, <2>2, <2>5 DEF IInv, CacheOK
  <2>7. \A d \in Callers : Served(d)' /\ call'[d].res # cache'[call'[d].id]
                          => \E e \in Callers \ {d} : Overlap(d, e)'
    <3>1. ASSUME NEW d \in Callers \ {c}, Served(d)', call'[d].res # cache'[call'[d].id]
          PROVE  \E e \in Callers \ {d} : Overlap(d, e)'
      <4>1. Served(d) /\ call[d].res # cache[call[d].id]
        BY <1>1, <2>2, <2>5, <3>1 DEF IInv, CacheOK
      <4> QED
        BY <2>1, <4>1 DEF IInv, CacheOK
    <3>2. ASSUME Served(c)', call'[c].res # cache'[call'[c].id]
          PROVE  \E e \in Callers \ {c} : Overlap(c, e)'
      <4>1. call[c].tool = "write" /\ cache[id] # None
        BY <1>1, <2>2, <3>2
      <4>2. PICK e \in Callers : Served(e) /\ call[e].id = id /\ call[e].inv # "none"
        BY <1>0, <4>1 DEF IInv, CacheOK
      <4>3. e # c
        BY <4>2 DEF Served
      <4>4. call[c].after = {} /\ call[e].after = {}
        BY <1>0, <4>1, <4>2 DEF IInv, CacheOK, Served
      <4>5. Overlap(c, e)
        BY <4>1, <4>2, <4>4 DEF Overlap, SameCall, Served
      <4> QED
        BY <2>1, <4>3, <4>5
    <3> QED
      BY <3>1, <3>2
  <2>8. \A d \in Callers : Served(d)' /\ call'[d].inv = "none" => call'[d].res = cache'[call'[d].id]
    BY <1>0, <1>1, <1>2, <2>2, <2>5 DEF IInv, CacheOK
  <2>9. \A i \in CallIds : cache'[i] # None =>
          \E e \in Callers : Served(e)' /\ call'[e].id = i /\ call'[e].inv # "none"
    <3> SUFFICES ASSUME NEW i \in CallIds, cache'[i] # None
                 PROVE  \E e \in Callers : Served(e)' /\ call'[e].id = i /\ call'[e].inv # "none"
      OBVIOUS
    <3>1. CASE cache'[i] = cache[i]
      <4>1. PICK e \in Callers : Served(e) /\ call[e].id = i /\ call[e].inv # "none"
        BY <3>1 DEF IInv, CacheOK
      <4> QED
        BY <1>2, <2>2, <4>1
    <3>2. CASE i = id /\ call[c].tool = "write"
      BY <1>0, <1>2, <2>2, <3>2
    <3> QED
      BY <1>1, <3>1, <3>2
  <2>10. \A i \in CallIds : cache'[i] = "SUCCESS" => \E d \in executed' : call'[d].id = i
    <3> SUFFICES ASSUME NEW i \in CallIds, cache'[i] = "SUCCESS"
                 PROVE  \E d \in executed : call[d].id = i
      BY <1>2 DEF IInv, TypeOK
    <3>1. CASE cache'[i] = cache[i]
      BY <3>1 DEF IInv, CacheOK
    <3>2. CASE i = id /\ cache'[i] = answer
      BY <3>2
    <3> QED
      BY <1>1, <3>1, <3>2
  <2> QED
    BY <2>3, <2>4, <2>6, <2>7, <2>8, <2>9, <2>10 DEF CacheOK
<1>8. SuccessWasExecuted'
  BY <1>2 DEF IInv, SuccessWasExecuted, TypeOK
<1>9. AttachedIsUsed'
  BY DEF IInv, AttachedIsUsed
<1> QED
  BY <1>3, <1>4, <1>5, <1>6, <1>7, <1>8, <1>9 DEF IInv

\* DefaultToolGateway.call returns the answer of the channel.
LEMMA ReturnStep == ASSUME IInv, NEW c \in Callers, Return(c) PROVE IInv'
<1>1. call \in [Callers -> CallT]
  BY DEF IInv, TypeOK, CallT
<1>2. /\ call[c].gw = "waiting" /\ call[c].inv = "returned"
      /\ call' = [call EXCEPT ![c].gw = "done", ![c].res = call[c].ret]
      /\ cache' = Remember(c, call[c].ret)
      /\ UNCHANGED <<outbound, pending, stream, agent>>
  BY DEF Return
<1>3. call[c].ret \in Answers
  BY <1>1, <1>2 DEF IInv, FuturesOK, CallT
<1>4. call[c].ret = "SUCCESS" => c \in executed
  BY DEF IInv, AgentOK
<1> DEFINE done == [call[c] EXCEPT !.gw = "done"]
<1>5. done \in CallT
  BY <1>1 DEF CallT
<1>6. [done EXCEPT !.res = call[c].ret] \in CallT
  <2> HIDE DEF done
  <2> QED
    BY <1>3, <1>5 DEF CallT
<1>7. call' = [call EXCEPT ![c] = [done EXCEPT !.res = call[c].ret]]
  BY <1>1, <1>2
<1>8. call' \in [Callers -> CallT] /\ \A d \in Callers \ {c} : call'[d] = call[d]
  BY <1>1, <1>6, <1>7
<1>9. /\ call'[c].after = call[c].after /\ call'[c].id = call[c].id /\ call'[c].tool = call[c].tool
      /\ call'[c].gw = "done" /\ call'[c].res = call[c].ret /\ call'[c].inv = call[c].inv
      /\ call'[c].ret = call[c].ret /\ call'[c].fut = call[c].fut
  BY <1>1, <1>2 DEF CallT
<1> QED
  BY <1>2, <1>3, <1>4, <1>8, <1>9, Answering

\* DefaultToolGateway.call gives up and cancels the task.
LEMMA TimeoutStep == ASSUME IInv, NEW c \in Callers, Timeout(c) PROVE IInv'
<1>1. call[c] \in CallT /\ call \in [Callers -> CallT]
  BY DEF IInv, TypeOK, CallT
<1> DEFINE done == [call[c] EXCEPT !.gw = "done"]
           late == [call[c] EXCEPT !.gw = "done", !.res = "TIMEOUT"]
<1>2. PICK after \in Cancelled(c) : call' = [call EXCEPT ![c] = after]
  BY DEF Timeout
<1>3. late \in CallT
  <2>1. done \in CallT
    BY <1>1 DEF CallT
  <2>2. [done EXCEPT !.res = "TIMEOUT"] \in CallT
    <3> HIDE DEF done
    <3> QED
      BY <2>1 DEF CallT, Answers
  <2>3. late = [done EXCEPT !.res = "TIMEOUT"]
    BY <1>1
  <2> QED
    BY <2>2, <2>3
<1>4. /\ late.after = call[c].after /\ late.id = call[c].id /\ late.tool = call[c].tool
      /\ late.gw = "done" /\ late.res = "TIMEOUT" /\ late.inv = call[c].inv
      /\ late.ret = call[c].ret /\ late.fut = call[c].fut
  BY <1>1 DEF CallT
<1>5. \/ after = [late EXCEPT !.intr = TRUE]
      \/ after = [late EXCEPT !.inv = "returned"]
  BY <1>2 DEF Cancelled
<1> HIDE DEF late
<1>6. after \in CallT
  BY <1>3, <1>5 DEF CallT
<1>7. /\ after.after = call[c].after /\ after.id = call[c].id /\ after.tool = call[c].tool
      /\ after.gw = "done" /\ after.res = "TIMEOUT"
      /\ after.inv = call[c].inv \/ after.inv = "returned"
      /\ after.ret = call[c].ret /\ after.fut = call[c].fut
  <2>1. CASE after = [late EXCEPT !.intr = TRUE]
    BY <1>3, <1>4, <2>1 DEF CallT
  <2>2. CASE after = [late EXCEPT !.inv = "returned"]
    BY <1>3, <1>4, <2>2 DEF CallT
  <2> QED
    BY <1>5, <2>1, <2>2
<1>8. call' \in [Callers -> CallT] /\ call'[c] = after /\ \A d \in Callers \ {c} : call'[d] = call[d]
  BY <1>1, <1>2, <1>6
<1>9. "TIMEOUT" \in Answers /\ "TIMEOUT" # "SUCCESS"
  BY DEF Answers
<1> QED
  BY <1>7, <1>8, <1>9, Answering DEF Timeout

-----------------------------------------------------------------------------
\* Every step of the server's threads, the network and the agent keeps the
\* invariant.
LEMMA NextInv == IInv /\ [Next]_vars => IInv'
<1> SUFFICES ASSUME IInv, [Next]_vars PROVE IInv'
  OBVIOUS
<1>1. ASSUME NEW c \in Callers, NEW id \in CallIds, NEW tool \in Tools, Call(c, id, tool)
      PROVE  IInv'
  BY <1>1, CallStep
<1>2. ASSUME NEW c \in Callers, Return(c) \/ Timeout(c) PROVE IInv'
  BY <1>2, ReturnStep, TimeoutStep
<1>3. ASSUME NEW c \in Callers, Invoke(c) PROVE IInv'
  BY <1>3, RouteStep, CheckOpenStep, PutStep, SendRequestStep, AwaitStep, InterruptedStep DEF Invoke
<1>4. ASSUME NEW s \in Streams, Connection(s) PROVE IInv'
  BY <1>4, OpenStep, BreakStep, DetachStreamStep, DetachFailStep, DetachClearStep, DeliverStep,
     DropStep, DispatchStep, SendResponseStep DEF Connection
<1>5. CASE UNCHANGED vars
  <2>1. /\ UNCHANGED <<call, cache, pending, outbound, stream>>
        /\ UNCHANGED <<requests, running, responses, executed>>
    BY <1>5 DEF vars, agent
  <2>2. TypeOK' /\ AttachedIsUsed'
    BY <2>1 DEF IInv, TypeOK, AttachedIsUsed
  <2> QED
    BY <2>1, <2>2, CallsRest DEF IInv, WorkersOK, AgentOK
<1> QED
  BY <1>1, <1>2, <1>3, <1>4, <1>5 DEF Next

\* The inductive invariant holds in every state the server and its agents reach.
THEOREM SessionInvariance == Spec => []IInv
BY InitInv, NextInv, PTL DEF Spec

\* Calls, futures, map and connections keep their shapes, and an entry of the
\* map always has a future to complete.
THEOREM SessionTypeCorrect == Spec => []TypeOK
<1>1. IInv => TypeOK
  BY DEF IInv
<1> QED
  BY <1>1, SessionInvariance, PTL

\* An answer SUCCESS of DefaultToolGateway.call was preceded by the run of this
\* call's tool at the agent, or of the tool of an earlier call with its id.
THEOREM SuccessIsReal == Spec => []SuccessWasExecuted
<1>1. IInv => SuccessWasExecuted
  BY DEF IInv
<1> QED
  BY <1>1, SessionInvariance, PTL

\* A tool with side effects is not run again for a retry made after the first
\* call returned, with whatever answer.
THEOREM SideEffectsRunOnce == Spec => []ExecutedOnce
<1>1. IInv => ExecutedOnce
  BY DEF IInv, TypeOK, WorkersOK, CacheOK, ExecutedOnce, SameCall
<1> QED
  BY <1>1, SessionInvariance, PTL

\* A retry of a call with side effects is told what the first call was told,
\* unless a third call of that id overlapped the first.
THEOREM RetriesAgree == Spec => []RetryGetsSameAnswer
<1>1. IInv => RetryGetsSameAnswer
  <2> SUFFICES ASSUME IInv, NEW c \in Callers, NEW d \in Callers,
                      call[d].gw = "done", c \in call[d].after, SameCall(c, d),
                      \A e \in Callers \ {c} :
                        SameCall(c, e) => c \in call[e].after \/ e \in call[c].after
               PROVE  call[c].res = call[d].res
    BY DEF RetryGetsSameAnswer
  <2>1. Served(c) /\ Served(d) /\ call[c].id = call[d].id
    BY DEF IInv, CacheOK, SameCall, Served
  <2>2. call[d].res = cache[call[d].id]
    BY <2>1 DEF IInv, CacheOK, Served
  <2>3. call[c].res = cache[call[c].id]
    BY <2>1 DEF IInv, CacheOK, Overlap
  <2> QED
    BY <2>1, <2>2, <2>3
<1> QED
  BY <1>1, SessionInvariance, PTL

\* While an agent is connected its stream is the one attach left in place,
\* unless the detach of an earlier stream came late.
THEOREM NewestStreamServes == Spec => []AttachedIsUsed
<1>1. IInv => AttachedIsUsed
  BY DEF IInv
<1> QED
  BY <1>1, SessionInvariance, PTL

=============================================================================
