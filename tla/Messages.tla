------------------------------ MODULE Messages ------------------------------
(***************************************************************************)
(* The messages between agent and server: their validation, the trip       *)
(* through protobuf, the response to a request, and the two guards a chat  *)
(* passes.                                                                 *)
(*                                                                         *)
(* Of an id only its validity is kept, of a text whether it is empty, of   *)
(* JSON whether it parses.  Integers of the wire have IntBits bits.        *)
(***************************************************************************)
EXTENDS Integers, Sequences, FiniteSets

CONSTANTS
  IntBits, KnownCodes,
  Json, Nesting     \* the values a chat may be made of, and how deep each is

Types    == {"REQUEST", "RESPONSE", "EVENT", "CANCEL", "ACK"}
Statuses == {"SUCCESS", "FAILED", "PARTIAL", "ACCEPTED", "RUNNING", "CANCELLED", "REJECTED", "TIMEOUT"}
Actors   == {"USER", "AGENT", "ORCHESTRATOR", "LOCAL_AGENT", "IDE", "SYSTEM"}

\* What Parse makes of an id, given the kind it should have.
IdForms == {"", "valid", "otherKind", "malformed"}

Absent  == [present |-> FALSE]
Some(x) == [present |-> TRUE, value |-> x]

\* A payload that is no JSON or not of the type of its message, and one that is
\* not there.
Bad       == [bad |-> TRUE]
NoPayload == [none |-> TRUE]

Known(code) == code \in KnownCodes

\* The prover knows nothing of powers: that they double is all it needs.
ASSUME MessagesAssumption ==
  /\ IntBits \in Nat \ {0}
  /\ 2^(IntBits - 1) \in Nat \ {0} /\ 2^IntBits = 2 * 2^(IntBits - 1)
  /\ {"INVALID_REQUEST", "INTERNAL_ERROR", "TOOL_NOT_SUPPORTED"} \subseteq KnownCodes
  /\ "" \notin KnownCodes

Current == [name |-> "oncode-tool", major |-> 1, minor |-> 0]

\* ParseCompatible: any minor version.
Compatible(v) == v.name = Current.name /\ v.major = Current.major /\ v.minor >= 0

\* The shapes of messages: their fields, and what each may be if that matters.
IsRequest(p) ==
  /\ p = [call |-> p.call, tool |-> p.tool, args |-> p.args, options |-> p.options]
  /\ p.call \in IdForms
  /\ p.options = Absent \/ (p.options = Some(p.options.value) /\ p.options.value \in Int)

IsResponse(p) ==
  /\ p = [call |-> p.call, status |-> p.status, result |-> p.result, metrics |-> p.metrics,
          error |-> p.error]
  /\ p.call \in IdForms

IsActor(a) == a = Absent \/ a = Some([type |-> a.value.type, id |-> a.value.id])

IsEnvelope(e) ==
  /\ e = [protocol |-> e.protocol, type |-> e.type, id |-> e.id, timestamp |-> e.timestamp,
          ids |-> e.ids, actor |-> e.actor, payload |-> e.payload]
  /\ IsActor(e.actor)
  /\ e.type = "REQUEST"  => e.payload = Bad \/ IsRequest(e.payload)
  /\ e.type = "RESPONSE" => e.payload = Bad \/ IsResponse(e.payload)

-----------------------------------------------------------------------------
(* messages.go: Validate                                                   *)

EnvelopeValid(e) ==
  /\ Compatible(e.protocol) /\ e.type \in Types
  /\ e.id = "valid" /\ e.timestamp # ""
  /\ \A f \in DOMAIN e.ids : e.ids[f] \in {"", "valid"}

RequestValid(p) == p.call = "valid" /\ p.tool # ""

ResponseValid(p) ==
  /\ p.call = "valid" /\ p.status \in Statuses
  /\ p.status = "FAILED" => p.error.present /\ Known(p.error.value.code)

PayloadValid(e) ==
  /\ e.type = "REQUEST"  => RequestValid(e.payload)
  /\ e.type = "RESPONSE" => ResponseValid(e.payload)

-----------------------------------------------------------------------------
(* adapt.go: an enum of the wire has a value 0 for what it does not know.  *)

ToEnum(names, v)   == IF v \in names THEN v ELSE "UNSPECIFIED"
FromEnum(names, v) == IF v \in names THEN v ELSE ""

Int32(n) ==
  LET m == n % 2^IntBits IN IF m >= 2^(IntBits - 1) THEN m - 2^IntBits ELSE m

toProtoActor(a)   == IF a.present THEN [a EXCEPT !.value.type = ToEnum(Actors, @)] ELSE Absent
fromProtoActor(a) == IF a.present THEN [a EXCEPT !.value.type = FromEnum(Actors, @)] ELSE Absent

\* MUTANT: an error travels only with the status FAILED.
MuttoProtoToolResponse(p) ==
  [p EXCEPT !.status = ToEnum(Statuses, @), !.error = IF p.status = "FAILED" THEN @ ELSE Absent]

toProtoToolResponse(p) == [p EXCEPT !.status = ToEnum(Statuses, @)]

fromProtoToolResponse(p) == [p EXCEPT !.status = FromEnum(Statuses, @)]

ToProtoPayload(e) ==
  CASE e.type = "REQUEST" ->
         [call |-> e.payload.call, tool |-> e.payload.tool, args |-> e.payload.args,
          timeout |-> IF e.payload.options.present THEN Int32(e.payload.options.value) ELSE 0]
    [] e.type = "RESPONSE" -> toProtoToolResponse(e.payload)
    [] e.type = "EVENT" -> e.payload
    [] OTHER -> NoPayload

\* The fields that are carried as they are, and the other three.
Carried(e, type, actor, payload) ==
  [protocol |-> e.protocol, type |-> type, id |-> e.id, timestamp |-> e.timestamp,
   ids |-> e.ids, actor |-> actor, payload |-> payload]

ToProto(e) ==
  IF e.type \in {"REQUEST", "RESPONSE", "EVENT"} /\ e.payload = Bad THEN Absent
  ELSE Some(Carried(e, ToEnum(Types, e.type), toProtoActor(e.actor), ToProtoPayload(e)))

\* A timeout that is not positive is no option.
FromProtoPayload(in) ==
  CASE in.type = "REQUEST" ->
         [call |-> in.payload.call, tool |-> in.payload.tool, args |-> in.payload.args,
          options |-> IF in.payload.timeout > 0 THEN Some(in.payload.timeout) ELSE Absent]
    [] in.type = "RESPONSE" -> fromProtoToolResponse(in.payload)
    [] in.type = "EVENT" -> in.payload
    [] OTHER -> NoPayload

FromProto(in) ==
  Carried(in, FromEnum(Types, in.type), fromProtoActor(in.actor), FromProtoPayload(in))

-----------------------------------------------------------------------------
(* HandleEnvelope and Dispatch.  h is what the handler of the tool does: a *)
(* response, an error of the protocol or another one, nothing, or no such  *)
(* handler.                                                                *)

NewError(code) == [code |-> code, retryable |-> code \in {"TIMEOUT", "PROCESS_TIMEOUT"}]

\* protoerr.New, which makes an unknown code an INTERNAL_ERROR in fail and failed.
Failed(call, code) ==
  [call |-> call, status |-> "FAILED", result |-> "", metrics |-> Absent,
   error |-> Some(NewError(IF Known(code) THEN code ELSE "INTERNAL_ERROR"))]

\* The responses of the tools: Success, fail, build.run and test.run once their
\* process has ended, and read_files, which has no error when a file was read.
Reported ==
  {[status |-> s, code |-> ""] : s \in {"SUCCESS", "PARTIAL"}}
  \cup {[status |-> "TIMEOUT", code |-> "PROCESS_TIMEOUT"],
         [status |-> "CANCELLED", code |-> "PROCESS_CANCELLED"]}
  \cup [status : {"FAILED"}, code : KnownCodes]

IsHandling(h) ==
  /\ h.kind \in {"response", "protoerr", "error", "nil", "unsupported"}
  /\ h.kind = "response" => [status |-> h.status, code |-> h.code] \in Reported
  /\ h.kind = "protoerr" => h.code \in KnownCodes

\* MUTANT: a timeout is reported without an error.
MutHandlerResponse(call, h) ==
  [call |-> call, status |-> h.status, result |-> h.result, metrics |-> h.metrics,
   error |-> IF h.code \in {"", "PROCESS_TIMEOUT"} THEN Absent ELSE Some(NewError(h.code))]

HandlerResponse(call, h) ==
  [call |-> call, status |-> h.status, result |-> h.result, metrics |-> h.metrics,
   error |-> IF h.code = "" THEN Absent ELSE Some(NewError(h.code))]

\* MUTANT: the response to an error names no call.
MutmapError(call, h) ==
  IF h.kind = "protoerr" THEN [Failed("", "INTERNAL_ERROR") EXCEPT !.error = Some(NewError(h.code))]
  ELSE Failed("", "INTERNAL_ERROR")

\* An error of the protocol is passed on as it is.
mapError(call, h) ==
  IF h.kind = "protoerr" THEN [Failed(call, "INTERNAL_ERROR") EXCEPT !.error = Some(NewError(h.code))]
  ELSE Failed(call, "INTERNAL_ERROR")

Timed(resp) == IF resp.metrics = Absent THEN [resp EXCEPT !.metrics = Some(0)] ELSE resp

Dispatch(req, h) ==
  IF ~RequestValid(req) THEN Failed(req.call, "INVALID_REQUEST")
  ELSE CASE h.kind = "unsupported" -> Failed(req.call, "TOOL_NOT_SUPPORTED")
         [] h.kind = "nil" -> Timed(Failed(req.call, "INTERNAL_ERROR"))
         [] h.kind \in {"protoerr", "error"} -> Timed(mapError(req.call, h))
         [] h.kind = "response" -> Timed(HandlerResponse(req.call, h))

Blanks(fields) == [f \in fields |-> ""]

NewEnvelope(type, payload, scope) ==
  [protocol |-> Current, type |-> type, id |-> "valid", timestamp |-> "now",
   ids |-> scope, actor |-> Absent, payload |-> payload]

\* errorEnvelope has neither ids nor an actor.
HandleEnvelope(env, h) ==
  IF ~EnvelopeValid(env) \/ env.type # "REQUEST" \/ env.payload = Bad
    THEN NewEnvelope("RESPONSE", Failed("", "INVALID_REQUEST"), Blanks(DOMAIN env.ids))
    ELSE [NewEnvelope("RESPONSE", Dispatch(env.payload, h), env.ids)
            EXCEPT !.actor = Some([type |-> "LOCAL_AGENT", id |-> "agent"])]

\* GrpcToolSession.fromProto: to the caller at the server a response without an
\* error is a success, whatever its status.
ServerReads(p) ==
  IF ~p.error.present THEN [status |-> "SUCCESS", code |-> ""]
  ELSE [status |-> IF p.status = "UNSPECIFIED" THEN "FAILED" ELSE p.status,
        code   |-> p.error.value.code]

-----------------------------------------------------------------------------
(* A chat is JSON: a leaf, a list of children, or an object with children  *)
(* by key.  Keys stand for themselves in lower case.  Of a text is kept    *)
(* which functions take it for empty (TrimSpace, trim, isBlank), whether   *)
(* it has a newline ("none", "end" for one that trim removes, "inside"),   *)
(* and whether it is the id of a work item.                                *)

IsTree(v) == v.kind \in {"object", "list"}

ASSUME JsonAssumption ==
  /\ Nesting \in [Json -> Nat]
  /\ \A v \in Json : IsTree(v) =>
       \A k \in DOMAIN v.at : v.at[k] \in Json /\ Nesting[v.at[k]] < Nesting[v]

EmptyTo(reader, v) == v.kind = "text" /\ reader \in v.empty

ForbiddenKeys == {"content", "source", "selected_text", "selection_text", "file_content", "source_text"}

rejectForbidden[v \in Json] ==
  CASE v.kind = "object" ->
         \E k \in DOMAIN v.at : k \in ForbiddenKeys \/ rejectForbidden[v.at[k]]
    [] v.kind = "list" -> \E i \in DOMAIN v.at : rejectForbidden[v.at[i]]
    [] OTHER -> FALSE

Field(v, k) == IF v.kind = "object" /\ k \in DOMAIN v.at THEN v.at[k] ELSE [kind |-> "missing"]

\* MUTANT: the fields of the chat are looked at, not what is inside them.
MutValidateSubmit(data) ==
  /\ Field(data, "message").kind = "text" /\ ~EmptyTo("TrimSpace", Field(data, "message"))
  /\ DOMAIN data.at \cap ForbiddenKeys = {}

ValidateSubmit(data) ==
  LET message == Field(data, "message")
      file    == Field(Field(data, "ide_context"), "current_file")
  IN  /\ message.kind = "text" /\ ~EmptyTo("TrimSpace", message)
      /\ ~rejectForbidden[data]
      /\ ~(file.kind = "text" /\ file.newline # "none")

\* IdeContextGuard.rejectSourceBody, the server's own walk.
rejectSourceBody[node \in Json] ==
  \/ /\ node.kind = "object"
     /\ \/ DOMAIN node.at \cap ForbiddenKeys # {}
        \/ \E k \in DOMAIN node.at : rejectSourceBody[node.at[k]]
  \/ node.kind = "list" /\ \E i \in DOMAIN node.at : rejectSourceBody[node.at[i]]

\* String.valueOf turns whatever a value is into a text, and puts what is in it
\* between brackets.
hasLines[v \in Json] ==
  \/ v.kind = "text" /\ v.newline # "none"
  \/ IsTree(v) /\ \E k \in DOMAIN v.at : hasLines[v.at[k]]

Given(reader, v) == v.kind \notin {"missing", "null"} /\ ~EmptyTo(reader, v)

currentFile(data) ==
  LET file == Field(Field(data, "ide_context"), "current_file")
  IN  /\ Given("trim", file)
      /\ ~IF file.kind = "text" THEN file.newline = "inside" ELSE hasLines[file]

\* resume: the item is looked up; what becomes of its workflow is the engine's.
resume(v) == IF v.kind = "text" /\ v.item THEN "Resumed" ELSE "NOT_FOUND"

SubmitOutcome(data) ==
  IF rejectSourceBody[data] \/ ~Given("trim", Field(data, "message")) THEN "INVALID_REQUEST"
  ELSE IF Given("isBlank", Field(data, "work_item_id")) THEN resume(Field(data, "work_item_id"))
  ELSE IF currentFile(data) THEN "Accepted" ELSE "NeedQuestion"

\* onAnswer: the answer, trimmed, takes the place of ide_context in the chat that was
\* kept.
Answered(data, answer) ==
  [kind |-> "object", at |-> [k \in DOMAIN data.at \cup {"ide_context"} |->
     IF k = "ide_context" THEN [kind |-> "object", at |-> [f \in {"current_file"} |-> answer]]
     ELSE data.at[k]]]

-----------------------------------------------------------------------------
(* What the messages promise                                               *)

\* ToProto and FromProto.  A valid message arrives as it was sent, except that a
\* timeout that is not positive, or does not fit, does not arrive, and neither
\* does what a CANCEL or an ACK carries.  A message that is not valid does not
\* become so on the way: it arrives not valid or is not sent.
WireKeeps(e) ==
  LET sent == ToProto(e)
      got  == FromProto(sent.value)
      fits(n) == n \in 1..(2^(IntBits - 1) - 1)
      kept == IF e.type = "REQUEST" /\ e.payload.options.present /\ ~fits(e.payload.options.value)
              THEN [e EXCEPT !.payload.options = got.payload.options] ELSE e
  IN  /\ sent.present /\ EnvelopeValid(e) /\ PayloadValid(e) /\ e.type \notin {"CANCEL", "ACK"} =>
           got = [kept EXCEPT !.actor = got.actor]
      /\ sent.present /\ e.actor.present /\ e.actor.value.type \in Actors => got.actor = e.actor
      /\ sent.present /\ e.type \in Types =>
           (EnvelopeValid(got) <=> EnvelopeValid(e)) /\ (PayloadValid(got) <=> PayloadValid(e))
      /\ sent.present => (EnvelopeValid(got) => EnvelopeValid(e))

\* HandleEnvelope: every request whose envelope and call id are valid gets a
\* response that is valid and names its call, whatever the tool does.  Any other
\* gets one that no call of the server can claim.  The server's caller is told the
\* status of the tool and the code of its error, but of a PARTIAL it is told a
\* SUCCESS; when the tool had no response it is told FAILED, and a known code.
AnswersAreValid(env, h) ==
  LET sent    == ToProto(HandleEnvelope(env, h)).value
      answer  == FromProto(sent)
      told    == ServerReads(sent.payload)
      sound   == EnvelopeValid(env) /\ env.type = "REQUEST" /\ env.payload # Bad
      handled == sound /\ RequestValid(env.payload) /\ h.kind = "response"
  IN  /\ EnvelopeValid(answer)
      /\ IF sound /\ env.payload.call = "valid"
           THEN PayloadValid(answer) /\ answer.payload.call = "valid" /\ answer.ids = env.ids
           ELSE ~PayloadValid(answer)
      /\ handled => /\ told.status = IF h.status = "PARTIAL" THEN "SUCCESS" ELSE h.status
                    /\ told.code = h.code
      /\ ~handled => told.status = "FAILED" /\ Known(told.code)

\* ValidateSubmit, IdeContextGuard and ChatIntake.  When the agent has accepted a
\* chat, the user's window has no answer left.  The server turns it down in two
\* cases only: the message is made of control characters, which trim takes for
\* empty and TrimSpace does not, or it is about a work item that there is not.  It
\* asks for a file exactly when the chat is about no work item and names no file
\* in one line, and any answer of one line ends the asking.
GuardsAgree(data) ==
  ValidateSubmit(data) =>
    LET out     == SubmitOutcome(data)
        message == Field(data, "message")
        about   == Field(data, "work_item_id")
    IN  /\ out = "INVALID_REQUEST" <=> EmptyTo("trim", message)
        /\ out = "NOT_FOUND" => Given("isBlank", about) /\ ~(about.kind = "text" /\ about.item)
        /\ out = "NeedQuestion" <=> /\ ~EmptyTo("trim", message) /\ ~Given("isBlank", about)
                                   /\ ~currentFile(data)
        /\ out = "NeedQuestion" =>
             \A answer \in Json :
               /\ answer.kind = "text" /\ Given("trim", answer) /\ answer.newline = "none"
               /\ Answered(data, answer) \in Json
               => SubmitOutcome(Answered(data, answer)) = "Accepted"
=============================================================================
