-------------------------- MODULE OperationsProofs --------------------------
(***************************************************************************)
(* Proofs about the operations of the Local Agent that keep no state: what *)
(* they promise for every job, not only for the ones a run goes through.   *)
(***************************************************************************)
EXTENDS Operations, FiniteSetTheorems, SequenceTheorems, TLAPS

-----------------------------------------------------------------------------
(* Induction.  The library's induction theorems take a predicate, which    *)
(* the provers cannot instantiate; with a set in its place the pigeonhole  *)
(* principle gives the same: were N missing from S, the successor would    *)
(* map what S has below N into what is left of it without 0.               *)

LEMMA Induction ==
  ASSUME NEW S \in SUBSET Nat, 0 \in S, \A n \in S : n + 1 \in S
  PROVE  S = Nat
<1> SUFFICES ASSUME NEW N \in Nat, N \notin S PROVE FALSE
  OBVIOUS
<1> DEFINE T == {n \in Nat : n \in S /\ n < N}
           next == [n \in T |-> n + 1]
<1>1. N # 0
  OBVIOUS
<1>2. T \in SUBSET Nat /\ (\A n \in T : n <= N) /\ 0 \in T
  <2>1. 0 \in T
    BY <1>1
  <2>2. \A n \in T : n <= N
    OBVIOUS
  <2>3. T \in SUBSET Nat
    OBVIOUS
  <2> QED BY <2>1, <2>2, <2>3
<1>3. IsFiniteSet(T)
  <2> HIDE DEF T
  <2> QED BY <1>2, FS_BoundedSetOfNaturals
<1>4. next \in [T -> T \ {0}]
  <2> SUFFICES ASSUME NEW n \in T PROVE n + 1 \in T \ {0}
    OBVIOUS
  <2> QED OBVIOUS
<1>5. IsFiniteSet(T \ {0}) /\ Cardinality(T \ {0}) = Cardinality(T) - 1 /\ Cardinality(T) \in Nat
  BY <1>2, <1>3, FS_RemoveElement, FS_CardinalityType
<1> HIDE DEF T
<1>6. \E x, y \in T : x # y /\ next[x] = next[y]
  <2>1. Cardinality(T \ {0}) < Cardinality(T)
    BY <1>5
  <2> HIDE DEF next
  <2> QED BY <1>3, <1>4, <1>5, <2>1, FS_PigeonHole
<1> QED BY <1>6 DEF T

\* Recursion along 0..N, with the steps as functions.
LEMMA Recursion ==
  ASSUME NEW T, NEW base \in T, NEW N \in Nat, NEW step \in [1..N -> [T -> T]]
  PROVE  \E f \in [0..N -> T] : f[0] = base /\ \A n \in 1..N : f[n] = step[n][f[n - 1]]
<1> DEFINE upTo(f, m) == f[0] = base /\ \A n \in 1..m : f[n] = step[n][f[n - 1]]
           S == {m \in Nat : m <= N => \E f \in [0..m -> T] : upTo(f, m)}
<1>1. 0 \in S
  <2> DEFINE f == [n \in 0..0 |-> base]
  <2>1. f \in [0..0 -> T] /\ upTo(f, 0)
    OBVIOUS
  <2> QED BY <2>1
<1>2. ASSUME NEW m \in S PROVE m + 1 \in S
  <2> SUFFICES ASSUME m + 1 <= N PROVE \E f \in [0..(m + 1) -> T] : upTo(f, m + 1)
    OBVIOUS
  <2>1. PICK f \in [0..m -> T] : upTo(f, m)
    OBVIOUS
  <2> DEFINE g == [n \in 0..(m + 1) |-> IF n = m + 1 THEN step[m + 1][f[m]] ELSE f[n]]
  <2>2. step[m + 1][f[m]] \in T
    OBVIOUS
  <2>3. g \in [0..(m + 1) -> T] /\ g[m + 1] = step[m + 1][f[m]] /\ \A n \in 0..m : g[n] = f[n]
    BY <2>2
  <2> HIDE DEF g
  <2>4. upTo(g, m + 1)
    <3>1. g[0] = base
      BY <2>1, <2>3
    <3>2. ASSUME NEW n \in 1..(m + 1) PROVE g[n] = step[n][g[n - 1]]
      <4>1. g[n - 1] = f[n - 1]
        BY <2>3
      <4>2. CASE n = m + 1
        BY <2>3, <4>1, <4>2
      <4>3. CASE n \in 1..m
        BY <2>1, <2>3, <4>1, <4>3
      <4> QED BY <4>2, <4>3
    <3> QED BY <3>1, <3>2
  <2> QED BY <2>3, <2>4
<1>3. S = Nat
  <2> S \in SUBSET Nat
    OBVIOUS
  <2> HIDE DEF S
  <2> QED BY <1>1, <1>2, Induction
<1>4. N \in S
  BY <1>3
<1> QED BY <1>4

-----------------------------------------------------------------------------
(* Messages                                                                *)

\* A timeout that fits in an int32 is what it was after the conversion; any other
\* becomes some integer.
LEMMA Int32Facts ==
  ASSUME NEW n \in Int
  PROVE  /\ Int32(n) \in Int
         /\ n \in 1..(2^(IntBits - 1) - 1) => Int32(n) = n
<1> DEFINE half == 2^(IntBits - 1)
<1>1. half \in Nat \ {0} /\ 2^IntBits = 2 * half
  BY MessagesAssumption
<1> HIDE DEF half
<1>2. Int32(n) = LET m == n % (2 * half) IN IF m >= half THEN m - 2 * half ELSE m
  BY <1>1 DEF Int32, half
<1>3. n % (2 * half) \in Int
  BY <1>1
<1>4. n \in 1..(half - 1) => n % (2 * half) = n
  BY <1>1
<1>5. n \in 1..(half - 1) => Int32(n) = n
  BY <1>1, <1>2, <1>4
<1> QED BY <1>1, <1>2, <1>3, <1>5 DEF half

\* What an enum of the wire knows survives the trip, anything else becomes "".
LEMMA EnumTrip ==
  ASSUME NEW names, NEW v, "UNSPECIFIED" \notin names
  PROVE  FromEnum(names, ToEnum(names, v)) = IF v \in names THEN v ELSE ""
BY DEF FromEnum, ToEnum

\* An actor whose type the wire knows arrives as it was sent.
LEMMA ActorTrip ==
  ASSUME NEW a, IsActor(a), a.present, a.value.type \in Actors
  PROVE  fromProtoActor(toProtoActor(a)) = a
<1>1. a = [present |-> TRUE, value |-> [type |-> a.value.type, id |-> a.value.id]]
  <2>1. ~Absent.present
    BY DEF Absent
  <2> QED BY <2>1 DEF IsActor, Some
<1>2. toProtoActor(a) = a
  BY <1>1 DEF toProtoActor, ToEnum
<1> QED BY <1>1, <1>2 DEF fromProtoActor, FromEnum

\* The message on the wire and at its receiver.
Wired(e) == Carried(e, ToEnum(Types, e.type), toProtoActor(e.actor), ToProtoPayload(e))

Arrived(e) ==
  Carried(e, IF e.type \in Types THEN e.type ELSE "", fromProtoActor(toProtoActor(e.actor)),
          FromProtoPayload(Wired(e)))

Unsendable(e) == e.type \in {"REQUEST", "RESPONSE", "EVENT"} /\ e.payload = Bad

LEMMA Trip ==
  ASSUME NEW e
  PROVE  /\ ToProto(e) = IF Unsendable(e) THEN Absent ELSE Some(Wired(e))
         /\ FromProto(Wired(e)) = Arrived(e)
<1>1. ToProto(e) = IF Unsendable(e) THEN Absent ELSE Some(Wired(e))
  BY DEF ToProto, Unsendable, Wired
<1>2. FromEnum(Types, ToEnum(Types, e.type)) = IF e.type \in Types THEN e.type ELSE ""
  BY EnumTrip DEF Types
<1>3. FromProto(Wired(e)) = Arrived(e)
  <2> DEFINE w == Wired(e)
  <2>1. w.type = ToEnum(Types, e.type) /\ w.actor = toProtoActor(e.actor)
    BY DEF Wired, Carried
  <2>2. /\ w.protocol = e.protocol /\ w.id = e.id
        /\ w.timestamp = e.timestamp /\ w.ids = e.ids
    BY DEF Wired, Carried
  <2> HIDE DEF w
  <2> QED BY <1>2, <2>1, <2>2 DEF FromProto, Arrived, Carried, w
<1> QED BY <1>1, <1>3

\* A request arrives whole but for a timeout that is no int32 or not positive.
LEMMA RequestTrip ==
  ASSUME NEW e, IsEnvelope(e), e.type = "REQUEST", ~Unsendable(e)
  PROVE  /\ IsRequest(e.payload) /\ IsRequest(Arrived(e).payload)
         /\ Arrived(e).payload = [e.payload EXCEPT !.options = Arrived(e).payload.options]
         /\ \/ ~e.payload.options.present
            \/ e.payload.options.value \in 1..(2^(IntBits - 1) - 1)
            => Arrived(e).payload = e.payload
<1> DEFINE p == e.payload
           timeout == IF p.options.present THEN Int32(p.options.value) ELSE 0
           options == IF timeout > 0 THEN Some(timeout) ELSE Absent
<1>1. IsRequest(p)
  BY DEF IsEnvelope, Unsendable
<1>2. ToProtoPayload(e) = [call |-> p.call, tool |-> p.tool, args |-> p.args, timeout |-> timeout]
  BY DEF ToProtoPayload
<1>3. Wired(e).type = "REQUEST"
  BY DEF Wired, Carried, ToEnum, Types
<1>4. Arrived(e).payload = [call |-> p.call, tool |-> p.tool, args |-> p.args, options |-> options]
  BY <1>2, <1>3 DEF Arrived, Carried, FromProtoPayload, Wired
<1>5. p.options = Absent \/ (p.options = Some(p.options.value) /\ p.options.value \in Int)
  BY <1>1 DEF IsRequest
<1>6. timeout \in Int
  BY <1>5, Int32Facts DEF Absent
<1>7. options = Absent \/ (options = Some(options.value) /\ options.value \in Int)
  BY <1>6 DEF Some
<1>8. p = [call |-> p.call, tool |-> p.tool, args |-> p.args, options |-> p.options]
  BY <1>1 DEF IsRequest
<1>9. ~p.options.present \/ p.options.value \in 1..(2^(IntBits - 1) - 1) => options = p.options
  <2>1. CASE ~p.options.present
    BY <2>1, <1>5 DEF Some
  <2>2. CASE p.options.present /\ p.options.value \in 1..(2^(IntBits - 1) - 1)
    <3>1. p.options = Some(p.options.value) /\ p.options.value \in Int
      BY <2>2, <1>5 DEF Absent
    <3>2. Int32(p.options.value) = p.options.value
      BY <2>2, <3>1, Int32Facts
    <3>3. p.options.value > 0
      <4> DEFINE v    == p.options.value
                 half == 2^(IntBits - 1)
      <4>1. half \in Nat /\ v \in 1..(half - 1)
        BY <2>2, MessagesAssumption
      <4> HIDE DEF v, half
      <4>2. v > 0
        BY <4>1
      <4> QED BY <4>2 DEF v
    <3> QED BY <2>2, <3>1, <3>2, <3>3
  <2> QED BY <2>1, <2>2, <1>5 DEF Some, Absent
<1> HIDE DEF options
<1>10. IsRequest(Arrived(e).payload)
  BY <1>1, <1>4, <1>7 DEF IsRequest
<1> QED BY <1>1, <1>4, <1>8, <1>9, <1>10

\* A response arrives whole but for a status that is none.
LEMMA ResponseTrip ==
  ASSUME NEW e, IsEnvelope(e), e.type = "RESPONSE", ~Unsendable(e)
  PROVE  /\ IsResponse(e.payload)
         /\ e.payload.status \in Statuses => Arrived(e).payload = e.payload
         /\ e.payload.status \notin Statuses => Arrived(e).payload.status = ""
<1> DEFINE p == e.payload
<1>1. IsResponse(p)
  BY DEF IsEnvelope, Unsendable
<1>2. ToProtoPayload(e) = [p EXCEPT !.status = ToEnum(Statuses, p.status)]
  BY DEF ToProtoPayload, toProtoToolResponse
<1>3. Wired(e).type = "RESPONSE" /\ Wired(e).payload = ToProtoPayload(e)
  BY DEF Wired, Carried, ToEnum, Types
<1>4. Arrived(e).payload = fromProtoToolResponse(ToProtoPayload(e))
  BY <1>3 DEF Arrived, Carried, FromProtoPayload
<1>5. FromEnum(Statuses, ToEnum(Statuses, p.status)) = IF p.status \in Statuses THEN p.status ELSE ""
  BY EnumTrip DEF Statuses
<1>6. Arrived(e).payload = [[p EXCEPT !.status = ToEnum(Statuses, p.status)]
                              EXCEPT !.status = IF p.status \in Statuses THEN p.status ELSE ""]
  BY <1>1, <1>2, <1>4, <1>5 DEF fromProtoToolResponse, IsResponse
<1> QED BY <1>1, <1>6 DEF IsResponse

LEMMA EventTrip ==
  ASSUME NEW e, e.type = "EVENT"
  PROVE  Arrived(e).payload = e.payload
BY DEF Arrived, Wired, Carried, ToProtoPayload, FromProtoPayload, ToEnum, Types

\* An envelope with another actor, and with other options in its payload.
LEMMA WithActor ==
  ASSUME NEW e, IsEnvelope(e), NEW a
  PROVE  [e EXCEPT !.actor = a] = Carried(e, e.type, a, e.payload)
BY DEF IsEnvelope, Carried

LEMMA WithOptions ==
  ASSUME NEW e, IsEnvelope(e), NEW o
  PROVE  [e EXCEPT !.payload.options = o] = Carried(e, e.type, e.actor, [e.payload EXCEPT !.options = o])
BY DEF IsEnvelope, Carried

\* What arrives of a message that was sent is as valid as the message.
LEMMA ValidityTrip ==
  ASSUME NEW e, IsEnvelope(e), ~Unsendable(e)
  PROVE  /\ EnvelopeValid(Arrived(e)) <=> EnvelopeValid(e)
         /\ e.type \in Types => (PayloadValid(Arrived(e)) <=> PayloadValid(e))
<1> DEFINE g == Arrived(e)
<1>1. /\ g.protocol = e.protocol /\ g.id = e.id /\ g.timestamp = e.timestamp /\ g.ids = e.ids
      /\ g.type = IF e.type \in Types THEN e.type ELSE ""
  BY DEF Arrived, Carried
<1>2. "" \notin Types /\ "" \notin Statuses
  BY DEF Types, Statuses
<1>3. EnvelopeValid(g) <=> EnvelopeValid(e)
  BY <1>1, <1>2 DEF EnvelopeValid
<1>4. ASSUME e.type \in Types PROVE PayloadValid(g) <=> PayloadValid(e)
  <2>1. g.type = e.type
    BY <1>1, <1>4
  <2>2. CASE e.type = "REQUEST"
    <3>1. g.payload.call = e.payload.call /\ g.payload.tool = e.payload.tool
      BY <2>2, RequestTrip DEF IsRequest
    <3> QED BY <2>1, <2>2, <3>1 DEF PayloadValid, RequestValid
  <2>3. CASE e.type = "RESPONSE"
    BY <2>1, <2>3, <1>2, ResponseTrip DEF PayloadValid, ResponseValid
  <2> QED BY <2>1, <2>2, <2>3 DEF PayloadValid
<1> QED BY <1>3, <1>4

LEMMA WireLemma ==
  ASSUME NEW e, IsEnvelope(e)
  PROVE  WireKeeps(e)
<1> DEFINE sent == ToProto(e)
           got  == FromProto(sent.value)
           fits(n) == n \in 1..(2^(IntBits - 1) - 1)
           kept == IF e.type = "REQUEST" /\ e.payload.options.present /\ ~fits(e.payload.options.value)
                   THEN [e EXCEPT !.payload.options = got.payload.options] ELSE e
<1>1. sent.present => ~Unsendable(e) /\ got = Arrived(e)
  <2>1. ~Absent.present
    BY DEF Absent
  <2>2. \A x : Some(x).value = x
    BY DEF Some
  <2> QED BY <2>1, <2>2, Trip
<1> HIDE DEF sent, got
<1>2. ASSUME sent.present, EnvelopeValid(e), PayloadValid(e), e.type \notin {"CANCEL", "ACK"}
      PROVE  got = [kept EXCEPT !.actor = got.actor]
  <2>1. ~Unsendable(e) /\ got = Arrived(e)
    BY <1>1, <1>2
  <2>2. e.type \in Types
    BY <1>2 DEF EnvelopeValid
  <2>3. got = Carried(e, e.type, got.actor, got.payload)
    BY <2>1, <2>2 DEF Arrived, Carried
  <2>4. SUFFICES got = [kept EXCEPT !.actor = got.actor]
    OBVIOUS
  <2>5. ASSUME kept = e, got.payload = e.payload PROVE got = [kept EXCEPT !.actor = got.actor]
    <3>1. [e EXCEPT !.actor = got.actor] = Carried(e, e.type, got.actor, e.payload)
      BY WithActor
    <3> HIDE DEF kept
    <3> QED BY <2>3, <2>5, <3>1
  <2>6. CASE e.type = "REQUEST"
    <3>1. /\ IsRequest(e.payload)
          /\ got.payload = [e.payload EXCEPT !.options = got.payload.options]
          /\ ~e.payload.options.present \/ fits(e.payload.options.value) => got.payload = e.payload
      BY <2>1, <2>6, RequestTrip
    <3>2. CASE ~e.payload.options.present \/ fits(e.payload.options.value)
      BY <2>5, <3>1, <3>2
    <3>3. CASE e.payload.options.present /\ ~fits(e.payload.options.value)
      <4>1. kept = Carried(e, e.type, e.actor, got.payload)
        <5>1. kept = [e EXCEPT !.payload.options = got.payload.options]
          BY <2>6, <3>3
        <5>2. @ = Carried(e, e.type, e.actor, [e.payload EXCEPT !.options = got.payload.options])
          BY WithOptions
        <5> HIDE DEF kept
        <5> QED BY <3>1, <5>1, <5>2
      <4>2. [kept EXCEPT !.actor = got.actor] = Carried(e, e.type, got.actor, got.payload)
        BY <4>1 DEF Carried
      <4> QED BY <2>3, <4>2
    <3> QED BY <3>2, <3>3
  <2>7. CASE e.type = "RESPONSE"
    <3>1. e.payload.status \in Statuses
      BY <1>2, <2>7 DEF PayloadValid, ResponseValid
    <3> QED BY <2>1, <2>5, <2>7, <3>1, ResponseTrip
  <2>8. CASE e.type = "EVENT"
    BY <2>1, <2>5, <2>8, EventTrip
  <2> QED BY <1>2, <2>2, <2>6, <2>7, <2>8 DEF Types
<1>3. sent.present /\ e.actor.present /\ e.actor.value.type \in Actors => got.actor = e.actor
  <2> SUFFICES ASSUME sent.present, e.actor.present, e.actor.value.type \in Actors
               PROVE  got.actor = e.actor
    OBVIOUS
  <2>1. got.actor = fromProtoActor(toProtoActor(e.actor))
    <3>1. got = Arrived(e)
      BY <1>1
    <3> QED BY <3>1 DEF Arrived, Carried
  <2> QED BY <2>1, ActorTrip DEF IsEnvelope
<1>4. sent.present /\ e.type \in Types =>
        (EnvelopeValid(got) <=> EnvelopeValid(e)) /\ (PayloadValid(got) <=> PayloadValid(e))
  BY <1>1, ValidityTrip
<1>5. sent.present => (EnvelopeValid(got) => EnvelopeValid(e))
  BY <1>1, ValidityTrip
<1> QED BY <1>2, <1>3, <1>4, <1>5 DEF WireKeeps, sent, got

LEMMA NotBad ==
  ASSUME NEW p, IsResponse(p)
  PROVE  p # Bad
<1>1. "call" \in DOMAIN p
  BY DEF IsResponse
<1>2. "call" \notin DOMAIN Bad
  BY DEF Bad
<1> QED BY <1>1, <1>2

\* A response of the agent to call, which the server's caller reads as status and
\* code.
Tells(p, call, status, code) ==
  /\ IsResponse(p) /\ p.call = call /\ p.status \in Statuses
  /\ p.status = "FAILED" => p.error.present /\ Known(p.error.value.code)
  /\ ServerReads(p) = [status |-> status, code |-> code]

\* What the handlers report, and how the server's caller reads it.
LEMMA ReportedFacts ==
  ASSUME NEW s, NEW c, [status |-> s, code |-> c] \in Reported
  PROVE  /\ s \in Statuses /\ s # "UNSPECIFIED"
         /\ s = "FAILED" => c \in KnownCodes
         /\ c = "" <=> s \in {"SUCCESS", "PARTIAL"}
<1> DEFINE rep == [status |-> s, code |-> c]
<1>1. rep.status = s /\ rep.code = c
  OBVIOUS
<1>2. \/ rep \in {[status |-> t, code |-> ""] : t \in {"SUCCESS", "PARTIAL"}}
      \/ rep = [status |-> "TIMEOUT", code |-> "PROCESS_TIMEOUT"]
      \/ rep = [status |-> "CANCELLED", code |-> "PROCESS_CANCELLED"]
      \/ rep \in [status : {"FAILED"}, code : KnownCodes]
  BY DEF Reported
<1> HIDE DEF rep
<1>3. \/ s \in {"SUCCESS", "PARTIAL"} /\ c = ""
      \/ s = "TIMEOUT" /\ c = "PROCESS_TIMEOUT"
      \/ s = "CANCELLED" /\ c = "PROCESS_CANCELLED"
      \/ s = "FAILED" /\ c \in KnownCodes
  <2>1. CASE rep \in {[status |-> t, code |-> ""] : t \in {"SUCCESS", "PARTIAL"}}
    <3>1. PICK t \in {"SUCCESS", "PARTIAL"} : rep = [status |-> t, code |-> ""]
      BY <2>1
    <3> QED BY <1>1, <3>1
  <2>2. CASE rep = [status |-> "TIMEOUT", code |-> "PROCESS_TIMEOUT"]
    BY <1>1, <2>2
  <2>3. CASE rep = [status |-> "CANCELLED", code |-> "PROCESS_CANCELLED"]
    BY <1>1, <2>3
  <2>4. CASE rep \in [status : {"FAILED"}, code : KnownCodes]
    BY <1>1, <2>4
  <2> QED BY <1>2, <2>1, <2>2, <2>3, <2>4
<1> QED BY <1>3, MessagesAssumption DEF Statuses

\* A failure that names a code.
LEMMA FailureTells ==
  ASSUME NEW call \in IdForms, NEW c \in KnownCodes, NEW m
  PROVE  Tells([call |-> call, status |-> "FAILED", result |-> "", metrics |-> m,
                error |-> Some(NewError(c))], call, "FAILED", c)
<1> DEFINE p == [call |-> call, status |-> "FAILED", result |-> "", metrics |-> m,
                 error |-> Some(NewError(c))]
<1>2. /\ p.call = call /\ p.status = "FAILED" /\ p.error = Some(NewError(c))
      /\ p = [call |-> p.call, status |-> p.status, result |-> p.result, metrics |-> p.metrics,
              error |-> p.error]
  OBVIOUS
<1> HIDE DEF p
<1>3. p.error.present /\ p.error.value.code = c
  BY <1>2 DEF Some, NewError
<1>4. IsResponse(p)
  BY <1>2 DEF IsResponse
<1>5. ServerReads(p) = [status |-> "FAILED", code |-> c]
  BY <1>2, <1>3 DEF ServerReads
<1>6. Tells(p, call, "FAILED", c)
  BY <1>2, <1>3, <1>4, <1>5 DEF Tells, Statuses, Known
<1> QED BY <1>6 DEF p

\* A response with another error.
LEMMA WithError ==
  ASSUME NEW p, IsResponse(p), NEW e
  PROVE  [p EXCEPT !.error = e] = [call |-> p.call, status |-> p.status, result |-> p.result,
                                   metrics |-> p.metrics, error |-> e]
BY DEF IsResponse

LEMMA FailedTells ==
  ASSUME NEW call \in IdForms, NEW code
  PROVE  \E c \in KnownCodes : Tells(Failed(call, code), call, "FAILED", c)
<1> DEFINE c == IF Known(code) THEN code ELSE "INTERNAL_ERROR"
<1>1. c \in KnownCodes
  BY MessagesAssumption DEF Known
<1> HIDE DEF c
<1>2. Failed(call, code) = [call |-> call, status |-> "FAILED", result |-> "", metrics |-> Absent,
                            error |-> Some(NewError(c))]
  BY DEF Failed, c
<1>3. Tells(Failed(call, code), call, "FAILED", c)
  BY <1>1, <1>2, FailureTells
<1> QED BY <1>1, <1>3

LEMMA TimedTells ==
  ASSUME NEW p, NEW call, NEW status, NEW code, Tells(p, call, status, code)
  PROVE  Tells(Timed(p), call, status, code)
<1> DEFINE q == [p EXCEPT !.metrics = Some(0)]
<1>1. /\ q.call = p.call /\ q.status = p.status /\ q.error = p.error
      /\ q = [call |-> q.call, status |-> q.status, result |-> q.result, metrics |-> q.metrics,
              error |-> q.error]
  BY DEF Tells, IsResponse
<1> HIDE DEF q
<1>2. IsResponse(q) /\ ServerReads(q) = ServerReads(p)
  BY <1>1 DEF Tells, IsResponse, ServerReads
<1>3. Tells(q, call, status, code)
  BY <1>1, <1>2 DEF Tells
<1> QED BY <1>3 DEF Timed, q

\* What the caller is told of a request that a handler answered, or did not.
ToldAs(p, call, handled, h) ==
  IF handled THEN Tells(p, call, IF h.status = "PARTIAL" THEN "SUCCESS" ELSE h.status, h.code)
  ELSE \E c \in KnownCodes : Tells(p, call, "FAILED", c)

\* Dispatch passes on what the handler reports, and fails otherwise.
LEMMA DispatchTells ==
  ASSUME NEW req, IsRequest(req), NEW h, IsHandling(h)
  PROVE  ToldAs(Dispatch(req, h), req.call, RequestValid(req) /\ h.kind = "response", h)
<1>0. /\ req.call \in IdForms
      /\ h.kind \in {"response", "protoerr", "error", "nil", "unsupported"}
  BY DEF IsRequest, IsHandling
<1>1. CASE ~RequestValid(req)
  BY <1>0, <1>1, FailedTells DEF Dispatch, ToldAs
<1>2. CASE RequestValid(req) /\ h.kind = "unsupported"
  BY <1>0, <1>2, FailedTells DEF Dispatch, ToldAs
<1>3. CASE RequestValid(req) /\ h.kind = "nil"
  <2>1. Dispatch(req, h) = Timed(Failed(req.call, "INTERNAL_ERROR"))
    BY <1>3 DEF Dispatch
  <2> QED BY <1>0, <1>3, <2>1, FailedTells, TimedTells DEF ToldAs
<1>4. CASE RequestValid(req) /\ h.kind \in {"protoerr", "error"}
  <2>1. Dispatch(req, h) = Timed(mapError(req.call, h))
    BY <1>4 DEF Dispatch
  <2>2. \E c \in KnownCodes : Tells(mapError(req.call, h), req.call, "FAILED", c)
    <3>1. CASE h.kind = "protoerr"
      <4> DEFINE f == [Failed(req.call, "INTERNAL_ERROR") EXCEPT !.error = Some(NewError(h.code))]
      <4>1. h.code \in KnownCodes
        BY <3>1 DEF IsHandling
      <4>2. f = [call |-> req.call, status |-> "FAILED", result |-> "", metrics |-> Absent,
                 error |-> Some(NewError(h.code))]
        <5> DEFINE g == Failed(req.call, "INTERNAL_ERROR")
        <5>1. IsResponse(g)
          BY <1>0, FailedTells DEF Tells
        <5>2. g.call = req.call /\ g.status = "FAILED" /\ g.result = "" /\ g.metrics = Absent
          BY DEF Failed
        <5> HIDE DEF g
        <5>3. [g EXCEPT !.error = Some(NewError(h.code))]
                = [call |-> g.call, status |-> g.status, result |-> g.result, metrics |-> g.metrics,
                   error |-> Some(NewError(h.code))]
          BY <5>1, WithError
        <5> QED BY <5>2, <5>3 DEF g
      <4>3. Tells(f, req.call, "FAILED", h.code)
        BY <1>0, <4>1, <4>2, FailureTells
      <4> QED BY <3>1, <4>1, <4>3 DEF mapError
    <3>2. CASE h.kind # "protoerr"
      BY <1>0, <3>2, FailedTells DEF mapError
    <3> QED BY <3>1, <3>2
  <2> QED BY <1>4, <2>1, <2>2, TimedTells DEF ToldAs
<1>5. CASE RequestValid(req) /\ h.kind = "response"
  <2> DEFINE p == HandlerResponse(req.call, h)
             status == IF h.status = "PARTIAL" THEN "SUCCESS" ELSE h.status
  <2>1. Dispatch(req, h) = Timed(p)
    BY <1>5 DEF Dispatch
  <2>2. /\ h.status \in Statuses /\ h.status # "UNSPECIFIED"
        /\ h.status = "FAILED" => h.code \in KnownCodes
        /\ h.code = "" <=> h.status \in {"SUCCESS", "PARTIAL"}
    <3>1. [status |-> h.status, code |-> h.code] \in Reported
      BY <1>5 DEF IsHandling
    <3> QED BY <3>1, ReportedFacts
  <2>3. /\ p.call = req.call /\ p.status = h.status
        /\ p.error = IF h.code = "" THEN Absent ELSE Some(NewError(h.code))
        /\ p = [call |-> p.call, status |-> p.status, result |-> p.result, metrics |-> p.metrics,
                error |-> p.error]
    BY DEF HandlerResponse
  <2> HIDE DEF p
  <2>4. IsResponse(p)
    BY <1>0, <2>3 DEF IsResponse
  <2>5. /\ p.error.present <=> h.code # ""
        /\ p.error.present => p.error.value.code = h.code
    <3>1. Absent.present = FALSE /\ Some(NewError(h.code)).present = TRUE
          /\ Some(NewError(h.code)).value.code = h.code
      BY DEF Some, Absent, NewError
    <3> QED BY <2>3, <3>1
  <2>6. ServerReads(p) = [status |-> status, code |-> h.code]
    BY <2>2, <2>3, <2>5 DEF ServerReads
  <2>7. h.status = "FAILED" => p.error.present /\ Known(p.error.value.code)
    BY <2>2, <2>5 DEF Known
  <2>8. Tells(p, req.call, status, h.code)
    BY <2>2, <2>3, <2>4, <2>6, <2>7 DEF Tells
  <2> QED BY <1>5, <2>1, <2>8, TimedTells DEF ToldAs
<1> QED BY <1>0, <1>1, <1>2, <1>3, <1>4, <1>5

LEMMA AnswersLemma ==
  ASSUME NEW env, IsEnvelope(env), NEW h, IsHandling(h)
  PROVE  AnswersAreValid(env, h)
<1> DEFINE sound   == EnvelopeValid(env) /\ env.type = "REQUEST" /\ env.payload # Bad
           r       == HandleEnvelope(env, h)
           sent    == ToProto(r).value
           answer  == FromProto(sent)
           told    == ServerReads(sent.payload)
           handled == sound /\ RequestValid(env.payload) /\ h.kind = "response"
           scope   == IF sound THEN env.ids ELSE Blanks(DOMAIN env.ids)
           call    == IF sound THEN env.payload.call ELSE ""
<1>1. /\ r.protocol = Current /\ r.type = "RESPONSE" /\ r.id = "valid" /\ r.timestamp = "now"
      /\ r.ids = scope /\ IsActor(r.actor)
      /\ r = [protocol |-> r.protocol, type |-> r.type, id |-> r.id, timestamp |-> r.timestamp,
              ids |-> r.ids, actor |-> r.actor, payload |-> r.payload]
      /\ r.payload = IF sound THEN Dispatch(env.payload, h) ELSE Failed("", "INVALID_REQUEST")
  <2>1. CASE sound
    <3>1. r = [NewEnvelope("RESPONSE", Dispatch(env.payload, h), env.ids)
                 EXCEPT !.actor = Some([type |-> "LOCAL_AGENT", id |-> "agent"])]
      BY <2>1 DEF HandleEnvelope
    <3>2. IsActor(Some([type |-> "LOCAL_AGENT", id |-> "agent"]))
      BY DEF IsActor, Some
    <3> HIDE DEF r
    <3> QED BY <2>1, <3>1, <3>2 DEF NewEnvelope
  <2>2. CASE ~sound
    <3>1. r = NewEnvelope("RESPONSE", Failed("", "INVALID_REQUEST"), Blanks(DOMAIN env.ids))
      BY <2>2 DEF HandleEnvelope
    <3>2. IsActor(Absent)
      BY DEF IsActor
    <3> HIDE DEF r
    <3> QED BY <2>2, <3>1, <3>2 DEF NewEnvelope
  <2> QED BY <2>1, <2>2
<1> HIDE DEF r
<1>2. sound => IsRequest(env.payload) /\ env.payload.call \in IdForms
  BY DEF IsEnvelope, IsRequest
<1>3. ToldAs(r.payload, call, handled, h)
  <2>1. CASE sound
    <3>1. ToldAs(Dispatch(env.payload, h), env.payload.call,
                 RequestValid(env.payload) /\ h.kind = "response", h)
      BY <1>2, <2>1, DispatchTells
    <3>2. r.payload = Dispatch(env.payload, h) /\ call = env.payload.call
          /\ handled = (RequestValid(env.payload) /\ h.kind = "response")
      BY <1>1, <2>1
    <3> QED BY <3>1, <3>2
  <2>2. CASE ~sound
    <3>1. "" \in IdForms
      BY DEF IdForms
    <3> QED BY <1>1, <2>2, <3>1, FailedTells DEF ToldAs
  <2> QED BY <2>1, <2>2
<1>4. PICK status, code : /\ Tells(r.payload, call, status, code)
                          /\ handled => /\ status = IF h.status = "PARTIAL" THEN "SUCCESS" ELSE h.status
                                        /\ code = h.code
                          /\ ~handled => status = "FAILED" /\ code \in KnownCodes
  <2> HIDE DEF handled, call
  <2> QED BY <1>3 DEF ToldAs
<1> HIDE DEF handled
<1>5. /\ IsResponse(r.payload) /\ r.payload.call = call /\ r.payload.status \in Statuses
      /\ r.payload.status = "FAILED" => r.payload.error.present /\ Known(r.payload.error.value.code)
      /\ ServerReads(r.payload) = [status |-> status, code |-> code]
  BY <1>4 DEF Tells
<1>6. IsEnvelope(r)
  BY <1>1, <1>5 DEF IsEnvelope
<1>7. ~Unsendable(r)
  BY <1>1, <1>5, NotBad DEF Unsendable
<1>8. sent = Wired(r) /\ answer = Arrived(r)
  <2>1. sent = Wired(r)
    BY <1>7, Trip DEF Some
  <2> QED BY <2>1, Trip
<1>9. told = [status |-> status, code |-> code]
  <2>1. sent.payload = [r.payload EXCEPT !.status = ToEnum(Statuses, r.payload.status)]
    <3>1. Wired(r).payload = ToProtoPayload(r)
      BY DEF Wired, Carried
    <3>2. ToProtoPayload(r) = toProtoToolResponse(r.payload)
      BY <1>1 DEF ToProtoPayload
    <3> HIDE DEF sent
    <3> QED BY <1>8, <3>1, <3>2 DEF toProtoToolResponse
  <2>2. sent.payload = r.payload
    BY <1>5, <2>1 DEF ToEnum, IsResponse
  <2> QED BY <1>5, <2>2
<1> HIDE DEF answer, sent, told
<1>10. answer.payload = r.payload /\ answer.ids = scope /\ answer.type = "RESPONSE"
  <2>1. answer.payload = r.payload
    BY <1>1, <1>5, <1>6, <1>7, <1>8, ResponseTrip
  <2>2. answer.ids = scope /\ answer.type = "RESPONSE"
    BY <1>1, <1>8 DEF Arrived, Carried, Types
  <2> QED BY <2>1, <2>2
<1>11. EnvelopeValid(answer)
  <2>1. \A f \in DOMAIN r.ids : r.ids[f] \in {"", "valid"}
    BY <1>1 DEF EnvelopeValid, Blanks
  <2>2. EnvelopeValid(r)
    <3>1. Current.minor >= 0
      BY DEF Current
    <3>2. Compatible(r.protocol)
      BY <1>1, <3>1 DEF Compatible
    <3> QED BY <1>1, <2>1, <3>2 DEF EnvelopeValid, Types
  <2> QED BY <1>6, <1>7, <1>8, <2>2, ValidityTrip
<1>12. PayloadValid(answer) <=> call = "valid"
  <2> HIDE DEF call
  <2> QED BY <1>5, <1>10 DEF PayloadValid, ResponseValid
<1>13. /\ sound /\ env.payload.call = "valid" =>
            PayloadValid(answer) /\ answer.payload.call = "valid" /\ answer.ids = env.ids
       /\ ~(sound /\ env.payload.call = "valid") => ~PayloadValid(answer)
  BY <1>5, <1>10, <1>12
<1>14. /\ handled => /\ told.status = IF h.status = "PARTIAL" THEN "SUCCESS" ELSE h.status
                     /\ told.code = h.code
       /\ ~handled => told.status = "FAILED" /\ Known(told.code)
  BY <1>4, <1>9 DEF Known
<1> QED BY <1>11, <1>13, <1>14 DEF AnswersAreValid, answer, sent, told, handled, r

-----------------------------------------------------------------------------
(* Chats                                                                   *)

\* A value holds a forbidden key itself, or at the end of a chain of children.
HoldsKey(v) == v.kind = "object" /\ DOMAIN v.at \cap ForbiddenKeys # {}

ChildOf(w, v) == IsTree(v) /\ \E k \in DOMAIN v.at : w = v.at[k]

Chain(c, n, v) ==
  /\ c \in [0..n -> Json] /\ c[0] = v /\ HoldsKey(c[n])
  /\ \A i \in 0..(n - 1) : ChildOf(c[i + 1], c[i])

HidesKey(v) == \E n \in Nat : \E c : Chain(c, n, v)

LEMMA HidesKeyBelow ==
  ASSUME NEW v \in Json
  PROVE  HidesKey(v) <=> HoldsKey(v) \/ \E w \in Json : ChildOf(w, v) /\ HidesKey(w)
<1>1. ASSUME HoldsKey(v) PROVE HidesKey(v)
  <2> DEFINE c == [i \in 0..0 |-> v]
  <2>1. Chain(c, 0, v)
    BY <1>1 DEF Chain
  <2> QED BY <2>1 DEF HidesKey
<1>2. ASSUME NEW w \in Json, ChildOf(w, v), HidesKey(w) PROVE HidesKey(v)
  <2>0. PICK n \in Nat : \E c : Chain(c, n, w)
    BY <1>2 DEF HidesKey
  <2>1. PICK c : Chain(c, n, w)
    BY <2>0
  <2> DEFINE d == [i \in 0..(n + 1) |-> IF i = 0 THEN v ELSE c[i - 1]]
  <2>2. c \in [0..n -> Json] /\ c[0] = w /\ HoldsKey(c[n])
    BY <2>1 DEF Chain
  <2>3. d \in [0..(n + 1) -> Json] /\ d[0] = v /\ d[n + 1] = c[n]
    BY <2>2
  <2>4. ASSUME NEW i \in 0..n PROVE ChildOf(d[i + 1], d[i])
    <3>1. d[i + 1] = c[i]
      OBVIOUS
    <3>2. CASE i = 0
      BY <1>2, <2>2, <2>3, <3>1, <3>2
    <3>3. CASE i # 0
      <4>1. d[i] = c[i - 1] /\ i - 1 \in 0..(n - 1)
        BY <3>3
      <4>2. ChildOf(c[(i - 1) + 1], c[i - 1])
        BY <2>1, <4>1 DEF Chain
      <4>3. (i - 1) + 1 = i
        OBVIOUS
      <4> QED BY <3>1, <4>1, <4>2, <4>3
    <3> QED BY <3>2, <3>3
  <2> HIDE DEF d
  <2>5. Chain(d, n + 1, v)
    BY <2>2, <2>3, <2>4 DEF Chain
  <2> QED BY <2>5 DEF HidesKey
<1>3. ASSUME HidesKey(v), ~HoldsKey(v)
      PROVE  \E w \in Json : ChildOf(w, v) /\ HidesKey(w)
  <2>0. PICK n \in Nat : \E c : Chain(c, n, v)
    BY <1>3 DEF HidesKey
  <2>1. PICK c : Chain(c, n, v)
    BY <2>0
  <2>2. c \in [0..n -> Json] /\ c[0] = v /\ HoldsKey(c[n])
    BY <2>1 DEF Chain
  <2>3. n # 0
    BY <1>3, <2>2
  <2> DEFINE d == [i \in 0..(n - 1) |-> c[i + 1]]
  <2>4. d \in [0..(n - 1) -> Json] /\ d[0] = c[1] /\ d[n - 1] = c[n]
    BY <2>2, <2>3
  <2>5. ASSUME NEW i \in 0..(n - 2) PROVE ChildOf(d[i + 1], d[i])
    <3>1. d[i + 1] = c[(i + 1) + 1] /\ d[i] = c[i + 1] /\ i + 1 \in 0..(n - 1)
      OBVIOUS
    <3> QED BY <2>1, <3>1 DEF Chain
  <2>6. ChildOf(c[1], v) /\ c[1] \in Json
    <3>1. 0 \in 0..(n - 1) /\ 1 \in 0..n /\ 0 + 1 = 1
      BY <2>3
    <3> QED BY <2>1, <2>2, <3>1 DEF Chain
  <2>7. (n - 1) - 1 = n - 2 /\ n - 1 \in Nat
    BY <2>3
  <2> HIDE DEF d
  <2>8. Chain(d, n - 1, c[1])
    BY <2>2, <2>4, <2>5, <2>7 DEF Chain
  <2> QED BY <2>6, <2>7, <2>8 DEF HidesKey
<1> QED BY <1>1, <1>2, <1>3

\* One look at a value by either guard, given what it finds in the children.
Look(g, v) == HoldsKey(v) \/ (IsTree(v) /\ \E k \in DOMAIN v.at : g[v.at[k]])

LEMMA LooksAlike ==
  ASSUME NEW g, NEW v
  PROVE  /\ (CASE v.kind = "object" -> \E k \in DOMAIN v.at : k \in ForbiddenKeys \/ g[v.at[k]]
               [] v.kind = "list" -> \E i \in DOMAIN v.at : g[v.at[i]]
               [] OTHER -> FALSE) = Look(g, v)
         /\ (\/ /\ v.kind = "object"
                /\ DOMAIN v.at \cap ForbiddenKeys # {} \/ \E k \in DOMAIN v.at : g[v.at[k]]
             \/ v.kind = "list" /\ \E i \in DOMAIN v.at : g[v.at[i]]) = Look(g, v)
<1>1. CASE v.kind = "object"
  BY <1>1 DEF Look, HoldsKey, IsTree
<1>2. CASE v.kind = "list"
  BY <1>2 DEF Look, HoldsKey, IsTree
<1>3. CASE v.kind \notin {"object", "list"}
  BY <1>3 DEF Look, HoldsKey, IsTree
<1> QED BY <1>1, <1>2, <1>3

\* The walk of either guard is well defined.
Walked(g) == g = [v \in Json |-> Look(g, v)]

LEMMA WalkExists == \E g : Walked(g)
<1> DEFINE g == [v \in Json |-> HidesKey(v)]
<1>1. ASSUME NEW v \in Json PROVE g[v] = Look(g, v)
  <2>1. HidesKey(v) <=> HoldsKey(v) \/ \E w \in Json : ChildOf(w, v) /\ HidesKey(w)
    BY HidesKeyBelow
  <2>2. IsTree(v) => \A k \in DOMAIN v.at : v.at[k] \in Json
    BY JsonAssumption
  <2>3. (\E w \in Json : ChildOf(w, v) /\ HidesKey(w))
          <=> IsTree(v) /\ \E k \in DOMAIN v.at : g[v.at[k]]
    BY <2>2 DEF ChildOf
  <2>4. Look(g, v) \in BOOLEAN /\ HidesKey(v) \in BOOLEAN
    BY DEF Look, HidesKey
  <2> QED BY <2>1, <2>3, <2>4 DEF Look
<1>2. g = [v \in Json |-> Look(g, v)]
  <2> DEFINE f == [v \in Json |-> Look(g, v)]
  <2>1. \A v \in Json : g[v] = f[v]
    BY <1>1
  <2> QED BY <2>1
<1> QED BY <1>2 DEF Walked

LEMMA GuardsWalk == Walked(rejectForbidden) /\ Walked(rejectSourceBody)
<1>1. Walked(rejectForbidden)
  <2> DEFINE body(g, v) ==
        CASE v.kind = "object" -> \E k \in DOMAIN v.at : k \in ForbiddenKeys \/ g[v.at[k]]
          [] v.kind = "list" -> \E i \in DOMAIN v.at : g[v.at[i]]
          [] OTHER -> FALSE
             P(g) == g = [v \in Json |-> body(g, v)]
  <2>1. rejectForbidden = CHOOSE g : P(g)
    BY DEF rejectForbidden
  <2>2. \A g, v : body(g, v) = Look(g, v)
    BY LooksAlike
  <2> HIDE DEF body
  <2>3. \A g : P(g) <=> Walked(g)
    BY <2>2 DEF Walked
  <2> HIDE DEF P
  <2>4. P(CHOOSE g : P(g))
    BY <2>3, WalkExists
  <2> QED BY <2>1, <2>3, <2>4
<1>2. Walked(rejectSourceBody)
  <2> DEFINE body(g, v) ==
        \/ /\ v.kind = "object"
           /\ DOMAIN v.at \cap ForbiddenKeys # {} \/ \E k \in DOMAIN v.at : g[v.at[k]]
        \/ v.kind = "list" /\ \E i \in DOMAIN v.at : g[v.at[i]]
             P(g) == g = [v \in Json |-> body(g, v)]
  <2>1. rejectSourceBody = CHOOSE g : P(g)
    BY DEF rejectSourceBody
  <2>2. \A g, v : body(g, v) = Look(g, v)
    BY LooksAlike
  <2> HIDE DEF body
  <2>3. \A g : P(g) <=> Walked(g)
    BY <2>2 DEF Walked
  <2> HIDE DEF P
  <2>4. P(CHOOSE g : P(g))
    BY <2>3, WalkExists
  <2> QED BY <2>1, <2>3, <2>4
<1> QED BY <1>1, <1>2

\* ... and finds a key however deep it is.
LEMMA WalkFinds ==
  ASSUME NEW g, Walked(g)
  PROVE  \A v \in Json : g[v] <=> HidesKey(v)
<1> DEFINE S == {n \in Nat : \A v \in Json : Nesting[v] < n => (g[v] <=> HidesKey(v))}
<1>1. \A v \in Json : Nesting[v] \in Nat
  BY JsonAssumption
<1>2. 0 \in S
  BY <1>1
<1>3. ASSUME NEW n \in S PROVE n + 1 \in S
  <2> SUFFICES ASSUME NEW v \in Json, Nesting[v] < n + 1 PROVE g[v] <=> HidesKey(v)
    OBVIOUS
  <2>1. g[v] <=> Look(g, v)
    BY DEF Walked
  <2>2. ASSUME NEW w \in Json, ChildOf(w, v) PROVE g[w] <=> HidesKey(w)
    <3>1. Nesting[w] < Nesting[v]
      BY <2>2, JsonAssumption DEF ChildOf
    <3>2. Nesting[w] < n
      BY <3>1, <1>1
    <3> QED BY <3>2
  <2>3. IsTree(v) => \A k \in DOMAIN v.at : v.at[k] \in Json
    BY JsonAssumption
  <2>4. Look(g, v) <=> HoldsKey(v) \/ \E w \in Json : ChildOf(w, v) /\ g[w]
    BY <2>3 DEF Look, ChildOf
  <2> QED BY <2>1, <2>2, <2>4, HidesKeyBelow
<1>4. S = Nat
  <2> S \in SUBSET Nat
    OBVIOUS
  <2> HIDE DEF S
  <2> QED BY <1>2, <1>3, Induction
<1> SUFFICES ASSUME NEW v \in Json PROVE g[v] <=> HidesKey(v)
  OBVIOUS
<1>5. Nesting[v] + 1 \in S /\ Nesting[v] < Nesting[v] + 1
  BY <1>1, <1>4
<1> QED BY <1>5

\* What the two guards make of a value, one level at a time.
LEMMA LooksDeeper ==
  ASSUME NEW v \in Json
  PROVE  /\ rejectForbidden[v] <=> HidesKey(v)
         /\ rejectSourceBody[v] <=> HidesKey(v)
         /\ HidesKey(v) <=> HoldsKey(v) \/ (IsTree(v) /\ \E k \in DOMAIN v.at : HidesKey(v.at[k]))
<1>1. (rejectForbidden[v] <=> HidesKey(v)) /\ (rejectSourceBody[v] <=> HidesKey(v))
  BY GuardsWalk, WalkFinds
<1>2. HidesKey(v) <=> HoldsKey(v) \/ \E w \in Json : ChildOf(w, v) /\ HidesKey(w)
  BY HidesKeyBelow
<1>3. HidesKey(v) <=> HoldsKey(v) \/ (IsTree(v) /\ \E k \in DOMAIN v.at : HidesKey(v.at[k]))
  <2>1. IsTree(v) => \A k \in DOMAIN v.at : v.at[k] \in Json
    BY JsonAssumption
  <2> QED BY <1>2, <2>1 DEF ChildOf
<1> QED BY <1>1, <1>3

\* The chat that onAnswer puts together: an answer hides no key, and takes only the
\* place of ide_context.
LEMMA AnsweredIs ==
  ASSUME NEW data \in Json, NEW answer \in Json, data.kind = "object", answer.kind = "text",
         Answered(data, answer) \in Json
  PROVE  LET merged == Answered(data, answer)
         IN  /\ HidesKey(merged) => HidesKey(data)
             /\ \A k : k # "ide_context" => Field(merged, k) = Field(data, k)
             /\ Field(Field(merged, "ide_context"), "current_file") = answer
<1> DEFINE merged == Answered(data, answer)
           ctx    == [kind |-> "object", at |-> [f \in {"current_file"} |-> answer]]
           at     == [k \in DOMAIN data.at \cup {"ide_context"} |->
                        IF k = "ide_context" THEN ctx ELSE data.at[k]]
<1>1. merged.kind = "object" /\ merged.at = at
  BY DEF Answered
<1>2. /\ DOMAIN at = DOMAIN data.at \cup {"ide_context"} /\ at["ide_context"] = ctx
      /\ \A k \in DOMAIN data.at : k # "ide_context" => at[k] = data.at[k]
  OBVIOUS
<1>3. ctx.kind = "object" /\ DOMAIN ctx.at = {"current_file"} /\ ctx.at["current_file"] = answer
  OBVIOUS
<1> HIDE DEF merged, at, ctx
<1>4. ctx \in Json
  BY <1>1, <1>2, JsonAssumption DEF IsTree, merged
<1>5. ~HidesKey(answer)
  BY LooksDeeper DEF HoldsKey, IsTree
<1>6. ~HidesKey(ctx)
  <2>1. ~HoldsKey(ctx)
    BY <1>3 DEF HoldsKey, ForbiddenKeys
  <2> QED BY <1>3, <1>4, <1>5, <2>1, LooksDeeper
<1>7. ASSUME HidesKey(merged) PROVE HidesKey(data)
  <2>1. HoldsKey(merged) \/ \E k \in DOMAIN at : HidesKey(at[k])
    BY <1>1, <1>7, LooksDeeper DEF merged
  <2>2. HoldsKey(merged) => HoldsKey(data)
    BY <1>1, <1>2 DEF HoldsKey, ForbiddenKeys
  <2>3. ASSUME NEW k \in DOMAIN at, HidesKey(at[k]) PROVE k \in DOMAIN data.at /\ HidesKey(data.at[k])
    BY <1>2, <1>6, <2>3
  <2> QED BY <2>1, <2>2, <2>3, LooksDeeper DEF IsTree
<1>8. ASSUME NEW k, k # "ide_context" PROVE Field(merged, k) = Field(data, k)
  BY <1>1, <1>2, <1>8 DEF Field
<1>9. Field(Field(merged, "ide_context"), "current_file") = answer
  <2>1. Field(merged, "ide_context") = ctx
    BY <1>1, <1>2 DEF Field
  <2> QED BY <1>3, <2>1 DEF Field
<1> QED BY <1>7, <1>8, <1>9 DEF merged

\* A chat that the agent has accepted: the server's outcome is decided by three of
\* its fields.
LEMMA GuardsLemma ==
  ASSUME NEW data \in Json
  PROVE  GuardsAgree(data) /\ (ValidateSubmit(data) => ~HidesKey(data))
<1> DEFINE message == Field(data, "message")
           about   == Field(data, "work_item_id")
           outcome == SubmitOutcome(data)
<1> SUFFICES ASSUME ValidateSubmit(data) PROVE GuardsAgree(data) /\ ~HidesKey(data)
  BY DEF GuardsAgree
<1>1. message.kind = "text" /\ ~HidesKey(data)
  BY LooksDeeper DEF ValidateSubmit
<1>2. data.kind = "object"
  BY <1>1 DEF Field
<1>3. Given("trim", message) <=> ~EmptyTo("trim", message)
  BY <1>1 DEF Given
<1>4. ~rejectSourceBody[data]
  BY <1>1, LooksDeeper
<1> HIDE DEF message, about
<1>5. outcome = IF EmptyTo("trim", message) THEN "INVALID_REQUEST"
            ELSE IF Given("isBlank", about) THEN resume(about)
            ELSE IF currentFile(data) THEN "Accepted" ELSE "NeedQuestion"
  BY <1>3, <1>4 DEF SubmitOutcome, message, about
<1>6. resume(about) \in {"Resumed", "NOT_FOUND"}
      /\ (resume(about) = "NOT_FOUND" <=> ~(about.kind = "text" /\ about.item))
  BY DEF resume
<1> HIDE DEF outcome
<1>7. /\ outcome = "INVALID_REQUEST" <=> EmptyTo("trim", message)
      /\ outcome = "NOT_FOUND" => Given("isBlank", about) /\ ~(about.kind = "text" /\ about.item)
      /\ outcome = "NeedQuestion" <=> /\ ~EmptyTo("trim", message) /\ ~Given("isBlank", about)
                                 /\ ~currentFile(data)
  BY <1>5, <1>6
<1>8. ASSUME outcome = "NeedQuestion", NEW answer \in Json, answer.kind = "text",
             Given("trim", answer), answer.newline = "none", Answered(data, answer) \in Json
      PROVE  SubmitOutcome(Answered(data, answer)) = "Accepted"
  <2> DEFINE merged == Answered(data, answer)
  <2>1. /\ ~HidesKey(merged) /\ Field(merged, "message") = message
        /\ Field(merged, "work_item_id") = about
        /\ Field(Field(merged, "ide_context"), "current_file") = answer
    BY <1>1, <1>2, <1>8, AnsweredIs DEF message, about
  <2>2. ~rejectSourceBody[merged]
    BY <1>8, <2>1, LooksDeeper
  <2>3. currentFile(merged)
    BY <1>8, <2>1 DEF currentFile
  <2>4. Given("trim", message) /\ ~Given("isBlank", about)
    BY <1>3, <1>7, <1>8
  <2> HIDE DEF merged
  <2>5. SubmitOutcome(merged) = "Accepted"
    BY <2>1, <2>2, <2>3, <2>4 DEF SubmitOutcome
  <2> QED BY <2>5 DEF merged
<1> QED BY <1>1, <1>7, <1>8 DEF GuardsAgree, outcome, message, about

-----------------------------------------------------------------------------
(* Test reports                                                            *)

LEMMA PlusType ==
  ASSUME NEW s \in Tallies, NEW c \in Tallies
  PROVE  Plus(s, c) \in Tallies
BY DEF Plus, Counts, Tallies

\* The partial sums that Sum goes through.
Sums(s, classes) ==
  /\ s \in [0..Len(classes) -> Tallies]
  /\ s[0] = NoCounts /\ \A n \in 1..Len(classes) : s[n] = Plus(s[n - 1], classes[n])

LEMMA SumIsLast ==
  ASSUME NEW classes \in Seq(Classes)
  PROVE  \E s : Sums(s, classes) /\ Sum(classes) = s[Len(classes)]
<1> DEFINE N == Len(classes)
           P(g) == g = [n \in 0..N |-> IF n = 0 THEN NoCounts ELSE Plus(g[n - 1], classes[n])]
           step == [n \in 1..N |-> [s \in Tallies |-> Plus(s, classes[n])]]
<1>1. Sum(classes) = (CHOOSE g : P(g))[N]
  BY DEF Sum
<1>2. N \in Nat /\ \A n \in 1..N : classes[n] \in Tallies
  BY DEF Classes
<1>3. NoCounts \in Tallies
  BY DEF NoCounts, Counts, Tallies
<1>4. step \in [1..N -> [Tallies -> Tallies]]
  BY <1>2, PlusType
<1>5. PICK f \in [0..N -> Tallies] : f[0] = NoCounts /\ \A n \in 1..N : f[n] = step[n][f[n - 1]]
  <2>1. N \in Nat
    BY <1>2
  <2> HIDE DEF step, N
  <2> QED BY <2>1, <1>3, <1>4, Recursion
<1>6. \A n \in 1..N : f[n] = Plus(f[n - 1], classes[n])
  BY <1>2, <1>5
<1> HIDE DEF N, step
<1>7. P(f)
  <2> DEFINE g == [n \in 0..N |-> IF n = 0 THEN NoCounts ELSE Plus(f[n - 1], classes[n])]
  <2>1. ASSUME NEW n \in 0..N PROVE f[n] = g[n]
    BY <1>2, <1>5, <1>6
  <2> QED BY <2>1
<1> HIDE DEF P
<1>8. P(CHOOSE g : P(g))
  BY <1>7
<1>9. PICK g : P(g) /\ g = CHOOSE h : P(h)
  BY <1>8
<1>10. /\ g = [n \in 0..N |-> IF n = 0 THEN NoCounts ELSE Plus(g[n - 1], classes[n])]
       /\ g[0] = NoCounts /\ \A n \in 1..N : g[n] = Plus(g[n - 1], classes[n])
  BY <1>2, <1>9 DEF P
<1> DEFINE S == {n \in Nat : n <= N => g[n] \in Tallies}
<1>11. 0 \in S
  BY <1>3, <1>10
<1>12. ASSUME NEW n \in S PROVE n + 1 \in S
  <2> SUFFICES ASSUME n + 1 <= N PROVE g[n + 1] \in Tallies
    OBVIOUS
  <2>1. g[n] \in Tallies /\ n + 1 \in 1..N /\ (n + 1) - 1 = n
    BY <1>2
  <2> QED BY <1>2, <1>10, <2>1, PlusType
<1>13. S = Nat
  <2> S \in SUBSET Nat
    OBVIOUS
  <2> HIDE DEF S
  <2> QED BY <1>11, <1>12, Induction
<1>14. g \in [0..N -> Tallies]
  <2>1. ASSUME NEW n \in 0..N PROVE g[n] \in Tallies
    <3>1. n \in S /\ n <= N
      BY <1>2, <1>13
    <3> QED BY <3>1
  <2>2. DOMAIN g = 0..N /\ g = [n \in DOMAIN g |-> g[n]]
    BY <1>10
  <2> QED BY <2>1, <2>2
<1> QED BY <1>1, <1>9, <1>10, <1>14 DEF Sums, N

LEMMA SumOfNone == Sum(<<>>) = NoCounts
<1> DEFINE none == <<>>
<1>1. none \in Seq(Classes) /\ Len(none) = 0
  OBVIOUS
<1> HIDE DEF none
<1>2. PICK s : Sums(s, none) /\ Sum(none) = s[Len(none)]
  BY <1>1, SumIsLast
<1>3. Sum(none) = NoCounts
  BY <1>1, <1>2 DEF Sums
<1> QED BY <1>3 DEF none

\* The sum of one class is that class, and no class failed more than all of them.
LEMMA SumOfFirst ==
  ASSUME NEW classes \in Seq(Classes), classes # <<>>
  PROVE  /\ classes[1] \in Classes /\ Sum(classes) \in Tallies
         /\ Sum(classes).failures >= classes[1].failures
         /\ Sum(classes).errors >= classes[1].errors
         /\ Len(classes) = 1 => Sum(classes) = classes[1]
<1>1. PICK s : Sums(s, classes) /\ Sum(classes) = s[Len(classes)]
  BY SumIsLast
<1> DEFINE N == Len(classes)
<1>2. N \in Nat /\ N >= 1 /\ \A n \in 1..N : classes[n] \in Classes /\ classes[n] \in Tallies
  BY DEF Classes
<1>3. s \in [0..N -> Tallies] /\ s[0] = NoCounts
  BY <1>1 DEF Sums
<1>4. \A n \in 1..N : s[n] = Plus(s[n - 1], classes[n])
  BY <1>1 DEF Sums
<1> HIDE DEF N
<1>5. s[1] = classes[1]
  <2>1. s[1] = Plus(NoCounts, classes[1]) /\ classes[1] \in Tallies
    BY <1>2, <1>3, <1>4
  <2> QED BY <2>1 DEF Plus, NoCounts, Counts, Tallies
<1> DEFINE atLeast(n) == s[n].failures >= classes[1].failures /\ s[n].errors >= classes[1].errors
           S == {n \in Nat : n + 1 <= N => atLeast(n + 1)}
<1>6. 0 \in S
  <2>1. s[1].failures \in Nat /\ s[1].errors \in Nat
    BY <1>2, <1>3 DEF Tallies
  <2> QED BY <1>5, <2>1
<1>7. ASSUME NEW n \in S PROVE n + 1 \in S
  <2> SUFFICES ASSUME n + 2 <= N PROVE atLeast(n + 2)
    OBVIOUS
  <2>1. atLeast(n + 1)
    BY <1>2
  <2>2. s[n + 2] = Plus(s[n + 1], classes[n + 2])
    <3>1. n + 2 \in 1..N /\ (n + 2) - 1 = n + 1
      BY <1>2
    <3> QED BY <1>4, <3>1
  <2>3. s[n + 1] \in Tallies /\ classes[n + 2] \in Tallies /\ classes[1] \in Tallies
    <3>1. n + 1 \in 0..N /\ n + 2 \in 1..N /\ 1 \in 1..N
      BY <1>2
    <3> QED BY <1>2, <1>3, <3>1
  <2>4. /\ s[n + 2].failures = s[n + 1].failures + classes[n + 2].failures
        /\ s[n + 2].errors = s[n + 1].errors + classes[n + 2].errors
    BY <2>2 DEF Plus, Counts
  <2>5. /\ s[n + 1].failures \in Nat /\ classes[n + 2].failures \in Nat /\ classes[1].failures \in Nat
        /\ s[n + 1].errors \in Nat /\ classes[n + 2].errors \in Nat /\ classes[1].errors \in Nat
    BY <2>3 DEF Tallies
  <2> QED BY <2>1, <2>4, <2>5
<1>8. S = Nat
  <2> S \in SUBSET Nat
    OBVIOUS
  <2> HIDE DEF S
  <2> QED BY <1>6, <1>7, Induction
<1>9. atLeast(N)
  <2>1. N - 1 \in Nat /\ (N - 1) + 1 = N
    BY <1>2
  <2>2. N - 1 \in S
    BY <1>8, <2>1
  <2>3. (N - 1) + 1 <= N => atLeast((N - 1) + 1)
    BY <2>2
  <2> HIDE DEF atLeast
  <2> QED BY <1>2, <2>1, <2>3
<1>10. s[N] \in Tallies /\ classes[1] \in Classes
  <2>1. N \in 0..N /\ 1 \in 1..N
    BY <1>2
  <2> QED BY <1>2, <1>3, <2>1
<1> QED BY <1>1, <1>5, <1>9, <1>10 DEF N

LEMMA ReportLemma ==
  ASSUME NEW classes \in Seq(Classes), NEW opts, opts.compiles \in BOOLEAN, opts.ignore \in BOOLEAN
  PROVE  ReportIsTrue(classes, opts, TestResult(Log(classes), ExitCode(classes, opts)))
<1>1. CASE classes = <<>>
  <2>1. Sum(classes) = NoCounts /\ ~Broken(classes) /\ parseSurefire(Log(classes)) = NoCounts
    BY <1>1, SumOfNone DEF Broken, parseSurefire, Log, NoCounts, Counts
  <2>2. TestResult(Log(classes), ExitCode(classes, opts)) =
          [total |-> 0, failed |-> 0, skipped |-> 0, passed |-> 0,
           status |-> IF ExitCode(classes, opts) # 0 THEN "FAILED" ELSE "SUCCESS"]
    BY <2>1 DEF TestResult, NoCounts, Counts
  <2>3. ExitCode(classes, opts) = IF opts.compiles THEN 0 ELSE 1
    BY <2>1 DEF ExitCode
  <2>4. Len(classes) # 1
    BY <1>1
  <2> QED BY <2>1, <2>2, <2>3, <2>4 DEF ReportIsTrue
<1>2. CASE classes # <<>>
  <2> DEFINE c == classes[1]
             sum == Sum(classes)
  <2>1. c \in Classes /\ sum \in Tallies /\ sum.failures >= c.failures /\ sum.errors >= c.errors
    BY <1>2, SumOfFirst
  <2>2. Len(classes) = 1 => sum = c
    BY <1>2, SumOfFirst
  <2>3. Broken(<<c>>) <=> c.failures + c.errors > 0
    <3>1. <<c>> \in Seq(Classes) /\ <<c>> # <<>> /\ Len(<<c>>) = 1 /\ <<c>>[1] = c
      BY <2>1
    <3>2. Sum(<<c>>) = c
      <4> HIDE DEF c
      <4> DEFINE one == <<c>>
      <4>1. one \in Seq(Classes) /\ one # <<>> /\ Len(one) = 1 /\ one[1] = c
        BY <3>1
      <4> HIDE DEF one
      <4>2. Sum(one) = c
        BY <4>1, SumOfFirst
      <4> QED BY <4>2 DEF one
    <3> QED BY <3>2 DEF Broken
  <2>4. parseSurefire(Log(classes)) = c
    BY <1>2 DEF parseSurefire, Log
  <2>5. Broken(classes) <=> sum.failures + sum.errors > 0
    BY DEF Broken
  <2>6. /\ c.run \in Nat /\ c.failures \in Nat /\ c.errors \in Nat /\ c.skipped \in Nat
        /\ c.failures + c.errors + c.skipped <= c.run
    BY <2>1 DEF Classes, Tallies
  <2>7. sum.failures \in Nat /\ sum.errors \in Nat
    BY <2>1 DEF Tallies
  <2>8. ExitCode(classes, opts) # 0 <=> ~(opts.compiles /\ (opts.ignore \/ ~Broken(classes)))
    BY DEF ExitCode
  <2> DEFINE res == TestResult(Log(classes), ExitCode(classes, opts))
  <2>9. /\ res.total = c.run /\ res.failed = c.failures + c.errors /\ res.skipped = c.skipped
        /\ res.passed = c.run - (c.failures + c.errors + c.skipped)
        /\ res.status = IF ExitCode(classes, opts) # 0 \/ c.failures + c.errors > 0
                        THEN "FAILED" ELSE "SUCCESS"
    <3> HIDE DEF c
    <3> QED BY <2>4, <2>6 DEF TestResult
  <2> HIDE DEF res, sum, c
  <2>10. res.status = "SUCCESS" => ~Broken(classes) \/ (opts.ignore /\ ~Broken(<<c>>))
    BY <2>3, <2>8, <2>9
  <2>11. res.status = "FAILED" => Broken(classes) \/ ~opts.compiles
    BY <2>1, <2>5, <2>6, <2>7, <2>8, <2>9
  <2>12. res.passed + res.failed + res.skipped = res.total
    BY <2>6, <2>9
  <2>13. Len(classes) = 1 => res.total = sum.run /\ res.failed = sum.failures + sum.errors
    BY <2>2, <2>9
  <2>14. res.failed > 0 => Broken(classes) /\ res.status = "FAILED"
    BY <2>1, <2>5, <2>6, <2>7, <2>9
  <2> QED BY <2>10, <2>11, <2>12, <2>13, <2>14 DEF ReportIsTrue, res, sum, c
<1> QED BY <1>1, <1>2

-----------------------------------------------------------------------------
(* The status of git                                                       *)

NoDup(q) == \A i, j \in 1..Len(q) : q[i] = q[j] => i = j

LEMMA CountOnce ==
  ASSUME NEW q \in Seq(Nat), NoDup(q)
  PROVE  Cardinality(ToSet(q)) = Len(q)
<1>1. q \in [1..Len(q) -> ToSet(q)] /\ Len(q) \in Nat /\ DOMAIN q = 1..Len(q)
  BY DEF ToSet
<1>2. q \in Bijection(1..Len(q), ToSet(q))
  BY <1>1 DEF Bijection, Injection, Surjection, IsInjective, NoDup, ToSet
<1> QED BY <1>1, <1>2, FS_CountingElements DEF ExistsBijection

LEMMA AddToFacts ==
  ASSUME NEW q \in Seq(Nat), NoDup(q), NEW p \in Nat
  PROVE  /\ AddTo(q, p, TRUE) \in Seq(Nat) /\ NoDup(AddTo(q, p, TRUE))
         /\ ToSet(AddTo(q, p, TRUE)) = ToSet(q) \cup {p}
<1> DEFINE r == Append(q, p)
<1>1. r \in Seq(Nat) /\ Len(r) = Len(q) + 1 /\ r[Len(q) + 1] = p /\ \A i \in 1..Len(q) : r[i] = q[i]
  OBVIOUS
<1>2. Len(q) \in Nat /\ DOMAIN q = 1..Len(q) /\ DOMAIN r = 1..Len(r)
  BY <1>1
<1> HIDE DEF r
<1>3. CASE ~Contains(q, p)
  <2>1. AddTo(q, p, TRUE) = r
    BY <1>3 DEF AddTo, r
  <2>2. \A i \in 1..Len(q) : q[i] # p
    BY <1>3 DEF Contains
  <2>3. NoDup(r)
    <3> SUFFICES ASSUME NEW i \in 1..Len(r), NEW j \in 1..Len(r), r[i] = r[j] PROVE i = j
      BY DEF NoDup
    <3>1. CASE i \in 1..Len(q) /\ j \in 1..Len(q)
      BY <1>1, <3>1 DEF NoDup
    <3>2. CASE i \in 1..Len(q) /\ j = Len(q) + 1
      BY <1>1, <2>2, <3>2
    <3>3. CASE i = Len(q) + 1 /\ j \in 1..Len(q)
      BY <1>1, <2>2, <3>3
    <3>4. /\ i \in 1..Len(q) \/ i = Len(q) + 1
          /\ j \in 1..Len(q) \/ j = Len(q) + 1
      BY <1>1, <1>2
    <3> QED BY <3>1, <3>2, <3>3, <3>4
  <2>4. ToSet(r) = ToSet(q) \cup {p}
    <3>1. 1..Len(r) = 1..Len(q) \cup {Len(q) + 1}
      BY <1>1, <1>2
    <3> QED BY <1>1, <1>2, <3>1 DEF ToSet
  <2> QED BY <1>1, <1>3, <2>1, <2>3, <2>4
<1>4. CASE Contains(q, p)
  <2>1. AddTo(q, p, TRUE) = q
    BY <1>4 DEF AddTo
  <2>2. p \in ToSet(q)
    BY <1>2, <1>4 DEF Contains, ToSet
  <2> QED BY <2>1, <2>2
<1> QED BY <1>3, <1>4

Lists == [changed : Seq(Nat), staged : Seq(Nat), untracked : Seq(Nat)]

\* The paths of the first n lines that are in a list.
PathsOf(lines, n, of) ==
  {lines[i].path : i \in {j \in 1..n :
     CASE of = "untracked" -> lines[j].x = "?"
       [] of = "staged"    -> lines[j].x \in Changes
       [] of = "changed"   -> lines[j].y \in Changes}}

\* What the lists are after n lines.
ListsAfter(lines, n, lists) ==
  /\ lists \in Lists
  /\ \A k \in {"untracked", "staged", "changed"} :
       NoDup(lists[k]) /\ ToSet(lists[k]) = PathsOf(lines, n, k)

LEMMA OneMoreLine ==
  ASSUME NEW lines \in Seq(StatusLines), NEW n \in 1..Len(lines), NEW old,
         ListsAfter(lines, n - 1, old)
  PROVE  ListsAfter(lines, n, Listed(old, lines[n]))
<1> DEFINE l == lines[n]
<1>1. l \in StatusLines
  OBVIOUS
<1>2. l.path \in Nat /\ (l.x = "?" <=> l.y = "?")
  BY <1>1 DEF StatusLines
<1>3. (l.x \in Changes <=> l.x \notin {" ", "?"}) /\ (l.y \in Changes <=> l.y \notin {" ", "?"})
  BY <1>1 DEF StatusLines, Changes
<1>4. 1..n = 1..(n - 1) \cup {n}
  OBVIOUS
<1>5. /\ PathsOf(lines, n, "untracked") =
           PathsOf(lines, n - 1, "untracked") \cup (IF l.x = "?" THEN {l.path} ELSE {})
      /\ PathsOf(lines, n, "staged") =
           PathsOf(lines, n - 1, "staged") \cup (IF l.x \in Changes THEN {l.path} ELSE {})
      /\ PathsOf(lines, n, "changed") =
           PathsOf(lines, n - 1, "changed") \cup (IF l.y \in Changes THEN {l.path} ELSE {})
  <2>1. PathsOf(lines, n, "untracked") =
           PathsOf(lines, n - 1, "untracked") \cup (IF l.x = "?" THEN {l.path} ELSE {})
    BY <1>4 DEF PathsOf
  <2>2. PathsOf(lines, n, "staged") =
           PathsOf(lines, n - 1, "staged") \cup (IF l.x \in Changes THEN {l.path} ELSE {})
    BY <1>4 DEF PathsOf
  <2>3. PathsOf(lines, n, "changed") =
           PathsOf(lines, n - 1, "changed") \cup (IF l.y \in Changes THEN {l.path} ELSE {})
    BY <1>4 DEF PathsOf
  <2> QED BY <2>1, <2>2, <2>3
<1> DEFINE new == Listed(old, l)
           unknown == l.x = "?" /\ l.y = "?"
<1>6. /\ new.untracked = AddTo(old.untracked, l.path, unknown)
      /\ new.staged = AddTo(old.staged, l.path, ~unknown /\ l.x \notin {" ", "?"})
      /\ new.changed = AddTo(old.changed, l.path, ~unknown /\ l.y \notin {" ", "?"})
      /\ new = [untracked |-> new.untracked, staged |-> new.staged, changed |-> new.changed]
  BY DEF Listed
<1>7. /\ old.untracked \in Seq(Nat) /\ old.staged \in Seq(Nat) /\ old.changed \in Seq(Nat)
      /\ NoDup(old.untracked) /\ NoDup(old.staged) /\ NoDup(old.changed)
      /\ ToSet(old.untracked) = PathsOf(lines, n - 1, "untracked")
      /\ ToSet(old.staged) = PathsOf(lines, n - 1, "staged")
      /\ ToSet(old.changed) = PathsOf(lines, n - 1, "changed")
  BY DEF ListsAfter, Lists
<1> HIDE DEF new, l
<1>8. (~unknown /\ l.x \notin {" ", "?"} <=> l.x \in Changes) /\ (~unknown /\ l.y \notin {" ", "?"} <=> l.y \in Changes)
  BY <1>2, <1>3
<1>9. new.untracked \in Seq(Nat) /\ NoDup(new.untracked) /\ ToSet(new.untracked) = PathsOf(lines, n, "untracked")
  <2>1. CASE l.x = "?"
    <3>1. new.untracked = AddTo(old.untracked, l.path, TRUE)
      BY <1>2, <1>6, <1>8, <2>1 DEF AddTo
    <3>2. /\ new.untracked \in Seq(Nat) /\ NoDup(new.untracked)
          /\ ToSet(new.untracked) = ToSet(old.untracked) \cup {l.path}
      BY <1>2, <1>7, <3>1, AddToFacts
    <3> QED BY <1>5, <1>7, <2>1, <3>2
  <2>2. CASE ~(l.x = "?")
    <3>1. new.untracked = old.untracked
      BY <1>2, <1>6, <1>8, <2>2 DEF AddTo
    <3> QED BY <1>5, <1>7, <2>2, <3>1
  <2> QED BY <2>1, <2>2
<1>10. new.staged \in Seq(Nat) /\ NoDup(new.staged) /\ ToSet(new.staged) = PathsOf(lines, n, "staged")
  <2>1. CASE l.x \in Changes
    <3>1. new.staged = AddTo(old.staged, l.path, TRUE)
      BY <1>2, <1>6, <1>8, <2>1 DEF AddTo
    <3>2. /\ new.staged \in Seq(Nat) /\ NoDup(new.staged)
          /\ ToSet(new.staged) = ToSet(old.staged) \cup {l.path}
      BY <1>2, <1>7, <3>1, AddToFacts
    <3> QED BY <1>5, <1>7, <2>1, <3>2
  <2>2. CASE ~(l.x \in Changes)
    <3>1. new.staged = old.staged
      BY <1>2, <1>6, <1>8, <2>2 DEF AddTo
    <3> QED BY <1>5, <1>7, <2>2, <3>1
  <2> QED BY <2>1, <2>2
<1>11. new.changed \in Seq(Nat) /\ NoDup(new.changed) /\ ToSet(new.changed) = PathsOf(lines, n, "changed")
  <2>1. CASE l.y \in Changes
    <3>1. new.changed = AddTo(old.changed, l.path, TRUE)
      BY <1>2, <1>6, <1>8, <2>1 DEF AddTo
    <3>2. /\ new.changed \in Seq(Nat) /\ NoDup(new.changed)
          /\ ToSet(new.changed) = ToSet(old.changed) \cup {l.path}
      BY <1>2, <1>7, <3>1, AddToFacts
    <3> QED BY <1>5, <1>7, <2>1, <3>2
  <2>2. CASE ~(l.y \in Changes)
    <3>1. new.changed = old.changed
      BY <1>2, <1>6, <1>8, <2>2 DEF AddTo
    <3> QED BY <1>5, <1>7, <2>2, <3>1
  <2> QED BY <2>1, <2>2
<1>12. new \in Lists
  BY <1>6, <1>9, <1>10, <1>11 DEF Lists
<1> QED BY <1>9, <1>10, <1>11, <1>12 DEF ListsAfter, new, l

LEMMA ListsAtEnd ==
  ASSUME NEW lines \in Seq(StatusLines)
  PROVE  ListsAfter(lines, Len(lines), parsePorcelain(lines))
<1> DEFINE N == Len(lines)
           P(g) == g = [n \in 0..N |-> IF n = 0 THEN NoFiles ELSE Listed(g[n - 1], lines[n])]
           step == [n \in 1..N |-> [s \in Lists |-> Listed(s, lines[n])]]
<1>1. parsePorcelain(lines) = (CHOOSE g : P(g))[N]
  BY DEF parsePorcelain
<1>2. N \in Nat
  OBVIOUS
<1>3. NoFiles \in Lists /\ ListsAfter(lines, 0, NoFiles)
  <2>1. NoFiles \in Lists
    BY DEF NoFiles, Lists
  <2>2. \A k \in {"untracked", "staged", "changed"} : NoFiles[k] = <<>> /\ PathsOf(lines, 0, k) = {}
    BY DEF NoFiles, PathsOf
  <2>3. NoDup(<<>>) /\ ToSet(<<>>) = {}
    BY DEF NoDup, ToSet
  <2> QED BY <2>1, <2>2, <2>3 DEF ListsAfter
<1>4. \A n \in 1..N : lines[n] \in StatusLines
  OBVIOUS
<1>5. ASSUME NEW s \in Lists, NEW l \in StatusLines PROVE Listed(s, l) \in Lists
  <2>1. ASSUME NEW q \in Seq(Nat), NEW yes PROVE AddTo(q, l.path, yes) \in Seq(Nat)
    <3>1. l.path \in Nat
      BY DEF StatusLines
    <3> QED BY <3>1 DEF AddTo
  <2>2. s.untracked \in Seq(Nat) /\ s.staged \in Seq(Nat) /\ s.changed \in Seq(Nat)
    BY DEF Lists
  <2>3. AddTo(s.untracked, l.path, l.x = "?" /\ l.y = "?") \in Seq(Nat)
    BY <2>1, <2>2, Zenon
  <2>4. AddTo(s.staged, l.path, ~(l.x = "?" /\ l.y = "?") /\ l.x \notin {" ", "?"}) \in Seq(Nat)
    BY <2>1, <2>2, Zenon
  <2>5. AddTo(s.changed, l.path, ~(l.x = "?" /\ l.y = "?") /\ l.y \notin {" ", "?"}) \in Seq(Nat)
    BY <2>1, <2>2, Zenon
  <2> QED BY <2>3, <2>4, <2>5 DEF Listed, Lists
<1>6. step \in [1..N -> [Lists -> Lists]]
  BY <1>4, <1>5
<1>7. PICK f \in [0..N -> Lists] : f[0] = NoFiles /\ \A n \in 1..N : f[n] = step[n][f[n - 1]]
  <2>1. NoFiles \in Lists
    BY <1>3
  <2> HIDE DEF step, N
  <2> QED BY <1>2, <2>1, <1>6, Recursion
<1>8. ASSUME NEW n \in 1..N PROVE f[n] = Listed(f[n - 1], lines[n])
  <2>1. f[n - 1] \in Lists
    <3>1. n - 1 \in 0..N
      BY <1>2
    <3> QED BY <1>7, <3>1
  <2>2. step[n][f[n - 1]] = Listed(f[n - 1], lines[n])
    BY <2>1
  <2> QED BY <1>7, <2>2
<1> HIDE DEF N, step
<1>9. P(f)
  <2> DEFINE g == [n \in 0..N |-> IF n = 0 THEN NoFiles ELSE Listed(f[n - 1], lines[n])]
  <2>1. ASSUME NEW n \in 0..N PROVE f[n] = g[n]
    BY <1>2, <1>7, <1>8
  <2> QED BY <2>1, <1>7
<1> HIDE DEF P
<1>10. PICK g : P(g) /\ g = CHOOSE h : P(h)
  BY <1>9
<1>11. g[0] = NoFiles /\ \A n \in 1..N : g[n] = Listed(g[n - 1], lines[n])
  BY <1>2, <1>10 DEF P
<1> DEFINE S == {n \in Nat : n <= N => ListsAfter(lines, n, g[n])}
<1>12. 0 \in S
  BY <1>3, <1>11
<1>13. ASSUME NEW n \in S PROVE n + 1 \in S
  <2> SUFFICES ASSUME n + 1 <= N PROVE ListsAfter(lines, n + 1, g[n + 1])
    OBVIOUS
  <2>1. ListsAfter(lines, n, g[n]) /\ n + 1 \in 1..N /\ (n + 1) - 1 = n
    BY <1>2
  <2>2. g[n + 1] = Listed(g[n], lines[n + 1])
    BY <1>11, <2>1
  <2>3. n + 1 \in 1..Len(lines) /\ ListsAfter(lines, (n + 1) - 1, g[n])
    BY <2>1 DEF N
  <2> QED BY <2>2, <2>3, OneMoreLine
<1>14. S = Nat
  <2> S \in SUBSET Nat
    OBVIOUS
  <2> HIDE DEF S
  <2> QED BY <1>12, <1>13, Induction
<1>15. ListsAfter(lines, N, g[N])
  <2>1. N \in S
    BY <1>2, <1>14
  <2> QED BY <1>2, <2>1
<1> QED BY <1>1, <1>10, <1>15 DEF N

LEMMA StatusLemma ==
  ASSUME NEW lines \in Seq(StatusLines)
  PROVE  StatusIsTrue(lines, parsePorcelain(lines))
<1> DEFINE res == parsePorcelain(lines)
           N == Len(lines)
<1>1. ListsAfter(lines, N, res)
  BY ListsAtEnd
<1>2. ToSet(lines) = {lines[i] : i \in 1..N}
  BY DEF ToSet
<1>3. /\ PathsOf(lines, N, "untracked") = {l.path : l \in {m \in ToSet(lines) : m.x = "?"}}
      /\ PathsOf(lines, N, "staged") = {l.path : l \in {m \in ToSet(lines) : m.x \in Changes}}
      /\ PathsOf(lines, N, "changed") = {l.path : l \in {m \in ToSet(lines) : m.y \in Changes}}
  <2>1. PathsOf(lines, N, "untracked") = {l.path : l \in {m \in ToSet(lines) : m.x = "?"}}
    BY <1>2 DEF PathsOf
  <2>2. PathsOf(lines, N, "staged") = {l.path : l \in {m \in ToSet(lines) : m.x \in Changes}}
    BY <1>2 DEF PathsOf
  <2>3. PathsOf(lines, N, "changed") = {l.path : l \in {m \in ToSet(lines) : m.y \in Changes}}
    BY <1>2 DEF PathsOf
  <2> QED BY <2>1, <2>2, <2>3
<1> HIDE DEF res
<1>4. DOMAIN res = {"untracked", "staged", "changed"} /\ res \in Lists
  BY <1>1 DEF ListsAfter, Lists
<1>5. ASSUME NEW k \in DOMAIN res PROVE Cardinality(ToSet(res[k])) = Len(res[k])
  <2>1. res[k] \in Seq(Nat) /\ NoDup(res[k])
    BY <1>1, <1>4 DEF ListsAfter, Lists
  <2> QED BY <2>1, CountOnce
<1>6. /\ ToSet(res.untracked) = PathsOf(lines, N, "untracked")
      /\ ToSet(res.staged) = PathsOf(lines, N, "staged")
      /\ ToSet(res.changed) = PathsOf(lines, N, "changed")
  BY <1>1 DEF ListsAfter
<1>7. StatusIsTrue(lines, res)
  BY <1>3, <1>5, <1>6 DEF StatusIsTrue
<1> QED BY <1>7 DEF res

-----------------------------------------------------------------------------
(* Paths.  In a file system, a lookup ends at the first place of a path    *)
(* where there is nothing or a link; hops over links only change what is   *)
(* before, so that the names after a prefix do not matter until the lookup *)
(* of the prefix has ended.                                                *)

\* There is something at p that is no link.
Here(fs, p) == p \in DOMAIN fs /\ fs[p].kind # "link"

Upto(p, n) == SubSeq(p, 1, n)
Past(p, n) == SubSeq(p, n + 1, Len(p))

LEMMA Cut ==
  ASSUME NEW X, NEW p \in Seq(X), NEW n \in 0..Len(p)
  PROVE  /\ Upto(p, n) \in Seq(X) /\ Len(Upto(p, n)) = n /\ \A i \in 1..n : Upto(p, n)[i] = p[i]
         /\ Past(p, n) \in Seq(X) /\ Len(Past(p, n)) = Len(p) - n
         /\ \A i \in 1..(Len(p) - n) : Past(p, n)[i] = p[n + i]
<1>1. Len(p) \in Nat /\ \A i \in 1..Len(p) : p[i] \in X
  OBVIOUS
<1>2. Upto(p, n) = [i \in 1..n |-> p[i]]
  BY <1>1 DEF Upto
<1>3. Past(p, n) = [i \in 1..(Len(p) - n) |-> p[n + i]]
  <2>1. Past(p, n) = [i \in 1..((Len(p) - (n + 1)) + 1) |-> p[((n + 1) + i) - 1]]
    BY <1>1 DEF Past
  <2>2. (Len(p) - (n + 1)) + 1 = Len(p) - n /\ \A i \in 1..(Len(p) - n) : ((n + 1) + i) - 1 = n + i
    BY <1>1
  <2> QED BY <2>1, <2>2
<1> HIDE DEF Upto, Past
<1>4. Upto(p, n) \in Seq(X) /\ Len(Upto(p, n)) = n
  BY <1>1, <1>2
<1>5. Past(p, n) \in Seq(X) /\ Len(Past(p, n)) = Len(p) - n
  <2>1. Len(p) - n \in Nat /\ \A i \in 1..(Len(p) - n) : p[n + i] \in X
    BY <1>1
  <2> QED BY <1>3, <2>1
<1> QED BY <1>1, <1>2, <1>3, <1>4, <1>5

LEMMA SameSeq ==
  ASSUME NEW X, NEW p \in Seq(X), NEW q \in Seq(X), Len(p) = Len(q), \A i \in 1..Len(p) : p[i] = q[i]
  PROVE  p = q
OBVIOUS

LEMMA Joined ==
  ASSUME NEW X, NEW r \in Seq(X), NEW s \in Seq(X)
  PROVE  /\ r \o s \in Seq(X) /\ Len(r \o s) = Len(r) + Len(s) /\ Len(r) \in Nat /\ Len(s) \in Nat
         /\ \A j \in 1..(Len(r) + Len(s)) : (r \o s)[j] = IF j <= Len(r) THEN r[j] ELSE s[j - Len(r)]
OBVIOUS

LEMMA Assoc ==
  ASSUME NEW X, NEW a \in Seq(X), NEW b \in Seq(X), NEW c \in Seq(X)
  PROVE  a \o (b \o c) = (a \o b) \o c
<1> DEFINE bc == b \o c
           ab == a \o b
           l  == a \o bc
           r  == ab \o c
<1>1. /\ bc \in Seq(X) /\ Len(bc) = Len(b) + Len(c)
      /\ \A j \in 1..(Len(b) + Len(c)) : bc[j] = IF j <= Len(b) THEN b[j] ELSE c[j - Len(b)]
  BY Joined
<1>2. /\ ab \in Seq(X) /\ Len(ab) = Len(a) + Len(b)
      /\ \A j \in 1..(Len(a) + Len(b)) : ab[j] = IF j <= Len(a) THEN a[j] ELSE b[j - Len(a)]
  BY Joined
<1> HIDE DEF bc, ab
<1>3. /\ l \in Seq(X) /\ Len(l) = Len(a) + Len(bc)
      /\ \A j \in 1..(Len(a) + Len(bc)) : l[j] = IF j <= Len(a) THEN a[j] ELSE bc[j - Len(a)]
  <2>1. bc \in Seq(X)
    BY <1>1
  <2> QED BY <2>1, Joined
<1>4. /\ r \in Seq(X) /\ Len(r) = Len(ab) + Len(c)
      /\ \A j \in 1..(Len(ab) + Len(c)) : r[j] = IF j <= Len(ab) THEN ab[j] ELSE c[j - Len(ab)]
  <2>1. ab \in Seq(X)
    BY <1>2
  <2> QED BY <2>1, Joined
<1>5. Len(a) \in Nat /\ Len(b) \in Nat /\ Len(c) \in Nat
  OBVIOUS
<1> HIDE DEF l, r
<1>6. ASSUME NEW j \in 1..Len(l) PROVE l[j] = r[j]
  <2>1. j \in 1..(Len(a) + Len(bc)) /\ j \in 1..(Len(ab) + Len(c))
    BY <1>1, <1>2, <1>3, <1>5
  <2>2. CASE j <= Len(a)
    <3>1. l[j] = a[j]
      BY <1>3, <2>1, <2>2
    <3>2. j <= Len(ab) /\ j \in 1..(Len(a) + Len(b))
      BY <1>2, <1>5, <2>1, <2>2
    <3>3. r[j] = ab[j]
      BY <1>4, <2>1, <3>2
    <3> QED BY <1>2, <2>2, <3>1, <3>2, <3>3
  <2>3. CASE j > Len(a) /\ j <= Len(a) + Len(b)
    <3>1. l[j] = bc[j - Len(a)] /\ r[j] = ab[j]
      BY <1>1, <1>2, <1>3, <1>4, <1>5, <2>1, <2>3
    <3>2. j - Len(a) \in 1..(Len(b) + Len(c)) /\ j - Len(a) <= Len(b) /\ j \in 1..(Len(a) + Len(b))
      BY <1>5, <2>3
    <3>3. bc[j - Len(a)] = b[j - Len(a)]
      BY <1>1, <3>2
    <3>4. ab[j] = b[j - Len(a)]
      BY <1>2, <1>5, <2>3, <3>2
    <3> QED BY <3>1, <3>3, <3>4
  <2>4. CASE j > Len(a) + Len(b)
    <3>1. l[j] = bc[j - Len(a)] /\ r[j] = c[j - Len(ab)]
      BY <1>1, <1>2, <1>3, <1>4, <1>5, <2>1, <2>4
    <3>2. bc[j - Len(a)] = c[(j - Len(a)) - Len(b)]
      <4>1. j - Len(a) \in 1..(Len(b) + Len(c)) /\ ~(j - Len(a) <= Len(b))
        BY <1>1, <1>5, <2>1, <2>4
      <4> QED BY <1>1, <4>1
    <3>3. (j - Len(a)) - Len(b) = j - Len(ab)
      BY <1>2, <1>5
    <3> QED BY <3>1, <3>2, <3>3
  <2> QED BY <1>5, <2>2, <2>3, <2>4
<1>7. l = r
  <2>1. l \in Seq(X) /\ r \in Seq(X)
    BY <1>3, <1>4
  <2>2. Len(l) = Len(r)
    BY <1>1, <1>2, <1>3, <1>4, <1>5
  <2> QED BY <1>6, <2>1, <2>2, SameSeq
<1> QED BY <1>7 DEF l, r, bc, ab

LEMMA CutJoins ==
  ASSUME NEW X, NEW p \in Seq(X), NEW n \in 0..Len(p)
  PROVE  p = Upto(p, n) \o Past(p, n)
<1> DEFINE q == Upto(p, n) \o Past(p, n)
<1>1. /\ Upto(p, n) \in Seq(X) /\ Len(Upto(p, n)) = n /\ (\A i \in 1..n : Upto(p, n)[i] = p[i])
      /\ Past(p, n) \in Seq(X) /\ Len(Past(p, n)) = Len(p) - n
      /\ (\A i \in 1..(Len(p) - n) : Past(p, n)[i] = p[n + i])
  BY Cut
<1> HIDE DEF Upto, Past
<1>2. q \in Seq(X) /\ Len(q) = Len(p) /\ Len(p) \in Nat
  <2>1. Len(p) \in Nat
    OBVIOUS
  <2>2. q \in Seq(X) /\ Len(q) = Len(Upto(p, n)) + Len(Past(p, n))
    BY <1>1, Joined
  <2> QED BY <1>1, <2>1, <2>2
<1>3. ASSUME NEW i \in 1..Len(p) PROVE p[i] = q[i]
  <2>1. CASE i <= n
    BY <1>1, <2>1
  <2>2. CASE i > n
    <3>1. i - n \in 1..(Len(p) - n) /\ n + (i - n) = i
      BY <1>2, <2>2
    <3>2. q[i] = Past(p, n)[i - n]
      BY <1>1, <1>2, <2>2
    <3> QED BY <1>1, <3>1, <3>2
  <2> QED BY <1>2, <2>1, <2>2
<1> HIDE DEF q
<1>4. p = q
  BY <1>2, <1>3, SameSeq
<1> QED BY <1>4 DEF q

LEMMA UptoJoined ==
  ASSUME NEW X, NEW r \in Seq(X), NEW s \in Seq(X), NEW i \in 0..Len(r)
  PROVE  Upto(r \o s, i) = Upto(r, i)
<1>1. r \o s \in Seq(X) /\ i \in 0..Len(r \o s) /\ \A j \in 1..i : (r \o s)[j] = r[j]
  OBVIOUS
<1> DEFINE p == r \o s
<1>2. p \in Seq(X) /\ i \in 0..Len(p) /\ \A j \in 1..i : p[j] = r[j]
  BY <1>1
<1> HIDE DEF p, Upto
<1>3. Upto(p, i) \in Seq(X) /\ Len(Upto(p, i)) = i /\ (\A j \in 1..i : Upto(p, i)[j] = p[j])
  BY <1>2, Cut
<1>4. Upto(r, i) \in Seq(X) /\ Len(Upto(r, i)) = i /\ (\A j \in 1..i : Upto(r, i)[j] = r[j])
  BY Cut
<1>5. Upto(p, i) = Upto(r, i)
  BY <1>2, <1>3, <1>4, SameSeq
<1> QED BY <1>5 DEF p

LEMMA PastJoined ==
  ASSUME NEW X, NEW r \in Seq(X), NEW s \in Seq(X), NEW i \in 0..Len(r)
  PROVE  Past(r \o s, i) = Past(r, i) \o s
<1> DEFINE p == r \o s
<1>1. p \in Seq(X) /\ i \in 0..Len(p) /\ Len(p) = Len(r) + Len(s) /\ Len(r) \in Nat /\ Len(s) \in Nat
  OBVIOUS
<1>2. \A j \in 1..Len(p) : p[j] = IF j <= Len(r) THEN r[j] ELSE s[j - Len(r)]
  OBVIOUS
<1> HIDE DEF p, Past
<1>3. Past(p, i) \in Seq(X) /\ Len(Past(p, i)) = Len(p) - i /\ (\A j \in 1..(Len(p) - i) : Past(p, i)[j] = p[i + j])
  BY <1>1, Cut
<1>4. Past(r, i) \in Seq(X) /\ Len(Past(r, i)) = Len(r) - i /\ (\A j \in 1..(Len(r) - i) : Past(r, i)[j] = r[i + j])
  BY Cut
<1> DEFINE q == Past(r, i) \o s
<1>5. q \in Seq(X) /\ Len(q) = Len(p) - i
  <2>1. q \in Seq(X) /\ Len(q) = Len(Past(r, i)) + Len(s)
    BY <1>4, Joined
  <2> QED BY <1>1, <1>4, <2>1
<1>6. ASSUME NEW j \in 1..(Len(p) - i) PROVE q[j] = p[i + j]
  <2>1. i + j \in 1..Len(p)
    BY <1>1
  <2>2. CASE j <= Len(r) - i
    <3>1. q[j] = Past(r, i)[j] /\ i + j <= Len(r) /\ j \in 1..(Len(r) - i)
      BY <1>1, <1>4, <2>2
    <3> QED BY <1>2, <1>4, <2>1, <3>1
  <2>3. CASE j > Len(r) - i
    <3>1. q[j] = s[j - (Len(r) - i)]
      BY <1>1, <1>4, <2>3
    <3>2. ~(i + j <= Len(r)) /\ (i + j) - Len(r) = j - (Len(r) - i)
      BY <1>1, <2>3
    <3> QED BY <1>2, <2>1, <3>1, <3>2
  <2>4. j <= Len(r) - i \/ j > Len(r) - i
    BY <1>1
  <2> QED BY <2>2, <2>3, <2>4
<1> HIDE DEF q
<1>7. Past(p, i) = q
  BY <1>1, <1>3, <1>5, <1>6, SameSeq
<1> QED BY <1>7 DEF p, q

LEMMA AboveIt ==
  ASSUME NEW X, NEW p \in Seq(X), NEW n \in 1..Len(p)
  PROVE  /\ Front(Upto(p, n)) = Upto(p, n - 1) /\ Last(Upto(p, n)) = p[n]
         /\ Upto(p, n) = Append(Upto(p, n - 1), p[n]) /\ Upto(p, Len(p)) = p /\ Upto(p, 0) = <<>>
         /\ \A m \in 0..n : Upto(Upto(p, n), m) = Upto(p, m)
<1>1. Len(p) \in Nat /\ n - 1 \in 0..Len(p) /\ n \in 0..Len(p) /\ Len(p) \in 0..Len(p) /\ 0 \in 0..Len(p)
  OBVIOUS
<1>2. \A m \in 0..Len(p) : /\ Upto(p, m) \in Seq(X) /\ Len(Upto(p, m)) = m
                           /\ \A i \in 1..m : Upto(p, m)[i] = p[i]
  BY Cut
<1>3. \A m \in 0..n : /\ Upto(Upto(p, n), m) \in Seq(X) /\ Len(Upto(Upto(p, n), m)) = m
                      /\ \A i \in 1..m : Upto(Upto(p, n), m)[i] = Upto(p, n)[i]
  <2> DEFINE u == Upto(p, n)
  <2>1. u \in Seq(X) /\ Len(u) = n
    BY <1>1, <1>2
  <2> HIDE DEF u, Upto
  <2>2. \A m \in 0..n : /\ Upto(u, m) \in Seq(X) /\ Len(Upto(u, m)) = m
                        /\ \A i \in 1..m : Upto(u, m)[i] = u[i]
    BY <2>1, Cut
  <2> QED BY <2>2 DEF u
<1>4. Front(Upto(p, n)) = Upto(Upto(p, n), n - 1)
  <2>1. Len(Upto(p, n)) = n
    BY <1>1, <1>2
  <2> QED BY <2>1 DEF Front, Upto
<1> HIDE DEF Upto
<1>5. ASSUME NEW m \in 0..n PROVE Upto(Upto(p, n), m) = Upto(p, m)
  <2>1. m \in 0..Len(p) /\ 1..m \subseteq 1..n
    BY <1>1
  <2>2. \A i \in 1..m : Upto(Upto(p, n), m)[i] = Upto(p, m)[i]
    BY <1>1, <1>2, <1>3, <2>1
  <2> QED BY <1>2, <1>3, <2>1, <2>2, SameSeq
<1>6. Last(Upto(p, n)) = p[n]
  BY <1>1, <1>2 DEF Last
<1>7. Upto(p, Len(p)) = p
  BY <1>1, <1>2, SameSeq
<1>8. Upto(p, 0) = <<>>
  BY <1>1, <1>2
<1>9. Upto(p, n) = Append(Upto(p, n - 1), p[n])
  <2> DEFINE a == Append(Upto(p, n - 1), p[n])
             u == Upto(p, n - 1)
  <2>1. u \in Seq(X) /\ p[n] \in X /\ Len(u) = n - 1 /\ \A i \in 1..(n - 1) : u[i] = p[i]
    <3>1. p[n] \in X
      OBVIOUS
    <3>2. u \in Seq(X) /\ Len(u) = n - 1
      BY <1>1, <1>2
    <3>3. \A i \in 1..(n - 1) : u[i] = p[i]
      BY <1>1, <1>2
    <3> QED BY <3>1, <3>2, <3>3
  <2> HIDE DEF u
  <2>2. Append(u, p[n]) \in Seq(X) /\ Len(Append(u, p[n])) = n /\ \A i \in 1..n : Append(u, p[n])[i] = p[i]
    BY <2>1
  <2>3. a \in Seq(X) /\ Len(a) = n /\ \A i \in 1..n : a[i] = p[i]
    BY <2>2 DEF u
  <2> HIDE DEF a
  <2>4. Upto(p, n) = a
    BY <1>1, <1>2, <2>3, SameSeq
  <2> QED BY <2>4 DEF a
<1>10. n - 1 \in 0..n
  OBVIOUS
<1> QED BY <1>4, <1>5, <1>6, <1>7, <1>8, <1>9, <1>10

LEMMA HereAbove ==
  ASSUME NEW fs, IsFileSystem(fs), NEW p \in Seq(Names), p \in DOMAIN fs, NEW n \in 0..(Len(p) - 1)
  PROVE  IsDir(fs, Upto(p, n)) /\ Here(fs, Upto(p, n))
<1>1. IsDir(fs, Upto(p, n))
  BY DEF IsFileSystem, Upto
<1> QED BY <1>1 DEF IsDir, Here

LEMMA NothingBelow ==
  ASSUME NEW fs, IsFileSystem(fs), NEW p \in Seq(Names), NEW m \in 0..Len(p), NEW n \in 0..m,
         Here(fs, Upto(p, m))
  PROVE  Here(fs, Upto(p, n))
<1>1. m \in 1..Len(p) \/ m = n
  OBVIOUS
<1>2. CASE m = n
  BY <1>2
<1>3. CASE m \in 1..Len(p) /\ m # n
  <2>1. Upto(p, m) \in Seq(Names) /\ Len(Upto(p, m)) = m
    BY Cut
  <2>2. Upto(Upto(p, m), n) = Upto(p, n)
    BY <1>3, AboveIt
  <2> DEFINE u == Upto(p, m)
  <2>3. u \in Seq(Names) /\ n \in 0..(Len(u) - 1) /\ u \in DOMAIN fs
    BY <1>3, <2>1 DEF Here
  <2> HIDE DEF u
  <2>4. Here(fs, Upto(u, n))
    BY <2>3, HereAbove
  <2> QED BY <2>2, <2>4 DEF u
<1> QED BY <1>1, <1>2, <1>3

LEMMA StopsAre ==
  ASSUME NEW fs, IsFileSystem(fs), NEW p \in Seq(Names)
  PROVE  Stops(fs, p) = {i \in 1..Len(p) : ~Here(fs, Upto(p, i))}
<1>1. ASSUME NEW i \in 1..Len(p), Here(fs, Upto(p, i)) PROVE IsDir(fs, Front(Upto(p, i)))
  <2> DEFINE u == Upto(p, i)
  <2>1. u \in Seq(Names) /\ Len(u) = i
    BY Cut
  <2>2. u \in DOMAIN fs /\ i - 1 \in 0..(Len(u) - 1)
    BY <1>1, <2>1 DEF Here
  <2>3. Front(u) = Upto(u, i - 1)
    BY <2>1 DEF Front, Upto
  <2> HIDE DEF u
  <2>4. IsDir(fs, Front(u))
    BY <2>1, <2>2, <2>3, HereAbove
  <2> QED BY <2>4 DEF u
<1>2. Stops(fs, p) = {i \in 1..Len(p) : ~IsDir(fs, Front(Upto(p, i))) \/ Upto(p, i) \notin DOMAIN fs
                                         \/ fs[Upto(p, i)].kind = "link"}
  BY DEF Stops, Upto
<1> HIDE DEF Upto
<1> QED BY <1>1, <1>2 DEF Here

\* The lookup of a path that is not there ends somewhere.
LEMMA StopsSomewhere ==
  ASSUME NEW fs, IsFileSystem(fs), NEW p \in Seq(Names), ~Here(fs, p)
  PROVE  \E i \in 1..Len(p) : Here(fs, Upto(p, i - 1)) /\ ~Here(fs, Upto(p, i))
<1> SUFFICES ASSUME \A i \in 1..Len(p) : Here(fs, Upto(p, i - 1)) => Here(fs, Upto(p, i)) PROVE FALSE
  OBVIOUS
<1> DEFINE S == {n \in Nat : n <= Len(p) => Here(fs, Upto(p, n))}
<1>1. Len(p) \in Nat
  OBVIOUS
<1>2. Upto(p, 0) = <<>> /\ Upto(p, Len(p)) = p
  <2>1. CASE Len(p) = 0
    BY <2>1 DEF Upto
  <2>2. CASE Len(p) # 0
    <3>1. 1 \in 1..Len(p)
      BY <2>2
    <3> QED BY <3>1, AboveIt
  <2> QED BY <2>1, <2>2
<1>3. 0 \in S
  BY <1>2 DEF IsFileSystem, IsDir, Here
<1>4. ASSUME NEW n \in S PROVE n + 1 \in S
  <2> SUFFICES ASSUME n + 1 <= Len(p) PROVE Here(fs, Upto(p, n + 1))
    OBVIOUS
  <2>1. n + 1 \in 1..Len(p) /\ (n + 1) - 1 = n /\ n <= Len(p)
    BY <1>1
  <2> HIDE DEF Upto, Here
  <2> QED BY <2>1
<1>5. S = Nat
  <2> S \in SUBSET Nat
    OBVIOUS
  <2> HIDE DEF S
  <2> QED BY <1>3, <1>4, Induction
<1>6. Len(p) \in S
  BY <1>1, <1>5
<1> QED BY <1>1, <1>2, <1>6

LEMMA LeastIs ==
  ASSUME NEW S, \A x \in S : x \in Nat, NEW i \in S, \A x \in S : i <= x
  PROVE  Min(S) = i
<1>1. i \in S /\ \A y \in S : i <= y
  OBVIOUS
<1>2. ASSUME NEW x \in S, \A y \in S : x <= y PROVE x = i
  <2>1. x <= i /\ i <= x /\ x \in Nat /\ i \in Nat
    BY <1>2
  <2> QED BY <2>1
<1> QED BY <1>1, <1>2 DEF Min

LEMMA StopsThere ==
  ASSUME NEW fs, IsFileSystem(fs), NEW p \in Seq(Names), NEW i \in 1..Len(p),
         Here(fs, Upto(p, i - 1)), ~Here(fs, Upto(p, i))
  PROVE  FirstStop(fs, p) = i
<1> DEFINE S == Stops(fs, p) \cup {Len(p) + 1}
<1>1. i \in S
  BY StopsAre
<1>2. ASSUME NEW j \in S PROVE i <= j
  <2> SUFFICES ASSUME j \in Stops(fs, p) PROVE i <= j
    OBVIOUS
  <2>1. j \in 1..Len(p) /\ ~Here(fs, Upto(p, j))
    BY StopsAre
  <2> SUFFICES ASSUME j <= i - 1 PROVE FALSE
    BY <2>1
  <2>2. j \in 0..(i - 1) /\ i - 1 \in 0..Len(p)
    BY <2>1
  <2> QED BY <2>1, <2>2, NothingBelow
<1>3. \A j \in S : j \in Nat
  BY StopsAre
<1> HIDE DEF S
<1>4. Min(S) = i
  BY <1>1, <1>2, <1>3, LeastIs
<1> QED BY <1>4 DEF FirstStop, S

LEMMA LooksHere ==
  ASSUME NEW fs, IsFileSystem(fs), NEW p \in Seq(Names), Here(fs, p)
  PROVE  Hop(fs, p) = p /\ Lookup(fs, p) = Found(p)
<1>1. Upto(p, Len(p)) = p /\ Len(p) \in 0..Len(p)
  <2>1. CASE Len(p) = 0
    BY <2>1 DEF Upto
  <2>2. CASE Len(p) # 0
    <3>1. 1 \in 1..Len(p)
      BY <2>2
    <3> QED BY <3>1, AboveIt
  <2> QED BY <2>1, <2>2
<1>2. \A i \in 1..Len(p) : Here(fs, Upto(p, i))
  <2> HIDE DEF Upto, Here
  <2> TAKE i \in 1..Len(p)
  <2>1. i \in 0..Len(p)
    OBVIOUS
  <2> QED BY <1>1, <2>1, NothingBelow
<1>3. FirstStop(fs, p) = Len(p) + 1
  <2> DEFINE S == Stops(fs, p) \cup {Len(p) + 1}
  <2>1. S = {Len(p) + 1}
    BY <1>2, StopsAre
  <2>2. Len(p) + 1 \in Nat
    OBVIOUS
  <2> HIDE DEF S
  <2>3. Min(S) = Len(p) + 1
    <3> DEFINE i == Len(p) + 1
    <3>1. S = {i} /\ i \in Nat
      BY <2>1, <2>2
    <3> HIDE DEF i
    <3>2. i \in S /\ (\A x \in S : x \in Nat) /\ \A x \in S : i <= x
      BY <3>1
    <3>3. Min(S) = i
      BY <3>2, LeastIs
    <3> QED BY <3>3 DEF i
  <2> QED BY <2>3 DEF FirstStop, S
<1>4. Len(p) \in Nat
  OBVIOUS
<1> DEFINE i == Len(p) + 1
<1>5. Hop(fs, p) = HopAt(fs, p, i) /\ Lookup(fs, p) = LookupAt(fs, p, i)
  BY <1>3 DEF Hop, Lookup
<1>6. ~(i <= Len(p)) /\ i > Len(p)
  BY <1>4
<1> HIDE DEF i
<1>7. HopAt(fs, p, i) = p /\ LookupAt(fs, p, i) = Found(p)
  BY <1>6 DEF HopAt, LookupAt
<1> QED BY <1>5, <1>7

LEMMA TreeNames ==
  ASSUME NEW fs, IsFileSystem(fs), NEW p \in DOMAIN fs
  PROVE  p \in Seq(Names) /\ (fs[p].kind = "link" => fs[p].to \in Seq(Names))
<1>1. p \in Seq(ToSet(NameOrder)) /\ (fs[p].kind = "link" => fs[p].to \in Seq(ToSet(NameOrder)))
  BY DEF IsFileSystem
<1>2. \A S, T : S \subseteq T => \A s \in Seq(S) : s \in Seq(T)
  OBVIOUS
<1>3. ToSet(NameOrder) \subseteq Names
  BY DEF Names
<1> QED BY <1>1, <1>2, <1>3

LEMMA LooksAt ==
  ASSUME NEW fs, IsFileSystem(fs), NEW p \in Seq(Names), NEW i \in 1..Len(p),
         Here(fs, Upto(p, i - 1)), ~Here(fs, Upto(p, i))
  PROVE  /\ Upto(p, i) \in DOMAIN fs =>
              /\ fs[Upto(p, i)].to \in Seq(Names)
              /\ Hop(fs, p) = fs[Upto(p, i)].to \o Past(p, i) /\ Lookup(fs, p) = Err("ELOOP")
         /\ Upto(p, i) \notin DOMAIN fs =>
              /\ Hop(fs, p) = p
              /\ Lookup(fs, p) = Err(IF IsDir(fs, Upto(p, i - 1)) THEN "ENOENT" ELSE "ENOTDIR")
<1>1. FirstStop(fs, p) = i
  BY StopsThere
<1>2. Front(Upto(p, i)) = Upto(p, i - 1)
  BY AboveIt
<1>3. CASE Upto(p, i) \in DOMAIN fs
  <2>1. fs[Upto(p, i)].kind = "link"
    BY <1>3 DEF Here
  <2>2. fs[Upto(p, i)].to \in Seq(Names)
    BY <1>3, <2>1, TreeNames
  <2>3. IsLink(fs, Upto(p, i)) /\ i <= Len(p) /\ ~(i > Len(p))
    BY <1>3, <2>1 DEF IsLink
  <2>4. Hop(fs, p) = HopAt(fs, p, i) /\ Lookup(fs, p) = LookupAt(fs, p, i)
    BY <1>1 DEF Hop, Lookup
  <2>5. HopAt(fs, p, i) = fs[Upto(p, i)].to \o Past(p, i)
    BY <2>3 DEF HopAt, Upto, Past
  <2>6. LookupAt(fs, p, i) = Err("ELOOP")
    BY <2>3 DEF LookupAt, Upto
  <2> QED BY <1>3, <2>2, <2>4, <2>5, <2>6
<1>4. CASE Upto(p, i) \notin DOMAIN fs
  <2>1. ~IsLink(fs, Upto(p, i)) /\ ~(i > Len(p))
    BY <1>4 DEF IsLink
  <2>2. Hop(fs, p) = HopAt(fs, p, i) /\ Lookup(fs, p) = LookupAt(fs, p, i)
    BY <1>1 DEF Hop, Lookup
  <2>3. HopAt(fs, p, i) = p
    BY <2>1 DEF HopAt, Upto
  <2>4. LookupAt(fs, p, i) = Err(IF IsDir(fs, Upto(p, i - 1)) THEN "ENOENT" ELSE "ENOTDIR")
    BY <2>1 DEF LookupAt, Upto
  <2> QED BY <1>4, <2>2, <2>3, <2>4
<1> QED BY <1>3, <1>4

\* Before its lookup has ended, a prefix hops as if nothing followed it.
LEMMA PrefixLooks ==
  ASSUME NEW fs, IsFileSystem(fs), NEW r \in Seq(Names), NEW s \in Seq(Names), ~Here(fs, r)
  PROVE  /\ Hop(fs, r) \in Seq(Names) /\ Hop(fs, r \o s) = Hop(fs, r) \o s
         /\ Lookup(fs, r \o s) = Lookup(fs, r)
         /\ \E e \in {"ENOENT", "ENOTDIR", "ELOOP"} : Lookup(fs, r) = Err(e)
<1>1. PICK i \in 1..Len(r) : Here(fs, Upto(r, i - 1)) /\ ~Here(fs, Upto(r, i))
  BY StopsSomewhere
<1> DEFINE p == r \o s
<1>2. p \in Seq(Names) /\ i \in 1..Len(p) /\ i \in 0..Len(r) /\ i - 1 \in 0..Len(r)
  BY Joined
<1>3. Upto(p, i) = Upto(r, i) /\ Upto(p, i - 1) = Upto(r, i - 1) /\ Past(p, i) = Past(r, i) \o s
  BY <1>2, UptoJoined, PastJoined
<1>4. Past(r, i) \in Seq(Names)
  BY <1>2, Cut
<1> HIDE DEF p, Upto, Past, Here
<1>5. /\ Upto(r, i) \in DOMAIN fs =>
              /\ fs[Upto(r, i)].to \in Seq(Names)
              /\ Hop(fs, r) = fs[Upto(r, i)].to \o Past(r, i) /\ Lookup(fs, r) = Err("ELOOP")
      /\ Upto(r, i) \notin DOMAIN fs =>
              /\ Hop(fs, r) = r
              /\ Lookup(fs, r) = Err(IF IsDir(fs, Upto(r, i - 1)) THEN "ENOENT" ELSE "ENOTDIR")
  BY <1>1, LooksAt
<1>6. /\ Upto(r, i) \in DOMAIN fs =>
              Hop(fs, p) = fs[Upto(r, i)].to \o Past(p, i) /\ Lookup(fs, p) = Err("ELOOP")
      /\ Upto(r, i) \notin DOMAIN fs =>
              /\ Hop(fs, p) = p
              /\ Lookup(fs, p) = Err(IF IsDir(fs, Upto(r, i - 1)) THEN "ENOENT" ELSE "ENOTDIR")
  <2>1. Here(fs, Upto(p, i - 1)) /\ ~Here(fs, Upto(p, i))
    BY <1>1, <1>3
  <2> QED BY <1>2, <1>3, <2>1, LooksAt
<1>7. CASE Upto(r, i) \in DOMAIN fs
  <2> DEFINE to == fs[Upto(r, i)].to
             rest == Past(r, i)
  <2>1. to \in Seq(Names) /\ rest \in Seq(Names)
    BY <1>4, <1>5, <1>7
  <2> HIDE DEF to, rest
  <2>2. to \o (rest \o s) = (to \o rest) \o s /\ to \o rest \in Seq(Names)
    <3>1. to \o (rest \o s) = (to \o rest) \o s
      BY <2>1, Assoc, SMTT(60)
    <3>2. to \o rest \in Seq(Names)
      BY <2>1
    <3> QED BY <3>1, <3>2
  <2>3. Hop(fs, r) = to \o rest /\ Hop(fs, p) = to \o (rest \o s)
    BY <1>3, <1>5, <1>6, <1>7 DEF to, rest
  <2>4. Lookup(fs, r) = Err("ELOOP") /\ Lookup(fs, p) = Err("ELOOP")
    BY <1>5, <1>6, <1>7
  <2> QED BY <2>2, <2>3, <2>4 DEF p
<1>8. CASE Upto(r, i) \notin DOMAIN fs
  BY <1>5, <1>6, <1>8 DEF p
<1> QED BY <1>7, <1>8

LEMMA HopType ==
  ASSUME NEW fs, IsFileSystem(fs), NEW p \in Seq(Names)
  PROVE  Hop(fs, p) \in Seq(Names)
<1>1. CASE Here(fs, p)
  BY <1>1, LooksHere
<1>2. CASE ~Here(fs, p)
  BY <1>2, PrefixLooks
<1> QED BY <1>1, <1>2

\* All paths, under a name that keeps what sequences are out of sight.
Paths == Seq(Names)

LEMMA PathsRecursion ==
  ASSUME NEW N \in Nat, NEW start \in Paths, NEW step \in [1..N -> [Paths -> Paths]]
  PROVE  \E f \in [0..N -> Paths] : f[0] = start /\ \A n \in 1..N : f[n] = step[n][f[n - 1]]
BY Recursion

LEMMA PathRecursion ==
  ASSUME NEW N \in Nat, NEW start \in Seq(Names), NEW step \in [1..N -> [Seq(Names) -> Seq(Names)]]
  PROVE  \E f \in [0..N -> Seq(Names)] : f[0] = start /\ \A n \in 1..N : f[n] = step[n][f[n - 1]]
BY PathsRecursion DEF Paths

\* The paths that EvalSymlinks goes through.
Hops(fs, p, h) ==
  /\ h \in [0..MaxLinks -> Seq(Names)]
  /\ h[0] = p /\ \A n \in 1..MaxLinks : h[n] = Hop(fs, h[n - 1])

LEMMA EvalIsLast ==
  ASSUME NEW fs, IsFileSystem(fs), NEW p \in Seq(Names)
  PROVE  \E h : Hops(fs, p, h) /\ EvalSymlinks(fs, p) = Lookup(fs, h[MaxLinks])
<1> DEFINE P(g) == g = [n \in 0..MaxLinks |-> IF n = 0 THEN p ELSE Hop(fs, g[n - 1])]
           step == [n \in 1..MaxLinks |-> [q \in Seq(Names) |-> Hop(fs, q)]]
<1>1. EvalSymlinks(fs, p) = Lookup(fs, (CHOOSE g : P(g))[MaxLinks])
  BY DEF EvalSymlinks
<1>2. MaxLinks \in Nat
  BY FilesAssumption
<1>3. step \in [1..MaxLinks -> [Seq(Names) -> Seq(Names)]]
  BY HopType
<1>4. PICK f \in [0..MaxLinks -> Seq(Names)] :
        f[0] = p /\ \A n \in 1..MaxLinks : f[n] = step[n][f[n - 1]]
  <2> DEFINE N == MaxLinks
  <2>1. N \in Nat /\ step \in [1..N -> [Seq(Names) -> Seq(Names)]]
    BY <1>2, <1>3
  <2> HIDE DEF step, P, N
  <2>2. \E f \in [0..N -> Seq(Names)] : f[0] = p /\ \A n \in 1..N : f[n] = step[n][f[n - 1]]
    BY <2>1, PathRecursion
  <2> QED BY <2>2 DEF N
<1>5. ASSUME NEW n \in 1..MaxLinks PROVE f[n] = Hop(fs, f[n - 1])
  <2>1. f[n - 1] \in Seq(Names)
    <3>1. n - 1 \in 0..MaxLinks
      BY <1>2
    <3> QED BY <1>4, <3>1
  <2>2. step[n][f[n - 1]] = Hop(fs, f[n - 1])
    BY <2>1
  <2> QED BY <1>4, <2>2
<1> HIDE DEF step
<1>6. P(f)
  <2> DEFINE g == [n \in 0..MaxLinks |-> IF n = 0 THEN p ELSE Hop(fs, f[n - 1])]
  <2>1. ASSUME NEW n \in 0..MaxLinks PROVE f[n] = g[n]
    BY <1>2, <1>4, <1>5
  <2> QED BY <2>1, <1>4
<1> HIDE DEF P
<1>7. PICK g : P(g) /\ g = CHOOSE h : P(h)
  BY <1>6
<1>8. /\ g = [n \in 0..MaxLinks |-> IF n = 0 THEN p ELSE Hop(fs, g[n - 1])]
      /\ g[0] = p /\ \A n \in 1..MaxLinks : g[n] = Hop(fs, g[n - 1])
  BY <1>2, <1>7 DEF P
<1> DEFINE S == {n \in Nat : n <= MaxLinks => g[n] \in Seq(Names)}
<1>9. 0 \in S
  BY <1>8
<1>10. ASSUME NEW n \in S PROVE n + 1 \in S
  <2> SUFFICES ASSUME n + 1 <= MaxLinks PROVE g[n + 1] \in Seq(Names)
    OBVIOUS
  <2>1. g[n] \in Seq(Names) /\ n + 1 \in 1..MaxLinks /\ (n + 1) - 1 = n
    BY <1>2
  <2>2. g[n + 1] = Hop(fs, g[n])
    BY <1>8, <2>1
  <2> QED BY <2>1, <2>2, HopType
<1>11. S = Nat
  <2> S \in SUBSET Nat
    OBVIOUS
  <2> HIDE DEF S
  <2> QED BY <1>9, <1>10, Induction
<1>12. g \in [0..MaxLinks -> Seq(Names)]
  <2>1. ASSUME NEW n \in 0..MaxLinks PROVE g[n] \in Seq(Names)
    <3>1. n \in Nat /\ n <= MaxLinks
      BY <1>2
    <3>2. n \in S
      BY <1>11, <3>1
    <3> QED BY <3>1, <3>2
  <2>2. DOMAIN g = 0..MaxLinks /\ g = [n \in DOMAIN g |-> g[n]]
    BY <1>8
  <2> QED BY <2>1, <2>2
<1> QED BY <1>1, <1>7, <1>8, <1>12 DEF Hops

LEMMA StaysThere ==
  ASSUME NEW fs, NEW p, NEW h, Hops(fs, p, h), NEW m \in 0..MaxLinks, Hop(fs, h[m]) = h[m]
  PROVE  h[MaxLinks] = h[m]
<1> DEFINE S == {n \in Nat : m + n <= MaxLinks => h[m + n] = h[m]}
<1>1. MaxLinks \in Nat
  BY FilesAssumption
<1>2. 0 \in S
  BY <1>1
<1>3. ASSUME NEW n \in S PROVE n + 1 \in S
  <2> SUFFICES ASSUME m + (n + 1) <= MaxLinks PROVE h[m + (n + 1)] = h[m]
    OBVIOUS
  <2>1. m + (n + 1) \in 1..MaxLinks /\ (m + (n + 1)) - 1 = m + n /\ h[m + n] = h[m]
    BY <1>1
  <2> QED BY <2>1 DEF Hops
<1>4. S = Nat
  <2> S \in SUBSET Nat
    OBVIOUS
  <2> HIDE DEF S
  <2> QED BY <1>2, <1>3, Induction
<1>5. MaxLinks - m \in Nat /\ m + (MaxLinks - m) = MaxLinks
  BY <1>1
<1>6. MaxLinks - m \in S
  BY <1>4, <1>5
<1> QED BY <1>1, <1>5, <1>6

LEMMA EvalHere ==
  ASSUME NEW fs, IsFileSystem(fs), NEW p \in Seq(Names), Here(fs, p)
  PROVE  EvalSymlinks(fs, p) = Found(p)
<1>1. PICK h : Hops(fs, p, h) /\ EvalSymlinks(fs, p) = Lookup(fs, h[MaxLinks])
  BY EvalIsLast
<1>2. 0 \in 0..MaxLinks /\ h[0] = p
  BY <1>1, FilesAssumption DEF Hops
<1>3. Hop(fs, p) = p /\ Lookup(fs, p) = Found(p)
  BY LooksHere
<1>4. h[MaxLinks] = p
  BY <1>1, <1>2, <1>3, StaysThere
<1> QED BY <1>1, <1>3, <1>4

\* What is found holds no link.
LEMMA EvalFinds ==
  ASSUME NEW fs, IsFileSystem(fs), NEW p \in Seq(Names)
  PROVE  \/ /\ EvalSymlinks(fs, p).ok
            /\ EvalSymlinks(fs, p) = Found(EvalSymlinks(fs, p).at)
            /\ EvalSymlinks(fs, p).at \in Seq(Names) /\ Here(fs, EvalSymlinks(fs, p).at)
         \/ /\ ~EvalSymlinks(fs, p).ok
            /\ \E e \in {"ENOENT", "ENOTDIR", "ELOOP"} : EvalSymlinks(fs, p) = Err(e)
<1>1. PICK h : Hops(fs, p, h) /\ EvalSymlinks(fs, p) = Lookup(fs, h[MaxLinks])
  BY EvalIsLast
<1> DEFINE q == h[MaxLinks]
<1>2. q \in Seq(Names)
  <2>1. MaxLinks \in 0..MaxLinks
    BY FilesAssumption
  <2> QED BY <1>1, <2>1 DEF Hops
<1> HIDE DEF q
<1>3. CASE Here(fs, q)
  <2>1. EvalSymlinks(fs, p) = Found(q)
    BY <1>1, <1>2, <1>3, LooksHere DEF q
  <2> QED BY <1>2, <1>3, <2>1 DEF Found
<1>4. CASE ~Here(fs, q)
  <2>1. \E e \in {"ENOENT", "ENOTDIR", "ELOOP"} : EvalSymlinks(fs, p) = Err(e)
    BY <1>1, <1>2, <1>4, PrefixLooks DEF q
  <2>2. PICK e \in {"ENOENT", "ENOTDIR", "ELOOP"} : EvalSymlinks(fs, p) = Err(e)
    BY <2>1
  <2>3. ~Err(e).ok
    BY DEF Err
  <2> QED BY <2>2, <2>3
<1> QED BY <1>3, <1>4

\* The links of a prefix are followed first: if that fails, so does the whole; if
\* it ends, the lookup goes on from where it ended.
LEMMA EvalPrefix ==
  ASSUME NEW fs, IsFileSystem(fs), NEW r \in Seq(Names), NEW s \in Seq(Names)
  PROVE  /\ ~EvalSymlinks(fs, r).ok => EvalSymlinks(fs, r \o s) = EvalSymlinks(fs, r)
         /\ \A q \in Seq(Names) :
              EvalSymlinks(fs, r) = Found(q) /\ Hop(fs, q \o s) = q \o s =>
                EvalSymlinks(fs, r \o s) = Lookup(fs, q \o s)
<1>1. PICK h : Hops(fs, r, h) /\ EvalSymlinks(fs, r) = Lookup(fs, h[MaxLinks])
  BY EvalIsLast
<1>2. r \o s \in Seq(Names)
  BY Joined
<1>3. PICK k : Hops(fs, r \o s, k) /\ EvalSymlinks(fs, r \o s) = Lookup(fs, k[MaxLinks])
  BY <1>2, EvalIsLast
<1>4. MaxLinks \in Nat
  BY FilesAssumption
<1> DEFINE ended(n) == \E m \in 0..n : Here(fs, h[m]) /\ k[m] = h[m] \o s
           apart(n) == ~Here(fs, h[n]) /\ k[n] = h[n] \o s
           S == {n \in Nat : n <= MaxLinks => ended(n) \/ apart(n)}
<1> HIDE DEF ended, apart
<1>5. 0 \in S
  <2>1. h[0] = r /\ k[0] = r \o s /\ 0 \in 0..0
    BY <1>1, <1>3 DEF Hops
  <2>2. ended(0) \/ apart(0)
    BY <2>1 DEF ended, apart
  <2> QED BY <2>2
<1>6. ASSUME NEW n \in S PROVE n + 1 \in S
  <2> SUFFICES ASSUME n + 1 <= MaxLinks PROVE ended(n + 1) \/ apart(n + 1)
    OBVIOUS
  <2>1. n \in 0..MaxLinks /\ n + 1 \in 1..MaxLinks /\ (n + 1) - 1 = n /\ n <= MaxLinks
    BY <1>4
  <2>2. CASE ended(n)
    <3>1. 0..n \subseteq 0..(n + 1)
      BY <2>1
    <3> HIDE DEF Here
    <3> QED BY <2>2, <3>1 DEF ended
  <2>3. CASE apart(n)
    <3>1. h[n + 1] = Hop(fs, h[n]) /\ k[n + 1] = Hop(fs, k[n]) /\ h[n] \in Seq(Names)
      BY <1>1, <1>3, <2>1 DEF Hops
    <3>2. Hop(fs, h[n] \o s) = Hop(fs, h[n]) \o s
      BY <2>3, <3>1, PrefixLooks DEF apart
    <3>3. k[n + 1] = h[n + 1] \o s
      BY <2>3, <3>1, <3>2 DEF apart
    <3>4. n + 1 \in 0..(n + 1)
      BY <2>1
    <3> HIDE DEF Here
    <3> QED BY <3>3, <3>4 DEF ended, apart
  <2> QED BY <2>1, <2>2, <2>3
<1>7. S = Nat
  <2> S \in SUBSET Nat
    OBVIOUS
  <2> HIDE DEF S
  <2> QED BY <1>5, <1>6, Induction
<1>8. ended(MaxLinks) \/ apart(MaxLinks)
  <2>1. MaxLinks \in S
    BY <1>4, <1>7
  <2> QED BY <1>4, <2>1
<1>9. CASE apart(MaxLinks)
  <2>1. h[MaxLinks] \in Seq(Names)
    BY <1>1, <1>4 DEF Hops
  <2>2. Lookup(fs, h[MaxLinks] \o s) = Lookup(fs, h[MaxLinks])
    BY <1>9, <2>1, PrefixLooks DEF apart
  <2>3. \E e \in {"ENOENT", "ENOTDIR", "ELOOP"} : Lookup(fs, h[MaxLinks]) = Err(e)
    BY <1>9, <2>1, PrefixLooks DEF apart
  <2>4. EvalSymlinks(fs, r \o s) = EvalSymlinks(fs, r)
    BY <1>1, <1>3, <1>9, <2>2 DEF apart
  <2>5. \A q : EvalSymlinks(fs, r) # Found(q)
    <3>1. \A e, q : Err(e) # Found(q)
      <4>1. \A e, q : ~Err(e).ok /\ Found(q).ok
        BY DEF Err, Found
      <4> QED BY <4>1
    <3> QED BY <1>1, <2>3, <3>1
  <2> QED BY <2>4, <2>5
<1>10. CASE ended(MaxLinks)
  <2>1. PICK m \in 0..MaxLinks : Here(fs, h[m]) /\ k[m] = h[m] \o s
    BY <1>10 DEF ended
  <2>2. h[m] \in Seq(Names)
    BY <1>1, <2>1 DEF Hops
  <2>3. Hop(fs, h[m]) = h[m] /\ Lookup(fs, h[m]) = Found(h[m])
    BY <2>1, <2>2, LooksHere
  <2>4. h[MaxLinks] = h[m]
    BY <1>1, <2>3, StaysThere
  <2>5. EvalSymlinks(fs, r) = Found(h[m])
    BY <1>1, <2>3, <2>4
  <2>6. EvalSymlinks(fs, r).ok /\ EvalSymlinks(fs, r).at = h[m]
    BY <2>5 DEF Found
  <2>7. ASSUME NEW q \in Seq(Names), EvalSymlinks(fs, r) = Found(q), Hop(fs, q \o s) = q \o s
        PROVE  EvalSymlinks(fs, r \o s) = Lookup(fs, q \o s)
    <3>1. q = h[m]
      BY <2>6, <2>7 DEF Found
    <3>2. Hop(fs, k[m]) = k[m]
      BY <2>1, <2>7, <3>1
    <3>3. k[MaxLinks] = k[m]
      BY <1>3, <3>2, StaysThere
    <3> QED BY <1>3, <2>1, <3>1, <3>3
  <2> QED BY <2>6, <2>7
<1> QED BY <1>8, <1>9, <1>10

\* What Lstat and EvalSymlinks of a path have to do with each other, given what
\* the directory is.
LEMMA OneMoreName ==
  ASSUME NEW fs, IsFileSystem(fs), NEW r \in Seq(Names), NEW a \in Names
  PROVE  LET p == Append(r, a)
             d == EvalSymlinks(fs, r)
             y == Append(d.at, a)
         IN  /\ ~d.ok => Lstat(fs, p) = d
             /\ d.ok /\ ~IsDir(fs, d.at) => Lstat(fs, p) = Err("ENOTDIR")
             /\ d.ok /\ IsDir(fs, d.at) /\ y \notin DOMAIN fs => Lstat(fs, p) = Err("ENOENT")
             /\ d.ok /\ y \in DOMAIN fs => Lstat(fs, p) = Found(y)
             /\ ~Lstat(fs, p).ok => EvalSymlinks(fs, p) = Lstat(fs, p)
             /\ Lstat(fs, p).ok /\ fs[Lstat(fs, p).at].kind # "link" =>
                  EvalSymlinks(fs, p) = Found(Lstat(fs, p).at)
<1> DEFINE p == Append(r, a)
           d == EvalSymlinks(fs, r)
           x == d.at
           y == Append(x, a)
           last == <<a>>
<1>1. /\ p \in Seq(Names) /\ p # <<>> /\ Front(p) = r /\ Last(p) = a
      /\ p = r \o last /\ last \in Seq(Names)
  <2>1. p \in Seq(Names) /\ p # <<>> /\ Len(p) = Len(r) + 1 /\ p[Len(p)] = a
    OBVIOUS
  <2>2. Front(p) = r
    BY DEF Front
  <2>3. p = r \o last /\ last \in Seq(Names)
    OBVIOUS
  <2> QED BY <2>1, <2>2, <2>3 DEF Last
<1> HIDE DEF p, last
<1>2. Lstat(fs, p) = IF ~d.ok THEN d
                     ELSE IF ~IsDir(fs, x) THEN Err("ENOTDIR")
                     ELSE IF y \notin DOMAIN fs THEN Err("ENOENT")
                     ELSE Found(y)
  BY <1>1 DEF Lstat, Entry
<1> HIDE DEF d, x, y
<1>3. ~Err("ENOTDIR").ok /\ ~Err("ENOENT").ok /\ Found(y).ok /\ Found(y).at = y
  BY DEF Err, Found
<1>4. CASE ~d.ok
  <2>1. EvalSymlinks(fs, p) = d
    BY <1>1, <1>4, EvalPrefix DEF d
  <2> QED BY <1>2, <1>4, <2>1 DEF p, d, x, y
<1>5. CASE d.ok
  <2>1. d = Found(x) /\ x \in Seq(Names) /\ Here(fs, x)
    BY <1>5, EvalFinds DEF d, x
  <2>2. y \in Seq(Names) /\ y = x \o last /\ Len(y) \in 1..Len(y) /\ Upto(y, Len(y)) = y /\ Upto(y, Len(y) - 1) = x
    <3>1. y \in Seq(Names) /\ Len(y) = Len(x) + 1 /\ y = x \o last /\ Len(y) \in 1..Len(y)
      BY <2>1 DEF y, last
    <3>2. Upto(y, Len(y)) = y
      BY <3>1, AboveIt
    <3>3. Upto(y, Len(y) - 1) = x
      BY <2>1, <3>1 DEF Upto, y
    <3> QED BY <3>1, <3>2, <3>3
  <2>3. y \in DOMAIN fs => IsDir(fs, x)
    <3>1. Len(y) - 1 \in 0..(Len(y) - 1)
      BY <2>2
    <3> QED BY <2>2, <3>1, HereAbove
  <2>4. \A q \in Seq(Names) : d = Found(q) /\ Hop(fs, q \o last) = q \o last =>
                              EvalSymlinks(fs, p) = Lookup(fs, q \o last)
    <3>1. \A q \in Seq(Names) : EvalSymlinks(fs, r) = Found(q) /\ Hop(fs, q \o last) = q \o last =>
                                EvalSymlinks(fs, r \o last) = Lookup(fs, q \o last)
      BY <1>1, EvalPrefix
    <3> QED BY <1>1, <3>1 DEF d
  <2>5. Hop(fs, y) = y => EvalSymlinks(fs, p) = Lookup(fs, y)
    BY <2>1, <2>2, <2>4
  <2>6. CASE y \notin DOMAIN fs
    <3>1. Hop(fs, y) = y /\ Lookup(fs, y) = Err(IF IsDir(fs, x) THEN "ENOENT" ELSE "ENOTDIR")
      <4>1. Here(fs, Upto(y, Len(y) - 1)) /\ ~Here(fs, Upto(y, Len(y))) /\ Upto(y, Len(y)) \notin DOMAIN fs
        BY <2>1, <2>2, <2>6 DEF Here
      <4>2. PICK i \in 1..Len(y) : i = Len(y)
        BY <2>2
      <4>3. Here(fs, Upto(y, i - 1)) /\ ~Here(fs, Upto(y, i)) /\ Upto(y, i) \notin DOMAIN fs /\ Upto(y, i - 1) = x
        BY <2>2, <4>1, <4>2
      <4>4. y \in Seq(Names)
        BY <2>2
      <4>5. Hop(fs, y) = y /\ Lookup(fs, y) = Err(IF IsDir(fs, Upto(y, i - 1)) THEN "ENOENT" ELSE "ENOTDIR")
        BY <4>3, <4>4, LooksAt
      <4> QED BY <4>3, <4>5
    <3>2. Lstat(fs, p) = Err(IF IsDir(fs, x) THEN "ENOENT" ELSE "ENOTDIR")
      BY <1>2, <1>5, <2>6
    <3>3. EvalSymlinks(fs, p) = Lstat(fs, p) /\ ~Lstat(fs, p).ok
      BY <1>3, <2>5, <3>1, <3>2
    <3> QED BY <1>2, <1>5, <2>6, <3>3 DEF p, d, x, y
  <2>7. CASE y \in DOMAIN fs
    <3>1. Lstat(fs, p) = Found(y)
      BY <1>2, <1>5, <2>3, <2>7
    <3>2. fs[y].kind # "link" => EvalSymlinks(fs, p) = Found(y)
      <4> SUFFICES ASSUME fs[y].kind # "link" PROVE EvalSymlinks(fs, p) = Found(y)
        OBVIOUS
      <4>1. Here(fs, y)
        BY <2>7 DEF Here
      <4> QED BY <2>2, <2>5, <4>1, LooksHere
    <3> QED BY <1>2, <1>3, <1>5, <2>7, <3>1, <3>2 DEF p, d, x, y
  <2> QED BY <2>6, <2>7
<1> QED BY <1>4, <1>5

LEMMA Greatest ==
  ASSUME NEW N \in Nat, NEW T \in SUBSET (0..N), 0 \in T
  PROVE  \E n \in T : \A m \in T : m <= n
<1> SUFFICES ASSUME \A n \in T : \E m \in T : m > n PROVE FALSE
  OBVIOUS
<1> DEFINE S == {k \in Nat : k <= N => \E n \in T : n >= k}
<1>1. 0 \in S
  OBVIOUS
<1>2. ASSUME NEW k \in S PROVE k + 1 \in S
  <2> SUFFICES ASSUME k + 1 <= N PROVE \E n \in T : n >= k + 1
    OBVIOUS
  <2>1. PICK n \in T : n >= k
    OBVIOUS
  <2>2. PICK m \in T : m > n
    OBVIOUS
  <2> QED BY <2>1, <2>2
<1>3. S = Nat
  <2> S \in SUBSET Nat
    OBVIOUS
  <2> HIDE DEF S
  <2> QED BY <1>1, <1>2, Induction
<1>4. PICK n \in T : n >= N
  <2>1. N \in S
    BY <1>3
  <2> QED BY <2>1
<1>5. PICK m \in T : m > n
  OBVIOUS
<1> QED BY <1>4, <1>5

\* The prefixes of a path: once the lookup of one fails, that of a longer one
\* fails in the same way.
LEMMA AlongPath ==
  ASSUME NEW fs, IsFileSystem(fs), NEW p \in Seq(Names)
  PROVE  /\ Lstat(fs, Upto(p, 0)) = Found(<<>>) /\ EvalSymlinks(fs, Upto(p, 0)) = Found(<<>>)
         /\ \A n \in 0..Len(p) :
              ~Lstat(fs, Upto(p, n)).ok => EvalSymlinks(fs, Upto(p, n)) = Lstat(fs, Upto(p, n))
         /\ \A n \in 0..Len(p) : \A m \in n..Len(p) :
              ~EvalSymlinks(fs, Upto(p, n)).ok => EvalSymlinks(fs, Upto(p, m)) = EvalSymlinks(fs, Upto(p, n))
         /\ \A n \in 0..Len(p) : \A m \in (n + 1)..Len(p) :
              ~EvalSymlinks(fs, Upto(p, n)).ok => Lstat(fs, Upto(p, m)) = EvalSymlinks(fs, Upto(p, n))
<1>1. Upto(p, 0) = <<>>
  BY DEF Upto
<1>2. Here(fs, <<>>) /\ <<>> \in Seq(Names)
  BY DEF Here, IsFileSystem, IsDir
<1>3. Lstat(fs, <<>>) = Found(<<>>) /\ EvalSymlinks(fs, <<>>) = Found(<<>>)
  <2>1. Lstat(fs, <<>>) = Found(<<>>)
    BY DEF Lstat
  <2>2. EvalSymlinks(fs, <<>>) = Found(<<>>)
    <3> DEFINE none == <<>>
    <3>1. none \in Seq(Names) /\ Here(fs, none)
      BY <1>2
    <3> HIDE DEF none
    <3>2. EvalSymlinks(fs, none) = Found(none)
      BY <3>1, EvalHere
    <3> QED BY <3>2 DEF none
  <2> QED BY <2>1, <2>2
<1>4. Len(p) \in Nat /\ \A n \in 0..Len(p) : Upto(p, n) \in Seq(Names)
  BY Cut
<1>5. ASSUME NEW n \in 1..Len(p)
      PROVE  /\ Upto(p, n) = Append(Upto(p, n - 1), p[n]) /\ Upto(p, n - 1) \in Seq(Names) /\ p[n] \in Names
  <2>1. n - 1 \in 0..Len(p) /\ p[n] \in Names
    BY <1>4
  <2> QED BY <1>4, <2>1, AboveIt
<1> HIDE DEF Upto
<1>6. ASSUME NEW n \in 0..Len(p), ~Lstat(fs, Upto(p, n)).ok
      PROVE  EvalSymlinks(fs, Upto(p, n)) = Lstat(fs, Upto(p, n))
  <2>1. n # 0
    <3>1. Found(<<>>).ok
      BY DEF Found
    <3> QED BY <1>1, <1>3, <1>6, <3>1
  <2>2. n \in 1..Len(p)
    BY <1>4, <2>1
  <2> DEFINE r == Upto(p, n - 1)
             a == p[n]
  <2>3. Upto(p, n) = Append(r, a) /\ r \in Seq(Names) /\ a \in Names
    BY <1>5, <2>2
  <2> HIDE DEF r, a
  <2>4. ~Lstat(fs, Append(r, a)).ok => EvalSymlinks(fs, Append(r, a)) = Lstat(fs, Append(r, a))
    BY <2>3, OneMoreName
  <2> QED BY <1>6, <2>3, <2>4
<1>7. ASSUME NEW n \in 0..Len(p), NEW m \in n..Len(p), ~EvalSymlinks(fs, Upto(p, n)).ok
      PROVE  EvalSymlinks(fs, Upto(p, m)) = EvalSymlinks(fs, Upto(p, n))
  <2> DEFINE u == Upto(p, m)
  <2>1. m \in 0..Len(p) /\ u \in Seq(Names) /\ Len(u) = m
    <3>1. m \in 0..Len(p)
      BY <1>4
    <3> QED BY <3>1, Cut
  <2>2. Upto(u, n) = Upto(p, n)
    <3>1. CASE m = 0
      BY <3>1, <1>1, <1>4 DEF Upto
    <3>2. CASE m \in 1..Len(p)
      <4>1. n \in 0..m
        BY <1>4
      <4> QED BY <3>2, <4>1, AboveIt
    <3> QED BY <1>4, <3>1, <3>2
  <2> HIDE DEF u
  <2>3. n \in 0..Len(u)
    BY <1>4, <2>1
  <2>4. u = Upto(u, n) \o Past(u, n) /\ Upto(u, n) \in Seq(Names) /\ Past(u, n) \in Seq(Names)
    BY <2>1, <2>3, Cut, CutJoins
  <2> DEFINE r == Upto(u, n)
             s == Past(u, n)
  <2>5. u = r \o s /\ r \in Seq(Names) /\ s \in Seq(Names) /\ r = Upto(p, n)
    BY <2>2, <2>4
  <2> HIDE DEF r, s
  <2>6. ~EvalSymlinks(fs, r).ok => EvalSymlinks(fs, r \o s) = EvalSymlinks(fs, r)
    BY <2>5, EvalPrefix
  <2> QED BY <1>7, <2>5, <2>6 DEF u
<1>8. ASSUME NEW n \in 0..Len(p), NEW m \in (n + 1)..Len(p), ~EvalSymlinks(fs, Upto(p, n)).ok
      PROVE  Lstat(fs, Upto(p, m)) = EvalSymlinks(fs, Upto(p, n))
  <2>1. m \in 1..Len(p) /\ m - 1 \in n..Len(p)
    BY <1>4
  <2> DEFINE r == Upto(p, m - 1)
             a == p[m]
  <2>2. Upto(p, m) = Append(r, a) /\ r \in Seq(Names) /\ a \in Names
    BY <1>5, <2>1
  <2>3. EvalSymlinks(fs, r) = EvalSymlinks(fs, Upto(p, n))
    BY <1>7, <1>8, <2>1
  <2> HIDE DEF r, a
  <2>4. ~EvalSymlinks(fs, r).ok => Lstat(fs, Append(r, a)) = EvalSymlinks(fs, r)
    BY <2>2, OneMoreName
  <2> QED BY <1>8, <2>2, <2>3, <2>4
<1> QED BY <1>1, <1>3, <1>6, <1>7, <1>8

\* The place where resolveExisting stops to look.
LEMMA Resolution ==
  ASSUME NEW fs, IsFileSystem(fs), NEW p \in Seq(Names)
  PROVE  \E n \in 0..Len(p) :
           /\ Lstat(fs, Upto(p, n)) # Err("ENOENT")
           /\ \A m \in (n + 1)..Len(p) : Lstat(fs, Upto(p, m)) = Err("ENOENT")
           /\ resolveExisting(fs, p) =
                IF ~EvalSymlinks(fs, Upto(p, n)).ok THEN EvalSymlinks(fs, Upto(p, n))
                ELSE Found(EvalSymlinks(fs, Upto(p, n)).at \o Past(p, n))
<1> DEFINE seen == {n \in 0..Len(p) : Lstat(fs, Upto(p, n)) # Err("ENOENT")}
           last == Max(seen)
           cur  == Upto(p, last)
           eval == IF Lstat(fs, cur).ok THEN EvalSymlinks(fs, cur) ELSE Lstat(fs, cur)
<1>1. resolveExisting(fs, p) = IF ~eval.ok THEN eval ELSE Found(eval.at \o Past(p, last))
  BY DEF resolveExisting, ResolvedAt, Evaluated, Extended, Upto, Past
<1>2. Len(p) \in Nat
  OBVIOUS
<1>3. 0 \in seen
  <2>1. Found(<<>>) # Err("ENOENT")
    <3>1. Found(<<>>).ok /\ ~Err("ENOENT").ok
      BY DEF Found, Err
    <3> QED BY <3>1
  <2> QED BY <1>2, <2>1, AlongPath
<1>4. PICK n \in seen : \A j \in seen : j <= n
  <2>1. seen \in SUBSET (0..Len(p))
    OBVIOUS
  <2> HIDE DEF seen
  <2> QED BY <1>2, <1>3, <2>1, Greatest
<1>5. last \in seen /\ \A j \in seen : j <= last
  <2>1. \A j \in seen : n >= j
    BY <1>2, <1>4
  <2> HIDE DEF seen
  <2>2. last \in seen /\ \A j \in seen : last >= j
    BY <2>1 DEF Max
  <2>3. last \in Nat /\ \A j \in seen : j \in Nat
    BY <1>2, <2>2 DEF seen
  <2> QED BY <2>2, <2>3
<1>6. last \in 0..Len(p) /\ Lstat(fs, Upto(p, last)) # Err("ENOENT")
  <2> HIDE DEF last
  <2> QED BY <1>5
<1>7. ASSUME NEW m \in (last + 1)..Len(p) PROVE Lstat(fs, Upto(p, m)) = Err("ENOENT")
  <2> HIDE DEF last
  <2>1. m \in 0..Len(p) /\ ~(m <= last)
    BY <1>2, <1>6
  <2> QED BY <1>5, <2>1
<1>8. eval = EvalSymlinks(fs, cur)
  <2> HIDE DEF last
  <2> QED BY <1>6, AlongPath
<1> HIDE DEF last, eval
<1> QED BY <1>1, <1>6, <1>7, <1>8

\* A path without links leads where it says.
LEMMA NoLinks ==
  ASSUME NEW fs, IsFileSystem(fs), NEW p \in Seq(Names), ~pathHadSymlink(fs, p),
         NEW n \in 0..Len(p), EvalSymlinks(fs, Upto(p, n)).ok
  PROVE  EvalSymlinks(fs, Upto(p, n)) = Found(Upto(p, n))
<1> DEFINE S == {k \in Nat : k <= n => EvalSymlinks(fs, Upto(p, k)) = Found(Upto(p, k))}
<1>1. n \in Nat /\ Len(p) \in Nat
  OBVIOUS
<1>2. 0 \in S
  <2>1. Upto(p, 0) = <<>>
    BY DEF Upto
  <2> QED BY <2>1, AlongPath
<1>3. \A k \in 0..Len(p) : Lstat(fs, Upto(p, k)).ok => fs[Lstat(fs, Upto(p, k)).at].kind # "link"
  BY DEF pathHadSymlink, Prefixes, Upto
<1>4. ASSUME NEW k \in S PROVE k + 1 \in S
  <2> SUFFICES ASSUME k + 1 <= n PROVE EvalSymlinks(fs, Upto(p, k + 1)) = Found(Upto(p, k + 1))
    OBVIOUS
  <2>1. k + 1 \in 1..Len(p) /\ k + 1 \in 0..Len(p) /\ (k + 1) - 1 = k /\ k \in 0..Len(p) /\ n \in (k + 1)..Len(p)
    BY <1>1
  <2> DEFINE r == Upto(p, k)
             a == p[k + 1]
             q == Upto(p, k + 1)
  <2>2. q = Append(r, a) /\ r \in Seq(Names) /\ a \in Names
    <3>1. a \in Names
      BY <2>1
    <3>2. r \in Seq(Names)
      BY <2>1, Cut
    <3>3. q = Append(Upto(p, (k + 1) - 1), p[k + 1])
      BY <2>1, AboveIt
    <3> QED BY <2>1, <3>1, <3>2, <3>3
  <2>3. EvalSymlinks(fs, r) = Found(r)
    BY <1>1
  <2>4. Lstat(fs, q).ok
    <3> SUFFICES ASSUME ~Lstat(fs, q).ok PROVE FALSE
      OBVIOUS
    <3>1. ~EvalSymlinks(fs, q).ok
      BY <2>1, AlongPath
    <3>2. EvalSymlinks(fs, Upto(p, n)) = EvalSymlinks(fs, q)
      BY <2>1, <3>1, AlongPath
    <3> QED BY <3>1, <3>2
  <2>5. fs[Lstat(fs, q).at].kind # "link"
    BY <1>3, <2>1, <2>4
  <2>6. Found(r).ok /\ Found(r).at = r
    BY DEF Found
  <2> HIDE DEF r, a, q
  <2>7. Lstat(fs, q) = Found(q)
    <3>1. EvalSymlinks(fs, r).ok /\ EvalSymlinks(fs, r).at = r
      BY <2>3, <2>6
    <3>2. /\ ~IsDir(fs, r) => Lstat(fs, q) = Err("ENOTDIR")
          /\ IsDir(fs, r) /\ q \notin DOMAIN fs => Lstat(fs, q) = Err("ENOENT")
          /\ q \in DOMAIN fs => Lstat(fs, q) = Found(q)
      BY <2>2, <3>1, OneMoreName
    <3>3. ~Err("ENOTDIR").ok /\ ~Err("ENOENT").ok
      BY DEF Err
    <3> QED BY <2>4, <3>2, <3>3
  <2>8. Lstat(fs, q).at = q
    BY <2>7 DEF Found
  <2>9. EvalSymlinks(fs, q) = Found(Lstat(fs, q).at)
    BY <2>2, <2>4, <2>5, OneMoreName
  <2>10. EvalSymlinks(fs, q) = Found(q)
    BY <2>8, <2>9
  <2> QED BY <2>10 DEF q
<1>5. S = Nat
  <2> S \in SUBSET Nat
    OBVIOUS
  <2> HIDE DEF S
  <2> QED BY <1>2, <1>4, Induction
<1>6. n \in S
  BY <1>1, <1>5
<1> QED BY <1>1, <1>6

LEMMA Inside ==
  ASSUME NEW q \in Seq(Names), NEW s \in Seq(Names)
  PROVE  /\ IsPrefix(Root, q) <=> Len(Root) <= Len(q) /\ Root = Upto(q, Len(Root))
         /\ IsPrefix(Root, Root \o s)
         /\ IsPrefix(Root, q) => IsPrefix(Root, q \o s)
<1>1. Root \in Seq(Names) /\ Len(Root) \in Nat /\ Len(Root) >= 1 /\ Upto(Root, Len(Root)) = Root
  <2>1. Root \in Seq(Names) /\ Len(Root) \in Nat /\ Len(Root) >= 1 /\ 1 \in 1..Len(Root)
    BY FilesAssumption
  <2> QED BY <2>1, AboveIt
<1>2. ASSUME NEW r PROVE IsPrefix(Root, r) <=> Len(Root) <= Len(r) /\ Root = Upto(r, Len(Root))
  BY <1>1 DEF IsPrefix, Upto
<1>3. /\ Root \o s \in Seq(Names) /\ Len(Root \o s) = Len(Root) + Len(s) /\ Len(s) \in Nat
      /\ q \o s \in Seq(Names) /\ Len(q \o s) = Len(q) + Len(s) /\ Len(q) \in Nat
  BY <1>1, Joined
<1>4. IsPrefix(Root, Root \o s)
  <2>1. Len(Root) \in 0..Len(Root)
    BY <1>1
  <2>2. Upto(Root \o s, Len(Root)) = Upto(Root, Len(Root))
    BY <1>1, <2>1, UptoJoined
  <2>3. Len(Root) <= Len(Root \o s)
    BY <1>1, <1>3
  <2> QED BY <1>1, <1>2, <2>2, <2>3
<1>5. ASSUME IsPrefix(Root, q) PROVE IsPrefix(Root, q \o s)
  <2>1. Len(Root) \in 0..Len(q) /\ Root = Upto(q, Len(Root))
    BY <1>1, <1>2, <1>3, <1>5
  <2>2. Upto(q \o s, Len(Root)) = Upto(q, Len(Root))
    BY <2>1, UptoJoined
  <2>3. Len(Root) <= Len(q \o s)
    BY <1>1, <1>3, <2>1
  <2> QED BY <1>2, <2>1, <2>2, <2>3
<1> QED BY <1>2, <1>4, <1>5

\* A path in the workspace whose first missing name is known leaves off in the
\* workspace: the directories down to it are there.
LEMMA InsideAlready ==
  ASSUME NEW fs, IsFileSystem(fs), NEW q \in Seq(Names), NEW s \in Seq(Names), s # <<>>,
         IsPrefix(Root, q \o s), Append(q, s[1]) \notin DOMAIN fs
  PROVE  IsPrefix(Root, q)
<1> DEFINE t == q \o s
           k == Len(q) + 1
<1>1. Root \in Seq(Names) /\ Len(Root) \in Nat /\ Len(Root) >= 1 /\ Upto(Root, Len(Root)) = Root
  <2>1. Root \in Seq(Names) /\ Len(Root) \in Nat /\ Len(Root) >= 1 /\ 1 \in 1..Len(Root)
    BY FilesAssumption
  <2> QED BY <2>1, AboveIt
<1>2. Len(q) \in Nat /\ Len(s) \in Nat /\ Len(s) >= 1 /\ t \in Seq(Names) /\ Len(t) = Len(q) + Len(s)
  BY Joined
<1>3. Len(Root) <= Len(t) /\ Root = Upto(t, Len(Root))
  BY <1>2, Inside
<1>4. CASE Len(Root) <= Len(q)
  <2>1. Len(Root) \in 0..Len(q)
    BY <1>1, <1>2, <1>4
  <2>2. Upto(t, Len(Root)) = Upto(q, Len(Root))
    BY <2>1, UptoJoined
  <2> QED BY <1>3, <1>4, <2>2, Inside
<1>5. CASE Len(Root) >= k
  <2>1. k \in 1..Len(t) /\ Len(Root) \in 1..Len(t) /\ k \in 0..Len(Root)
    BY <1>1, <1>2, <1>3, <1>5
  <2>2. Upto(t, k) = Append(q, s[1])
    <3>1. Upto(t, k) = Append(Upto(t, k - 1), t[k])
      BY <1>2, <2>1, AboveIt
    <3>2. t[k] = s[1]
      BY <1>2
    <3>3. Upto(t, k - 1) = q
      <4>1. k - 1 = Len(q) /\ Len(q) \in 0..Len(q)
        BY <1>2
      <4>2. Upto(t, Len(q)) = Upto(q, Len(q))
        BY <4>1, UptoJoined
      <4>3. Upto(q, Len(q)) = q
        BY DEF Upto
      <4> QED BY <4>1, <4>2, <4>3
    <3> QED BY <3>1, <3>2, <3>3
  <2>3. Upto(Root, k) = Upto(t, k)
    <3>1. \A m \in 0..Len(Root) : Upto(Upto(t, Len(Root)), m) = Upto(t, m)
      BY <1>2, <2>1, AboveIt
    <3> QED BY <1>3, <2>1, <3>1
  <2>4. Here(fs, Upto(Root, Len(Root))) /\ Len(Root) \in 0..Len(Root)
    BY <1>1 DEF IsFileSystem, IsDir, Here
  <2>5. Here(fs, Upto(Root, k))
    BY <1>1, <2>1, <2>4, NothingBelow
  <2> QED BY <2>2, <2>3, <2>5 DEF Here
<1> QED BY <1>1, <1>2, <1>4, <1>5

LEMMA CleanType ==
  ASSUME NEW segs \in Seq(Names)
  PROVE  Clean(segs) \in Seq(Names) /\ (segs = <<>> => Clean(segs) = <<>>)
<1> DEFINE N == Len(segs)
           P(g) == g = [n \in 0..N |-> IF n = 0 THEN <<>> ELSE Cleaned(g[n - 1], segs[n])]
           step == [n \in 1..N |-> [q \in Seq(Names) |-> Cleaned(q, segs[n])]]
<1>1. Clean(segs) = (CHOOSE g : P(g))[N]
  BY DEF Clean
<1>2. N \in Nat /\ \A n \in 1..N : segs[n] \in Names
  OBVIOUS
<1>3. ASSUME NEW q \in Seq(Names), NEW a \in Names PROVE Cleaned(q, a) \in Seq(Names)
  <2>1. q # <<>> => Front(q) \in Seq(Names)
    BY DEF Front
  <2> QED BY <2>1 DEF Cleaned
<1>4. step \in [1..N -> [Seq(Names) -> Seq(Names)]]
  BY <1>2, <1>3
<1>5. PICK f \in [0..N -> Seq(Names)] : f[0] = <<>> /\ \A n \in 1..N : f[n] = step[n][f[n - 1]]
  <2> DEFINE none == <<>>
  <2>1. N \in Nat /\ none \in Seq(Names)
    BY <1>2
  <2> HIDE DEF step, N, P, none
  <2>2. \E f \in [0..N -> Seq(Names)] : f[0] = none /\ \A n \in 1..N : f[n] = step[n][f[n - 1]]
    BY <1>4, <2>1, PathRecursion
  <2> QED BY <2>2 DEF none
<1>6. ASSUME NEW n \in 1..N PROVE f[n] = Cleaned(f[n - 1], segs[n])
  <2>1. f[n - 1] \in Seq(Names)
    <3>1. n - 1 \in 0..N
      BY <1>2
    <3> QED BY <1>5, <3>1
  <2>2. step[n][f[n - 1]] = Cleaned(f[n - 1], segs[n])
    BY <2>1
  <2> QED BY <1>5, <2>2
<1> HIDE DEF N, step
<1>7. P(f)
  <2> DEFINE g == [n \in 0..N |-> IF n = 0 THEN <<>> ELSE Cleaned(f[n - 1], segs[n])]
  <2>1. ASSUME NEW n \in 0..N PROVE f[n] = g[n]
    BY <1>2, <1>5, <1>6
  <2> QED BY <2>1, <1>5
<1> HIDE DEF P
<1>8. PICK g : P(g) /\ g = CHOOSE h : P(h)
  BY <1>7
<1>9. g[0] = <<>> /\ \A n \in 1..N : g[n] = Cleaned(g[n - 1], segs[n])
  BY <1>2, <1>8 DEF P
<1> DEFINE S == {n \in Nat : n <= N => g[n] \in Seq(Names)}
<1>10. 0 \in S
  <2>1. <<>> \in Seq(Names)
    OBVIOUS
  <2> QED BY <1>9, <2>1
<1>11. ASSUME NEW n \in S PROVE n + 1 \in S
  <2> SUFFICES ASSUME n + 1 <= N PROVE g[n + 1] \in Seq(Names)
    OBVIOUS
  <2>1. g[n] \in Seq(Names) /\ n + 1 \in 1..N /\ (n + 1) - 1 = n
    BY <1>2
  <2>2. g[n + 1] = Cleaned(g[n], segs[n + 1]) /\ segs[n + 1] \in Names
    BY <1>2, <1>9, <2>1
  <2> QED BY <1>3, <2>1, <2>2
<1>12. S = Nat
  <2> S \in SUBSET Nat
    OBVIOUS
  <2> HIDE DEF S
  <2> QED BY <1>10, <1>11, Induction
<1>13. g[N] \in Seq(Names)
  <2>1. N \in S
    BY <1>2, <1>12
  <2> QED BY <1>2, <2>1
<1>14. segs = <<>> => N = 0
  BY DEF N
<1> QED BY <1>1, <1>8, <1>9, <1>13, <1>14

LEMMA LstatThere ==
  ASSUME NEW fs, IsFileSystem(fs), NEW q \in Seq(Names), q \in DOMAIN fs
  PROVE  Lstat(fs, q) = Found(q)
<1>1. CASE q = <<>>
  BY <1>1 DEF Lstat
<1>2. CASE q # <<>>
  <2>1. Len(q) \in 1..Len(q) /\ Len(q) \in Nat
    BY <1>2
  <2>2. PICK k \in 1..Len(q) : k = Len(q)
    BY <2>1
  <2> DEFINE r == Upto(q, k - 1)
             a == q[k]
  <2>3. k - 1 \in 0..Len(q) /\ k - 1 \in 0..(Len(q) - 1) /\ a \in Names
    BY <2>1, <2>2
  <2>4. r \in Seq(Names)
    BY <2>3, Cut
  <2>5. Here(fs, r)
    BY <2>3, HereAbove
  <2>6. q = Append(r, a)
    <3>1. Upto(q, k) = Append(Upto(q, k - 1), q[k]) /\ Upto(q, Len(q)) = q
      BY AboveIt
    <3> QED BY <2>2, <3>1
  <2> HIDE DEF r, a
  <2>7. EvalSymlinks(fs, r) = Found(r)
    BY <2>4, <2>5, EvalHere
  <2>8. EvalSymlinks(fs, r).ok /\ EvalSymlinks(fs, r).at = r
    BY <2>7 DEF Found
  <2>9. Append(r, a) \in DOMAIN fs => Lstat(fs, Append(r, a)) = Found(Append(r, a))
    BY <2>3, <2>4, <2>8, OneMoreName
  <2> QED BY <2>6, <2>9
<1> QED BY <1>1, <1>2

LEMMA LstatHere ==
  ASSUME NEW fs, IsFileSystem(fs), NEW q \in Seq(Names), Here(fs, q)
  PROVE  Lstat(fs, q) = Found(q)
BY LstatThere DEF Here

LEMMA Errs == \A e, x : Err(e).ok = FALSE /\ Err(e).err = e /\ Found(x).ok = TRUE /\ Found(x).at = x
BY DEF Err, Found

\* Where a path leads whose last place that is looked at is n.
LEMMA Leads ==
  ASSUME NEW fs, IsFileSystem(fs), NEW p \in Seq(Names), NEW n \in 0..Len(p),
         Lstat(fs, Upto(p, n)) # Err("ENOENT"),
         \A m \in (n + 1)..Len(p) : Lstat(fs, Upto(p, m)) = Err("ENOENT")
  PROVE  LET v    == EvalSymlinks(fs, Upto(p, n))
             real == EvalSymlinks(fs, p)
         IN  /\ v.ok => /\ ~Stray(fs, p) /\ Deepest(fs, p) = v.at
                        /\ n = Len(p) => real = v
                        /\ n < Len(p) => /\ real = Err("ENOENT") /\ IsDir(fs, v.at)
                                         /\ Append(v.at, p[n + 1]) \notin DOMAIN fs
             /\ ~v.ok => real = v /\ (Stray(fs, p) \/ v.err \in {"ENOTDIR", "ELOOP"})
<1> DEFINE v == EvalSymlinks(fs, Upto(p, n))
           real == EvalSymlinks(fs, p)
<1>1. n \in Nat /\ Len(p) \in Nat /\ n <= Len(p) /\ DOMAIN p = 1..Len(p)
  OBVIOUS
<1>2. Upto(p, Len(p)) = p
  BY DEF Upto
<1>3. \A m \in 0..Len(p) : Upto(p, m) \in Seq(Names) /\ Len(Upto(p, m)) = m
  BY Cut
<1> HIDE DEF Upto
<1>4. ASSUME NEW m \in (n + 1)..Len(p) PROVE EvalSymlinks(fs, Upto(p, m)) = Err("ENOENT")
  <2>1. m \in 0..Len(p) /\ ~Lstat(fs, Upto(p, m)).ok
    BY <1>1, Errs
  <2> QED BY <2>1, AlongPath
<1>5. Stray(fs, p) <=> \E i \in 1..Len(p) : Lstat(fs, Upto(p, i)).ok /\ ~EvalSymlinks(fs, Upto(p, i)).ok
  BY <1>1 DEF Stray, Upto
<1>6. CASE v.ok
  <2>1. \A m \in 0..n : EvalSymlinks(fs, Upto(p, m)).ok
    <3> SUFFICES ASSUME NEW m \in 0..n, ~EvalSymlinks(fs, Upto(p, m)).ok PROVE FALSE
      OBVIOUS
    <3>1. m \in 0..Len(p) /\ n \in m..Len(p)
      BY <1>1
    <3>2. v = EvalSymlinks(fs, Upto(p, m))
      BY <3>1, AlongPath
    <3> QED BY <1>6, <3>2
  <2>2. ~Stray(fs, p)
    <3> SUFFICES ASSUME NEW i \in 1..Len(p),
                        Lstat(fs, Upto(p, i)).ok, ~EvalSymlinks(fs, Upto(p, i)).ok
                 PROVE  FALSE
      BY <1>5
    <3>1. i \in 0..n \/ i \in (n + 1)..Len(p)
      BY <1>1
    <3> QED BY <2>1, <3>1, Errs
  <2>3. Deepest(fs, p) = v.at
    <3> DEFINE below == {q \in Prefixes(p) : EvalSymlinks(fs, q).ok}
               best  == CHOOSE q \in below : \A r \in below : Len(r) <= Len(q)
    <3>1. Prefixes(p) = {Upto(p, m) : m \in 0..Len(p)}
      BY DEF Prefixes, Upto
    <3>2. Upto(p, n) \in below
      BY <1>6, <3>1
    <3>3. ASSUME NEW q \in below PROVE \E m \in 0..n : q = Upto(p, m)
      <4>1. PICK m \in 0..Len(p) : q = Upto(p, m)
        BY <3>1
      <4>2. m \in 0..n \/ m \in (n + 1)..Len(p)
        BY <1>1
      <4> QED BY <1>4, <4>1, <4>2, Errs
    <3>4. ASSUME NEW q \in below PROVE Len(q) <= n /\ (Len(q) = n => q = Upto(p, n)) /\ Len(q) \in Nat
      <4>1. PICK m \in 0..n : q = Upto(p, m)
        BY <3>3
      <4>2. Len(q) = m
        BY <1>1, <1>3, <4>1
      <4> QED BY <1>1, <4>1, <4>2
    <3>5. Len(Upto(p, n)) = n
      BY <1>3
    <3> HIDE DEF below
    <3>6. best \in below /\ \A r \in below : Len(r) <= Len(best)
      BY <3>2, <3>4, <3>5
    <3> HIDE DEF best
    <3>7. n <= Len(best)
      BY <3>2, <3>5, <3>6
    <3>8. Len(best) <= n /\ (Len(best) = n => best = Upto(p, n)) /\ Len(best) \in Nat
      BY <3>4, <3>6
    <3>9. best = Upto(p, n)
      BY <1>1, <3>7, <3>8
    <3> QED BY <3>9 DEF Deepest, best, below
  <2>4. n = Len(p) => real = v
    BY <1>2
  <2>5. ASSUME n < Len(p)
        PROVE  real = Err("ENOENT") /\ IsDir(fs, v.at) /\ Append(v.at, p[n + 1]) \notin DOMAIN fs
    <3>1. n + 1 \in (n + 1)..Len(p) /\ Len(p) \in (n + 1)..Len(p) /\ n + 1 \in 1..Len(p) /\ (n + 1) - 1 = n
      BY <1>1, <2>5
    <3>2. real = Err("ENOENT")
      BY <1>2, <1>4, <3>1
    <3> DEFINE r == Upto(p, n)
               a == p[n + 1]
    <3>3. Upto(p, n + 1) = Append(r, a)
      <4>1. Upto(p, n + 1) = Append(Upto(p, (n + 1) - 1), p[n + 1])
        BY <3>1, AboveIt
      <4> QED BY <3>1, <4>1
    <3>4. r \in Seq(Names) /\ a \in Names
      BY <1>3, <3>1
    <3>5. Lstat(fs, Append(r, a)) = Err("ENOENT")
      BY <3>1, <3>3
    <3>6. v = EvalSymlinks(fs, r)
      OBVIOUS
    <3> HIDE DEF r, a, v
    <3>7. /\ ~IsDir(fs, v.at) => Lstat(fs, Append(r, a)) = Err("ENOTDIR")
          /\ Append(v.at, a) \in DOMAIN fs => Lstat(fs, Append(r, a)) = Found(Append(v.at, a))
      BY <1>6, <3>4, <3>6, OneMoreName
    <3>8. Err("ENOTDIR") # Err("ENOENT") /\ Found(Append(v.at, a)) # Err("ENOENT")
      BY Errs
    <3> QED BY <3>2, <3>5, <3>7, <3>8 DEF a, v
  <2> QED BY <1>6, <2>2, <2>3, <2>4, <2>5
<1>7. CASE ~v.ok
  <2>1. real = v
    <3>1. Len(p) \in n..Len(p)
      BY <1>1
    <3> QED BY <1>2, <1>7, <3>1, AlongPath
  <2>2. CASE Lstat(fs, Upto(p, n)).ok
    <3>1. n # 0
      BY <1>7, AlongPath, Errs
    <3>2. n \in 1..Len(p)
      BY <1>1, <3>1
    <3> QED BY <1>5, <1>7, <2>1, <2>2, <3>2
  <2>3. CASE ~Lstat(fs, Upto(p, n)).ok
    <3>1. v = Lstat(fs, Upto(p, n))
      BY <2>3, AlongPath
    <3>2. \E e \in {"ENOENT", "ENOTDIR", "ELOOP"} : v = Err(e)
      BY <1>3, <1>7, EvalFinds
    <3>3. v.err \in {"ENOTDIR", "ELOOP"}
      BY <3>1, <3>2, Errs
    <3> QED BY <1>7, <2>1, <3>3
  <2> QED BY <2>2, <2>3
<1> QED BY <1>6, <1>7

\* What is below a missing name is missing.
LEMMA Missing ==
  ASSUME NEW fs, IsFileSystem(fs), NEW q \in Seq(Names), IsDir(fs, q), Here(fs, q),
         NEW s \in Seq(Names), s # <<>>, Append(q, s[1]) \notin DOMAIN fs
  PROVE  Lstat(fs, q \o s) = Err("ENOENT")
<1> DEFINE t == q \o s
           k == Len(q) + 1
           a == s[1]
<1>1. Len(q) \in Nat /\ Len(s) \in Nat /\ Len(s) >= 1 /\ t \in Seq(Names) /\ Len(t) = Len(q) + Len(s) /\ a \in Names
  <2>1. Len(s) >= 1 /\ a \in Names
    OBVIOUS
  <2> QED BY <2>1, Joined
<1>2. k \in 1..Len(t) /\ k - 1 = Len(q) /\ Len(q) \in 0..Len(q)
  BY <1>1
<1>3. Upto(t, k) = Append(q, a)
  <2>1. Upto(t, k) = Append(Upto(t, k - 1), t[k])
    BY <1>1, <1>2, AboveIt
  <2>2. t[k] = a
    BY <1>1
  <2>3. Upto(t, Len(q)) = Upto(q, Len(q))
    BY <1>2, UptoJoined
  <2>4. Upto(q, Len(q)) = q
    BY DEF Upto
  <2> QED BY <1>2, <2>1, <2>2, <2>3, <2>4
<1>4. Lstat(fs, Append(q, a)) = Err("ENOENT")
  <2>1. EvalSymlinks(fs, q) = Found(q)
    BY EvalHere
  <2>2. EvalSymlinks(fs, q).ok /\ EvalSymlinks(fs, q).at = q
    BY <2>1, Errs
  <2>3. Append(q, a) \notin DOMAIN fs
    OBVIOUS
  <2> HIDE DEF a
  <2> QED BY <1>1, <2>2, <2>3, OneMoreName
<1>5. Upto(t, Len(t)) = t
  BY DEF Upto
<1> HIDE DEF t, k, a, Upto
<1>6. CASE k = Len(t)
  BY <1>3, <1>4, <1>5, <1>6 DEF t
<1>7. CASE k # Len(t)
  <2>1. k \in 0..Len(t) /\ Len(t) \in (k + 1)..Len(t)
    BY <1>1, <1>2, <1>7
  <2>2. ~Lstat(fs, Upto(t, k)).ok
    BY <1>3, <1>4, Errs
  <2>3. EvalSymlinks(fs, Upto(t, k)) = Err("ENOENT")
    <3>1. EvalSymlinks(fs, Upto(t, k)) = Lstat(fs, Upto(t, k))
      BY <1>1, <2>1, <2>2, AlongPath
    <3> QED BY <1>3, <1>4, <3>1
  <2>4. Lstat(fs, Upto(t, Len(t))) = EvalSymlinks(fs, Upto(t, k))
    BY <1>1, <2>1, <2>3, AlongPath, Errs
  <2> QED BY <1>5, <2>3, <2>4 DEF t
<1> QED BY <1>6, <1>7

LEMMA ReadLemma ==
  ASSUME NEW fs, IsFileSystem(fs), NEW req \in Texts
  PROVE  ReadIsTrue(fs, req, ReadFile(fs, req))
<1> DEFINE c    == Clean(req.segs)
           p    == Root \o c
           real == EvalSymlinks(fs, p)
           res  == resolveExisting(fs, p)
           res0 == ReadFile(fs, req)
           stray == Stray(fs, p)
           deep == Deepest(fs, p)
           strays == c # <<>> /\ c[1] = ".."
           \* What an error has to say.
           okErr(e) ==
             /\ e = "PATH_OUTSIDE_WORKSPACE" <=> req.abs \/ strays
             /\ e = "SYMLINK_ESCAPE" => ~IsPrefix(Root, deep) /\ ~stray
             /\ e = "WORKSPACE_FILE_NOT_FOUND" =>
                  ~real.ok /\ real.err = "ENOENT" /\ ~stray /\ IsPrefix(Root, deep)
             /\ e = "INVALID_PATH" =>
                  \/ c = <<>> \/ stray
                  \/ ~real.ok /\ real.err \in {"ENOTDIR", "ELOOP"}
                  \/ real.ok /\ IsPrefix(Root, real.at) /\ IsDir(fs, real.at)
             /\ e \in {"FILE_TOO_LARGE", "INVALID_ARGUMENT"} =>
                  Blank(req) \/ (real.ok /\ IsPrefix(Root, real.at) /\ fs[real.at].kind = "file")
             /\ e # "INTERNAL_ERROR"
<1>1. req.segs \in Seq(Names) /\ req.abs \in BOOLEAN
  BY DEF Texts
<1>2. c \in Seq(Names) /\ (req.segs = <<>> => c = <<>>)
  BY <1>1, CleanType
<1>3. Root \in Seq(Names) /\ p \in Seq(Names)
  BY <1>2, FilesAssumption, Joined
<1>4. ASSUME NEW e, res0 = Err(e), okErr(e) PROVE ReadIsTrue(fs, req, res0)
  <2>1. ~res0.ok /\ res0.err = e
    BY <1>4, Errs
  <2> HIDE DEF res0
  <2> QED BY <1>4, <2>1 DEF ReadIsTrue
<1>5. CASE Blank(req)
  <2>1. res0 = Err("INVALID_ARGUMENT")
    BY <1>5 DEF ReadFile
  <2>2. ~req.abs /\ ~strays
    BY <1>2, <1>5 DEF Blank
  <2>3. okErr("INVALID_ARGUMENT")
    BY <1>5, <2>2
  <2> HIDE DEF okErr, res0
  <2>4. ReadIsTrue(fs, req, res0)
    BY <1>4, <2>1, <2>3
  <2> QED BY <2>4 DEF res0
<1>6. ASSUME ~Blank(req) PROVE res0 = ReadTextFile(fs, req)
  BY <1>6 DEF ReadFile
<1> DEFINE path == ResolvePath(fs, req)
<1>7. path = IF req.abs THEN Err("PATH_OUTSIDE_WORKSPACE")
             ELSE IF c = <<>> THEN Err("INVALID_PATH")
             ELSE IF strays THEN Err("PATH_OUTSIDE_WORKSPACE")
             ELSE IF ~res.ok THEN Err("INVALID_PATH")
             ELSE IF IsPrefix(Root, res.at) THEN res
             ELSE IF pathHadSymlink(fs, p) THEN Err("SYMLINK_ESCAPE")
             ELSE Err("PATH_OUTSIDE_WORKSPACE")
  <2>1. c # <<>> => Head(c) = c[1]
    BY <1>2
  <2> QED BY <2>1 DEF ResolvePath, Judged, isEscapeRel, withinRoot
<1>8. ASSUME ~Blank(req), ~path.ok PROVE res0 = path
  BY <1>6, <1>8 DEF ReadTextFile, ReadResolved
<1> HIDE DEF path
<1>9. ASSUME ~Blank(req), NEW e, path = Err(e), okErr(e) PROVE ReadIsTrue(fs, req, res0)
  <2>1. res0 = Err(e)
    BY <1>8, <1>9, Errs
  <2> HIDE DEF okErr, res0
  <2> QED BY <1>4, <1>9, <2>1
<1>10. CASE ~Blank(req) /\ (req.abs \/ c = <<>> \/ strays)
  <2>1. CASE req.abs \/ (c # <<>> /\ strays)
    <3>1. path = Err("PATH_OUTSIDE_WORKSPACE")
      BY <1>7, <2>1
    <3>2. okErr("PATH_OUTSIDE_WORKSPACE")
      BY <2>1
    <3> HIDE DEF okErr, res0
    <3>3. ReadIsTrue(fs, req, res0)
      BY <1>9, <1>10, <3>1, <3>2
    <3> QED BY <3>3 DEF res0
  <2>2. CASE ~req.abs /\ c = <<>>
    <3>1. path = Err("INVALID_PATH")
      BY <1>7, <2>2
    <3>2. okErr("INVALID_PATH")
      BY <2>2
    <3> HIDE DEF okErr, res0
    <3>3. ReadIsTrue(fs, req, res0)
      BY <1>9, <1>10, <3>1, <3>2
    <3> QED BY <3>3 DEF res0
  <2> QED BY <1>1, <1>10, <2>1, <2>2
<1>11. CASE ~Blank(req) /\ ~req.abs /\ c # <<>> /\ ~strays
  <2>1. PICK n \in 0..Len(p) :
          /\ Lstat(fs, Upto(p, n)) # Err("ENOENT")
          /\ \A m \in (n + 1)..Len(p) : Lstat(fs, Upto(p, m)) = Err("ENOENT")
          /\ res = IF ~EvalSymlinks(fs, Upto(p, n)).ok THEN EvalSymlinks(fs, Upto(p, n))
                   ELSE Found(EvalSymlinks(fs, Upto(p, n)).at \o Past(p, n))
    BY <1>3, Resolution
  <2> DEFINE v    == EvalSymlinks(fs, Upto(p, n))
             q    == v.at
             rest == Past(p, n)
             t    == q \o rest
  <2>2. /\ v.ok => /\ ~stray /\ deep = q
                   /\ n = Len(p) => real = v
                   /\ n < Len(p) => real = Err("ENOENT") /\ IsDir(fs, q) /\ Append(q, p[n + 1]) \notin DOMAIN fs
        /\ ~v.ok => real = v /\ (stray \/ v.err \in {"ENOTDIR", "ELOOP"})
    BY <1>3, <2>1, Leads
  <2>3. Upto(p, n) \in Seq(Names) /\ rest \in Seq(Names) /\ Len(rest) = Len(p) - n /\ Len(p) \in Nat /\ n \in Nat
    <3>1. Len(p) \in Nat /\ n \in Nat
      BY <1>3
    <3> QED BY <1>3, <3>1, Cut
  <2>4. \A i \in 1..(Len(p) - n) : rest[i] = p[n + i]
    BY <1>3, Cut
  <2>5. v.ok => v = Found(q) /\ q \in Seq(Names) /\ Here(fs, q)
    BY <2>3, EvalFinds
  <2>6. IsPrefix(Root, p)
    BY <1>2, Inside
  <2>7. p = Upto(p, n) \o rest
    BY <1>3, CutJoins
  <2>8. ~v.ok => res = v
    BY <2>1
  <2>9. v.ok => res = Found(t)
    BY <2>1
  <2>10. ~pathHadSymlink(fs, p) /\ v.ok => v = Found(Upto(p, n))
    BY <1>3, NoLinks
  <2> HIDE DEF v, q, rest, p, c
  <2>11. CASE ~v.ok
    <3>1. path = Err("INVALID_PATH")
      BY <1>7, <1>11, <2>8, <2>11
    <3>2. okErr("INVALID_PATH")
      BY <1>11, <2>2, <2>11
    <3> HIDE DEF okErr, res0
    <3>3. ReadIsTrue(fs, req, res0)
      BY <1>9, <1>11, <3>1, <3>2
    <3> QED BY <3>3 DEF res0
  <2>12. CASE v.ok /\ ~IsPrefix(Root, t)
    <3>1. pathHadSymlink(fs, p)
      <4> SUFFICES ASSUME ~pathHadSymlink(fs, p) PROVE FALSE
        OBVIOUS
      <4>1. q = Upto(p, n)
        BY <2>10, <2>12, Errs DEF q
      <4> QED BY <2>6, <2>7, <2>12, <4>1
    <3>2. path = Err("SYMLINK_ESCAPE")
      BY <1>7, <1>11, <2>9, <2>12, <3>1, Errs
    <3>3. ~IsPrefix(Root, q)
      BY <2>3, <2>5, <2>12, Inside
    <3>4. okErr("SYMLINK_ESCAPE")
      BY <1>11, <2>2, <2>12, <3>3
    <3> HIDE DEF okErr, res0
    <3>5. ReadIsTrue(fs, req, res0)
      BY <1>9, <1>11, <3>2, <3>4
    <3> QED BY <3>5 DEF res0
  <2>13. CASE v.ok /\ IsPrefix(Root, t)
    <3> DEFINE node == Lstat(fs, path.at)
    <3>1. path.ok /\ path.at = t
      BY <1>7, <1>11, <2>9, <2>13, Errs
    <3>2. CASE n < Len(p)
      <4>1. rest # <<>> /\ rest[1] = p[n + 1]
        BY <2>3, <2>4, <3>2
      <4>2. Append(q, rest[1]) \notin DOMAIN fs /\ IsDir(fs, q) /\ q \in Seq(Names) /\ Here(fs, q)
        BY <2>2, <2>5, <2>13, <3>2, <4>1
      <4>3. Lstat(fs, t) = Err("ENOENT")
        BY <2>3, <4>1, <4>2, Missing
      <4>4. IsPrefix(Root, q)
        BY <2>3, <2>13, <4>1, <4>2, InsideAlready
      <4>5. ~node.ok /\ node.err = "ENOENT"
        BY <3>1, <4>3, Errs
      <4>6. res0 = Err("WORKSPACE_FILE_NOT_FOUND")
        BY <1>6, <1>11, <3>1, <4>5 DEF ReadTextFile, ReadResolved, ReadNode, path
      <4>7. okErr("WORKSPACE_FILE_NOT_FOUND")
        BY <1>11, <2>2, <2>13, <3>2, <4>4, Errs
      <4> HIDE DEF okErr, res0
      <4>8. ReadIsTrue(fs, req, res0)
        BY <1>4, <4>6, <4>7
      <4> QED BY <4>8 DEF res0
    <3>3. CASE n = Len(p)
      <4>1. t = q
        <5>1. rest = <<>>
          BY <2>3, <3>3
        <5> QED BY <2>5, <2>13, <5>1
      <4>2. real = Found(q) /\ IsPrefix(Root, q) /\ Here(fs, q) /\ q \in Seq(Names)
        BY <2>2, <2>5, <2>13, <3>3, <4>1
      <4>3. real.ok /\ real.at = q
        BY <4>2, Errs
      <4>4. node = Found(q)
        BY <3>1, <4>1, <4>2, LstatHere
      <4>5. node.ok /\ node.at = q
        BY <4>4, Errs
      <4>6. ~IsDir(fs, q) => fs[q].kind = "file"
        BY <4>2 DEF Here, IsDir, IsFileSystem, Kinds
      <4> DEFINE content == fs[q].bytes
      <4>7. res0 = IF IsDir(fs, q) THEN Err("INVALID_PATH")
                   ELSE IF Len(content) > MaxFileBytes THEN Err("FILE_TOO_LARGE")
                   ELSE IF ~Utf8(content) THEN Err("INVALID_ARGUMENT")
                   ELSE [ok |-> TRUE, path |-> Clean(req.segs), content |-> content]
        BY <1>6, <1>11, <3>1, <4>5 DEF ReadTextFile, ReadResolved, ReadNode, path
      <4>8. CASE IsDir(fs, q)
        <5>1. okErr("INVALID_PATH")
          BY <1>11, <4>2, <4>3, <4>8
        <5> HIDE DEF okErr, res0
        <5>2. ReadIsTrue(fs, req, res0)
          BY <1>4, <4>7, <4>8, <5>1
        <5> QED BY <5>2 DEF res0
      <4>9. CASE ~IsDir(fs, q)
        <5>1. okErr("FILE_TOO_LARGE") /\ okErr("INVALID_ARGUMENT")
          BY <1>11, <4>2, <4>3, <4>6, <4>9
        <5> HIDE DEF okErr, res0
        <5>2. CASE Len(content) > MaxFileBytes
          <6>1. ReadIsTrue(fs, req, res0)
            BY <1>4, <4>7, <4>9, <5>1, <5>2
          <6> QED BY <6>1 DEF res0
        <5>3. CASE ~(Len(content) > MaxFileBytes) /\ ~Utf8(content)
          <6>1. ReadIsTrue(fs, req, res0)
            BY <1>4, <4>7, <4>9, <5>1, <5>3
          <6> QED BY <6>1 DEF res0
        <5>4. CASE ~(Len(content) > MaxFileBytes) /\ Utf8(content)
          <6>1. res0.ok /\ res0.content = content
            BY <4>7, <4>9, <5>4
          <6>2. ReadIsTrue(fs, req, res0)
            BY <4>2, <4>3, <4>6, <4>9, <6>1 DEF ReadIsTrue, p, c
          <6> QED BY <6>2 DEF res0
        <5> QED BY <5>2, <5>3, <5>4
      <4> QED BY <4>8, <4>9
    <3> QED BY <2>3, <3>2, <3>3
  <2> QED BY <2>11, <2>12, <2>13
<1> QED BY <1>5, <1>10, <1>11

LEMMA ReadsLemma ==
  ASSUME NEW fs, IsFileSystem(fs), NEW reqs \in Seq(Texts)
  PROVE  ReadsAreTrue(fs, reqs, ReadFiles(fs, reqs))
<1> DEFINE N     == Len(reqs)
           files == [i \in DOMAIN reqs |-> ReadFile(fs, reqs[i])]
           good  == {i \in DOMAIN files : files[i].ok}
           bad   == {i \in DOMAIN files : ~files[i].ok}
           r     == ReadTextFiles(fs, reqs)
           res   == ReadFiles(fs, reqs)
<1>1. N \in Nat /\ DOMAIN reqs = 1..N /\ (reqs = <<>> <=> N = 0)
  OBVIOUS
<1>2. \A i \in 1..N : ReadIsTrue(fs, reqs[i], files[i])
  <2> SUFFICES ASSUME NEW i \in 1..N PROVE ReadIsTrue(fs, reqs[i], files[i])
    OBVIOUS
  <2>1. reqs[i] \in Texts /\ i \in DOMAIN reqs
    OBVIOUS
  <2> QED BY <2>1, ReadLemma
<1>3. \A i \in 1..N : ~files[i].ok => files[i].err # "none"
  <2> SUFFICES ASSUME NEW i \in 1..N, ~files[i].ok PROVE files[i].err # "none"
    OBVIOUS
  <2>1. reqs[i] \in Texts /\ i \in DOMAIN reqs /\ files[i] = ReadFile(fs, reqs[i])
    OBVIOUS
  <2>2. files[i].err \in {"INVALID_ARGUMENT", "PATH_OUTSIDE_WORKSPACE", "INVALID_PATH", "SYMLINK_ESCAPE",
                          "WORKSPACE_FILE_NOT_FOUND", "INTERNAL_ERROR", "FILE_TOO_LARGE"}
    <3> DEFINE q == reqs[i]
               path == ResolvePath(fs, q)
               node == Lstat(fs, path.at)
    <3>1. ~path.ok => \E e \in {"PATH_OUTSIDE_WORKSPACE", "INVALID_PATH", "SYMLINK_ESCAPE"} : path = Err(e)
      BY DEF ResolvePath, Judged
    <3>2. ~ReadFile(fs, q).ok => \E e \in {"INVALID_ARGUMENT", "PATH_OUTSIDE_WORKSPACE", "INVALID_PATH",
                          "SYMLINK_ESCAPE", "WORKSPACE_FILE_NOT_FOUND", "INTERNAL_ERROR", "FILE_TOO_LARGE"} :
                          ReadFile(fs, q) = Err(e)
      <4> HIDE DEF q, path
      <4> QED BY <3>1 DEF ReadFile, ReadTextFile, ReadResolved, ReadNode, path
    <3> QED BY <2>1, <3>2, Errs
  <2> QED BY <2>2
<1>4. files = [i \in 1..N |-> files[i]] /\ DOMAIN files = 1..N /\ Len(files) = N /\ (files = <<>> <=> N = 0)
  <2>1. files = [i \in 1..N |-> files[i]] /\ DOMAIN files = 1..N
    BY <1>1
  <2> HIDE DEF files
  <2> QED BY <1>1, <2>1
<1>5. /\ r.files = files
      /\ r.failed = Cardinality(bad) /\ r.success = Cardinality(good)
  BY DEF ReadTextFiles, Tally
<1>6. IsFiniteSet(good) /\ IsFiniteSet(bad) /\ good \cup bad = 1..N /\ good \cap bad = {}
  <2> DEFINE all == 1..N
  <2>1. IsFiniteSet(all)
    BY <1>1, FS_Interval
  <2>2. good \in SUBSET all /\ bad \in SUBSET all /\ good \cup bad = all /\ good \cap bad = {}
    BY <1>4
  <2> HIDE DEF good, bad, all
  <2>3. IsFiniteSet(good) /\ IsFiniteSet(bad)
    BY <2>1, <2>2, FS_Subset
  <2> QED BY <2>2, <2>3 DEF all
<1>7. (Cardinality(good) = 0 <=> good = {}) /\ (Cardinality(bad) = 0 <=> bad = {})
  <2> HIDE DEF good, bad
  <2> QED BY <1>6, FS_EmptySet
<1> HIDE DEF files, good, bad, r, N
<1>8. CASE N = 0
  <2>1. res = [status |-> "FAILED", files |-> <<>>, error |-> "INVALID_ARGUMENT"]
    BY <1>1, <1>8 DEF ReadFiles
  <2> HIDE DEF res
  <2>2. res.files = <<>> /\ res.status = "FAILED" /\ res.error # "none"
    BY <2>1
  <2>3. {i \in DOMAIN res.files : res.files[i].ok} = {} /\ Len(res.files) = 0
    BY <2>2
  <2>4. ReadsAreTrue(fs, reqs, res)
    BY <1>1, <1>8, <2>2, <2>3 DEF ReadsAreTrue, N
  <2> QED BY <2>4 DEF res
<1>9. CASE N # 0
  <2>1. res = ReadFilesResponse(r)
    BY <1>1, <1>9 DEF ReadFiles, r
  <2>2. OverallStatus(r) = IF bad = {} THEN "SUCCESS" ELSE IF good = {} THEN "FAILED" ELSE "PARTIAL"
    BY <1>4, <1>5, <1>7, <1>9 DEF OverallStatus
  <2>3. OverallStatus(r) = IF good = {} THEN "FAILED" ELSE IF good = DOMAIN reqs THEN "SUCCESS" ELSE "PARTIAL"
    <3>1. 1 \in 1..N
      BY <1>1, <1>9
    <3>2. (bad = {} <=> good = 1..N) /\ ~(good = {} /\ bad = {})
      BY <1>6, <3>1
    <3> QED BY <1>1, <2>2, <3>1, <3>2
  <2> HIDE DEF res
  <2>4. /\ res.status = OverallStatus(r) /\ res.files = files
        /\ res.error = IF OverallStatus(r) = "FAILED" THEN files[1].err ELSE "none"
    BY <1>5, <2>1 DEF ReadFilesResponse
  <2>5. good = {} => files[1].err # "none"
    <3>1. 1 \in 1..N
      BY <1>1, <1>9
    <3> QED BY <1>3, <1>4, <3>1 DEF good
  <2>6. good = {i \in DOMAIN res.files : res.files[i].ok}
    BY <2>4 DEF good
  <2>7. res.error # "none" <=> good = {}
    BY <2>3, <2>4, <2>5
  <2>8. ReadsAreTrue(fs, reqs, res)
    <3>1. Len(res.files) = Len(reqs)
      BY <1>4, <2>4 DEF N
    <3>2. \A i \in DOMAIN reqs : ReadIsTrue(fs, reqs[i], res.files[i])
      BY <1>1, <1>2, <2>4
    <3>3. res.status = IF good = {} THEN "FAILED" ELSE IF good = DOMAIN reqs THEN "SUCCESS" ELSE "PARTIAL"
      BY <2>3, <2>4
    <3> QED BY <2>6, <2>7, <3>1, <3>2, <3>3 DEF ReadsAreTrue
  <2> QED BY <2>8 DEF res
<1> QED BY <1>8, <1>9

-----------------------------------------------------------------------------
(* The diff of two files                                                   *)

Steps(T, N) == [1..N -> [T -> T]]

HasRun(T, N, base, step) ==
  \E f \in [0..N -> T] : f[0] = base /\ \A n \in 1..N : f[n] = step[n][f[n - 1]]

LEMMA Runs ==
  ASSUME NEW T, NEW base \in T, NEW N \in Nat, NEW step \in Steps(T, N)
  PROVE  HasRun(T, N, base, step)
BY Recursion DEF Steps, HasRun

\* The same from N + 1 down.
HasRunDown(T, N, base, step) ==
  \E f \in [1..(N + 1) -> T] : f[N + 1] = base /\ \A n \in 1..N : f[n] = step[n][f[n + 1]]

LEMMA RunsDown ==
  ASSUME NEW T, NEW base \in T, NEW N \in Nat, NEW step \in Steps(T, N)
  PROVE  HasRunDown(T, N, base, step)
<1> DEFINE back == [k \in 1..N |-> step[N + 1 - k]]
<1>1. back \in Steps(T, N)
  <2> SUFFICES ASSUME NEW k \in 1..N PROVE step[N + 1 - k] \in [T -> T]
    BY DEF Steps
  <2>1. N + 1 - k \in 1..N
    OBVIOUS
  <2> QED BY <2>1 DEF Steps
<1>2. \A k \in 1..N : back[k] = step[N + 1 - k]
  OBVIOUS
<1> HIDE DEF back
<1>3. HasRun(T, N, base, back)
  BY <1>1, Runs
<1>4. PICK h \in [0..N -> T] : h[0] = base /\ \A k \in 1..N : h[k] = back[k][h[k - 1]]
  BY <1>3 DEF HasRun
<1> DEFINE f == [n \in 1..(N + 1) |-> h[N + 1 - n]]
<1>5. f \in [1..(N + 1) -> T]
  <2> SUFFICES ASSUME NEW n \in 1..(N + 1) PROVE h[N + 1 - n] \in T
    OBVIOUS
  <2>1. N + 1 - n \in 0..N
    OBVIOUS
  <2> QED BY <2>1
<1>6. f[N + 1] = base
  BY <1>4
<1>7. ASSUME NEW n \in 1..N PROVE f[n] = step[n][f[n + 1]]
  <2> DEFINE k == N + 1 - n
  <2>1. k \in 1..N /\ N + 1 - k = n /\ n + 1 \in 1..(N + 1) /\ N + 1 - (n + 1) = k - 1 /\ n \in 1..(N + 1)
    OBVIOUS
  <2>2. f[n] = h[k] /\ f[n + 1] = h[k - 1]
    BY <2>1
  <2>3. h[k] = step[n][h[k - 1]]
    BY <1>2, <1>4, <2>1
  <2> QED BY <2>2, <2>3
<1> HIDE DEF f
<1> QED BY <1>5, <1>6, <1>7 DEF HasRunDown

Operators == {"keep", "del", "add"}

OpsOf(L) == [kind : Operators, line : L]

\* What Side makes of a longer body, of a body whose n first operations are read.
SideSteps(body, kind, s) ==
  s[0] = <<>> /\ \A n \in 1..Len(body) : s[n] = Taken(s[n - 1], body[n], kind)

LEMMA TakenType ==
  ASSUME NEW L, NEW lines \in Seq(L), NEW op \in OpsOf(L), NEW kind
  PROVE  Taken(lines, op, kind) \in Seq(L)
BY DEF Taken, OpsOf

LEMMA SideIs ==
  ASSUME NEW L, NEW body \in Seq(OpsOf(L)), NEW kind
  PROVE  \E s \in [0..Len(body) -> Seq(L)] : SideSteps(body, kind, s) /\ Side(body, kind) = s[Len(body)]
<1> DEFINE N == Len(body)
           P(g) == g = [n \in 0..N |-> IF n = 0 THEN <<>> ELSE Taken(g[n - 1], body[n], kind)]
           step == [n \in 1..N |-> [q \in Seq(L) |-> Taken(q, body[n], kind)]]
           none == <<>>
<1>1. Side(body, kind) = (CHOOSE g : P(g))[N]
  BY DEF Side
<1>2. N \in Nat /\ \A n \in 1..N : body[n] \in OpsOf(L)
  OBVIOUS
<1>3. step \in Steps(Seq(L), N)
  BY <1>2, TakenType DEF Steps
<1>4. none \in Seq(L)
  OBVIOUS
<1>5. PICK f \in [0..N -> Seq(L)] : f[0] = none /\ \A n \in 1..N : f[n] = step[n][f[n - 1]]
  <2> HIDE DEF step, N, P, none
  <2>1. HasRun(Seq(L), N, none, step)
    BY <1>2, <1>3, <1>4, Runs
  <2> QED BY <2>1 DEF HasRun
<1>6. ASSUME NEW n \in 1..N PROVE f[n] = Taken(f[n - 1], body[n], kind)
  <2>1. f[n - 1] \in Seq(L)
    <3>1. n - 1 \in 0..N
      BY <1>2
    <3> QED BY <1>5, <3>1
  <2> QED BY <1>5, <2>1
<1> HIDE DEF step
<1>7. P(f)
  <2> DEFINE g == [n \in 0..N |-> IF n = 0 THEN <<>> ELSE Taken(f[n - 1], body[n], kind)]
  <2>1. ASSUME NEW n \in 0..N PROVE f[n] = g[n]
    BY <1>2, <1>5, <1>6
  <2> QED BY <2>1, <1>5
<1> HIDE DEF P
<1>8. PICK g : P(g) /\ g = CHOOSE h : P(h)
  BY <1>7
<1>9. /\ g = [n \in 0..N |-> IF n = 0 THEN <<>> ELSE Taken(g[n - 1], body[n], kind)]
      /\ g[0] = <<>> /\ \A n \in 1..N : g[n] = Taken(g[n - 1], body[n], kind)
  <2>1. g = [n \in 0..N |-> IF n = 0 THEN <<>> ELSE Taken(g[n - 1], body[n], kind)]
    BY <1>8 DEF P
  <2>2. g[0] = <<>>
    BY <1>2, <2>1
  <2>3. \A n \in 1..N : g[n] = Taken(g[n - 1], body[n], kind)
    BY <1>2, <2>1
  <2> QED BY <2>1, <2>2, <2>3
<1> DEFINE S == {n \in Nat : n <= N => g[n] \in Seq(L)}
<1>10. 0 \in S
  BY <1>9
<1>11. ASSUME NEW n \in S PROVE n + 1 \in S
  <2> SUFFICES ASSUME n + 1 <= N PROVE g[n + 1] \in Seq(L)
    OBVIOUS
  <2>1. n + 1 \in 1..N /\ g[n] \in Seq(L) /\ (n + 1) - 1 = n
    BY <1>2
  <2>2. g[n + 1] = Taken(g[n], body[n + 1], kind)
    BY <1>9, <2>1
  <2> QED BY <1>2, <2>1, <2>2, TakenType
<1>12. S = Nat
  <2> S \in SUBSET Nat
    OBVIOUS
  <2> HIDE DEF S
  <2> QED BY <1>10, <1>11, Induction
<1>13. \A n \in 0..N : g[n] \in Seq(L)
  BY <1>2, <1>12
<1>14. g \in [0..N -> Seq(L)]
  BY <1>9, <1>13
<1>15. SideSteps(body, kind, g)
  BY <1>9 DEF SideSteps
<1> QED BY <1>1, <1>8, <1>14, <1>15

LEMMA SideGrows ==
  ASSUME NEW L, NEW body \in Seq(OpsOf(L)), NEW op \in OpsOf(L), NEW kind
  PROVE  /\ Side(body, kind) \in Seq(L)
         /\ Side(Append(body, op), kind) = Taken(Side(body, kind), op, kind)
<1> DEFINE more == Append(body, op)
           N == Len(body)
<1>1. N \in Nat /\ more \in Seq(OpsOf(L)) /\ Len(more) = N + 1 /\ more[N + 1] = op
      /\ \A n \in 1..N : more[n] = body[n]
  OBVIOUS
<1>11. N \in Nat /\ Len(more) = N + 1
  BY <1>1
<1>2. PICK s \in [0..N -> Seq(L)] : SideSteps(body, kind, s) /\ Side(body, kind) = s[N]
  BY SideIs
<1> HIDE DEF more
<1>3. PICK t \in [0..Len(more) -> Seq(L)] : SideSteps(more, kind, t) /\ Side(more, kind) = t[Len(more)]
  BY <1>1, SideIs
<1> HIDE DEF N
<1> DEFINE S == {n \in Nat : n <= N => s[n] = t[n]}
<1>4. 0 \in S
  BY <1>2, <1>3 DEF SideSteps
<1>5. ASSUME NEW n \in S PROVE n + 1 \in S
  <2> SUFFICES ASSUME n + 1 <= N PROVE s[n + 1] = t[n + 1]
    OBVIOUS
  <2>1. n + 1 \in 1..N /\ n + 1 \in 1..Len(more) /\ (n + 1) - 1 = n /\ s[n] = t[n]
    BY <1>11
  <2>2. N = Len(body)
    BY DEF N
  <2>3. s[n + 1] = Taken(s[n], body[n + 1], kind)
    BY <1>2, <2>1, <2>2 DEF SideSteps
  <2>4. t[n + 1] = Taken(t[n], more[n + 1], kind)
    BY <1>3, <2>1 DEF SideSteps
  <2> QED BY <1>1, <2>1, <2>3, <2>4
<1>6. S = Nat
  <2> S \in SUBSET Nat
    OBVIOUS
  <2> HIDE DEF S
  <2> QED BY <1>4, <1>5, Induction
<1>7. t[N] = s[N]
  <2>1. N \in S
    BY <1>1, <1>6
  <2> QED BY <1>1, <2>1
<1>8. N + 1 \in 1..Len(more) /\ (N + 1) - 1 = N
  BY <1>11
<1>9. t[N + 1] = Taken(t[N], op, kind)
  BY <1>1, <1>3, <1>8 DEF SideSteps
<1>10. s[N] \in Seq(L)
  BY <1>1, <1>2
<1> QED BY <1>1, <1>2, <1>3, <1>7, <1>9, <1>10 DEF more

LEMMA SideOfNone ==
  ASSUME NEW kind PROVE Side(<<>>, kind) = <<>>
<1> DEFINE L == {}
           none == <<>>
<1>1. none \in Seq(OpsOf(L)) /\ Len(none) = 0
  OBVIOUS
<1> HIDE DEF none
<1>2. PICK s \in [0..Len(none) -> Seq(L)] : SideSteps(none, kind, s) /\ Side(none, kind) = s[Len(none)]
  BY <1>1, SideIs
<1>3. s[0] = <<>>
  BY <1>2 DEF SideSteps
<1> QED BY <1>1, <1>2, <1>3 DEF none

LEMMA SideType ==
  ASSUME NEW L, NEW body \in Seq(OpsOf(L)), NEW kind
  PROVE  Side(body, kind) \in Seq(L)
<1>1. PICK s \in [0..Len(body) -> Seq(L)] : SideSteps(body, kind, s) /\ Side(body, kind) = s[Len(body)]
  BY SideIs
<1>2. Len(body) \in 0..Len(body)
  OBVIOUS
<1> QED BY <1>1, <1>2

Walks(L, n, m) == [i : 1..(n + 1), j : 1..(m + 1), ops : Seq(OpsOf(L))]

Moved(w, i, j, op) == [i |-> i, j |-> j, ops |-> Append(w.ops, op)]

\* What a round does.
IsRound(a, b, dp, w, v) ==
  \/ w.i = Len(a) + 1 /\ w.j = Len(b) + 1 /\ v = w
  \/ /\ w.i \in 1..Len(a) /\ w.j \in 1..Len(b) /\ a[w.i] = b[w.j]
     /\ v = Moved(w, w.i + 1, w.j + 1, Op("keep", a[w.i]))
  \/ /\ w.i \in 1..Len(a) /\ w.j = Len(b) + 1
     /\ v = Moved(w, w.i + 1, w.j, Op("del", a[w.i]))
  \/ /\ w.i = Len(a) + 1 /\ w.j \in 1..Len(b)
     /\ v = Moved(w, w.i, w.j + 1, Op("add", b[w.j]))
  \/ /\ w.i \in 1..Len(a) /\ w.j \in 1..Len(b) /\ a[w.i] # b[w.j] /\ dp[w.i + 1][w.j] >= dp[w.i][w.j + 1]
     /\ v = Moved(w, w.i + 1, w.j, Op("del", a[w.i]))
  \/ /\ w.i \in 1..Len(a) /\ w.j \in 1..Len(b) /\ a[w.i] # b[w.j] /\ ~(dp[w.i + 1][w.j] >= dp[w.i][w.j + 1])
     /\ v = Moved(w, w.i, w.j + 1, Op("add", b[w.j]))

LEMMA RoundIs ==
  ASSUME NEW L, NEW a \in Seq(L), NEW b \in Seq(L), NEW dp, NEW w \in Walks(L, Len(a), Len(b))
  PROVE  IsRound(a, b, dp, w, Round(a, b, dp, w))
<1>1. Len(a) \in Nat /\ Len(b) \in Nat /\ w.i \in 1..(Len(a) + 1) /\ w.j \in 1..(Len(b) + 1)
  BY DEF Walks
<1>2. CASE w.i > Len(a) /\ w.j > Len(b)
  <2>1. w.i = Len(a) + 1 /\ w.j = Len(b) + 1
    BY <1>1, <1>2
  <2>2. Round(a, b, dp, w) = w
    BY <1>2 DEF Round
  <2> QED BY <2>1, <2>2 DEF IsRound
<1>3. CASE w.i > Len(a) /\ ~(w.j > Len(b))
  <2>1. w.i = Len(a) + 1 /\ w.j \in 1..Len(b)
    BY <1>1, <1>3
  <2>2. Round(a, b, dp, w) = Moved(w, w.i, w.j + 1, Op("add", b[w.j]))
    BY <1>3 DEF Round, Moved
  <2> QED BY <2>1, <2>2 DEF IsRound
<1>4. CASE ~(w.i > Len(a)) /\ w.j > Len(b)
  <2>1. w.i \in 1..Len(a) /\ w.j = Len(b) + 1
    BY <1>1, <1>4
  <2>2. Round(a, b, dp, w) = Moved(w, w.i + 1, w.j, Op("del", a[w.i]))
    BY <1>4 DEF Round, Moved
  <2> QED BY <2>1, <2>2 DEF IsRound
<1>5. CASE ~(w.i > Len(a)) /\ ~(w.j > Len(b))
  <2>1. w.i \in 1..Len(a) /\ w.j \in 1..Len(b)
    BY <1>1, <1>5
  <2>2. CASE a[w.i] = b[w.j]
    <3>1. Round(a, b, dp, w) = Moved(w, w.i + 1, w.j + 1, Op("keep", a[w.i]))
      BY <1>5, <2>2 DEF Round, Moved
    <3> QED BY <2>1, <2>2, <3>1 DEF IsRound
  <2>3. CASE a[w.i] # b[w.j] /\ dp[w.i + 1][w.j] >= dp[w.i][w.j + 1]
    <3>1. Round(a, b, dp, w) = Moved(w, w.i + 1, w.j, Op("del", a[w.i]))
      BY <1>5, <2>3 DEF Round, Moved
    <3> QED BY <2>1, <2>3, <3>1 DEF IsRound
  <2>4. CASE a[w.i] # b[w.j] /\ ~(dp[w.i + 1][w.j] >= dp[w.i][w.j + 1])
    <3>1. Round(a, b, dp, w) = Moved(w, w.i, w.j + 1, Op("add", b[w.j]))
      BY <1>5, <2>4 DEF Round, Moved
    <3> QED BY <2>1, <2>4, <3>1 DEF IsRound
  <2> QED BY <2>2, <2>3, <2>4
<1> QED BY <1>2, <1>3, <1>4, <1>5

LEMMA RoundType ==
  ASSUME NEW L, NEW a \in Seq(L), NEW b \in Seq(L), NEW dp, NEW w \in Walks(L, Len(a), Len(b))
  PROVE  Round(a, b, dp, w) \in Walks(L, Len(a), Len(b))
<1>1. /\ Len(a) \in Nat /\ Len(b) \in Nat /\ w.i \in 1..(Len(a) + 1) /\ w.j \in 1..(Len(b) + 1)
      /\ w.ops \in Seq(OpsOf(L))
  BY DEF Walks
<1>2. /\ \A i \in 1..Len(a) : Op("keep", a[i]) \in OpsOf(L) /\ Op("del", a[i]) \in OpsOf(L)
      /\ \A j \in 1..Len(b) : Op("add", b[j]) \in OpsOf(L)
  <2>1. (\A i \in 1..Len(a) : a[i] \in L) /\ (\A j \in 1..Len(b) : b[j] \in L)
    OBVIOUS
  <2> QED BY <2>1 DEF Op, OpsOf, Operators
<1>3. ASSUME NEW i \in 1..(Len(a) + 1), NEW j \in 1..(Len(b) + 1), NEW op \in OpsOf(L)
      PROVE  Moved(w, i, j, op) \in Walks(L, Len(a), Len(b))
  <2>1. Append(w.ops, op) \in Seq(OpsOf(L))
    BY <1>1
  <2> QED BY <2>1 DEF Moved, Walks
<1>4. \A i \in 1..Len(a) : i \in 1..(Len(a) + 1) /\ i + 1 \in 1..(Len(a) + 1)
  BY <1>1
<1>5. \A j \in 1..Len(b) : j \in 1..(Len(b) + 1) /\ j + 1 \in 1..(Len(b) + 1)
  BY <1>1
<1>6. IsRound(a, b, dp, w, Round(a, b, dp, w))
  BY RoundIs
<1> DEFINE v == Round(a, b, dp, w)
<1> HIDE DEF v
<1> QED BY <1>1, <1>2, <1>3, <1>4, <1>5, <1>6 DEF IsRound, v

\* A walk, round by round.
Rounds(a, b, dp, w) ==
  /\ w[0] = AtStart
  /\ \A k \in 1..(Len(a) + Len(b)) : w[k] = Round(a, b, dp, w[k - 1])

HasWalk(L, a, b, dp) ==
  \E w \in [0..(Len(a) + Len(b)) -> Walks(L, Len(a), Len(b))] :
    Rounds(a, b, dp, w) /\ Walk(a, b, dp) = w[Len(a) + Len(b)]

LEMMA WalkIs ==
  ASSUME NEW L, NEW a \in Seq(L), NEW b \in Seq(L), NEW dp
  PROVE  HasWalk(L, a, b, dp)
<1> DEFINE N == Len(a) + Len(b)
           T == Walks(L, Len(a), Len(b))
           P(g) == g = [k \in 0..N |-> IF k = 0 THEN AtStart ELSE Round(a, b, dp, g[k - 1])]
           step == [k \in 1..N |-> [w \in T |-> Round(a, b, dp, w)]]
<1>1. Walk(a, b, dp) = (CHOOSE g : P(g))[N]
  BY DEF Walk
<1>2. N \in Nat
  OBVIOUS
<1> HIDE DEF T
<1>3. step \in Steps(T, N)
  BY RoundType DEF Steps, T
<1>4. AtStart \in T
  <2>1. Len(a) \in Nat /\ Len(b) \in Nat
    OBVIOUS
  <2>2. 1 \in 1..(Len(a) + 1) /\ 1 \in 1..(Len(b) + 1)
    BY <2>1
  <2>3. <<>> \in Seq(OpsOf(L))
    OBVIOUS
  <2> QED BY <2>2, <2>3 DEF AtStart, Walks, T
<1>5. PICK f \in [0..N -> T] : f[0] = AtStart /\ \A n \in 1..N : f[n] = step[n][f[n - 1]]
  <2> HIDE DEF step, N, P
  <2>1. HasRun(T, N, AtStart, step)
    BY <1>2, <1>3, <1>4, Runs
  <2> QED BY <2>1 DEF HasRun
<1>6. ASSUME NEW n \in 1..N PROVE f[n] = Round(a, b, dp, f[n - 1])
  <2>1. f[n - 1] \in T
    <3>1. n - 1 \in 0..N
      BY <1>2
    <3> QED BY <1>5, <3>1
  <2> QED BY <1>5, <2>1
<1> HIDE DEF step, N
<1>7. P(f)
  <2> DEFINE g == [k \in 0..N |-> IF k = 0 THEN AtStart ELSE Round(a, b, dp, f[k - 1])]
  <2>1. ASSUME NEW n \in 0..N PROVE f[n] = g[n]
    BY <1>2, <1>5, <1>6
  <2> QED BY <2>1, <1>5
<1> HIDE DEF P
<1>8. PICK g : P(g) /\ g = CHOOSE h : P(h)
  BY <1>7
<1>9. g = [k \in 0..N |-> IF k = 0 THEN AtStart ELSE Round(a, b, dp, g[k - 1])]
  BY <1>8 DEF P
<1>10. g[0] = AtStart /\ \A k \in 1..N : g[k] = Round(a, b, dp, g[k - 1])
  <2>1. g[0] = AtStart
    BY <1>2, <1>9
  <2>2. \A k \in 1..N : g[k] = Round(a, b, dp, g[k - 1])
    BY <1>2, <1>9
  <2> QED BY <2>1, <2>2
<1> DEFINE S == {n \in Nat : n <= N => g[n] \in T}
<1>11. 0 \in S
  BY <1>4, <1>10
<1>12. ASSUME NEW n \in S PROVE n + 1 \in S
  <2> SUFFICES ASSUME n + 1 <= N PROVE g[n + 1] \in T
    OBVIOUS
  <2>1. n + 1 \in 1..N /\ g[n] \in T /\ (n + 1) - 1 = n
    BY <1>2
  <2>2. g[n + 1] = Round(a, b, dp, g[n])
    BY <1>10, <2>1
  <2> QED BY <2>1, <2>2, RoundType DEF T
<1>13. S = Nat
  <2> S \in SUBSET Nat
    OBVIOUS
  <2> HIDE DEF S
  <2> QED BY <1>11, <1>12, Induction
<1>14. \A n \in 0..N : g[n] \in T
  BY <1>2, <1>13
<1>15. g \in [0..N -> T]
  BY <1>9, <1>14
<1>16. Rounds(a, b, dp, g)
  BY <1>10 DEF Rounds, N
<1> QED BY <1>1, <1>8, <1>15, <1>16 DEF HasWalk, N, T

\* The equations of the table.
IsTable(a, b, dp) ==
  /\ dp \in [1..(Len(a) + 1) -> [1..(Len(b) + 1) -> Nat]]
  /\ \A i \in 1..(Len(a) + 1) : dp[i][Len(b) + 1] = 0
  /\ \A j \in 1..(Len(b) + 1) : dp[Len(a) + 1][j] = 0
  /\ \A i \in 1..Len(a), j \in 1..Len(b) :
       /\ a[i] = b[j] => dp[i][j] = dp[i + 1][j + 1] + 1
       /\ a[i] # b[j] /\ dp[i + 1][j] >= dp[i][j + 1] => dp[i][j] = dp[i + 1][j]
       /\ a[i] # b[j] /\ ~(dp[i + 1][j] >= dp[i][j + 1]) => dp[i][j] = dp[i][j + 1]

\* What a walk knows after k rounds.
Reached(a, b, dp, k, w) ==
  /\ w.i + w.j >= k + 2 \/ (w.i = Len(a) + 1 /\ w.j = Len(b) + 1)
  /\ Side(w.ops, "del") = Upto(a, w.i - 1)
  /\ Side(w.ops, "add") = Upto(b, w.j - 1)
  /\ Len(Side(w.ops, "keep")) + dp[w.i][w.j] = dp[1][1]
  /\ a = b => w.i = w.j /\ \A x \in DOMAIN w.ops : w.ops[x].kind = "keep"

LEMMA OneLineMore ==
  ASSUME NEW L, NEW a \in Seq(L), NEW i \in 1..Len(a)
  PROVE  Upto(a, (i + 1) - 1) = Append(Upto(a, i - 1), a[i])
<1>1. (i + 1) - 1 = i /\ Len(a) \in Nat
  OBVIOUS
<1>2. Upto(a, i) = Append(Upto(a, i - 1), a[i])
  BY AboveIt
<1> QED BY <1>1, <1>2

LEMMA TakenOps ==
  ASSUME NEW s, NEW x
  PROVE  /\ \A kind \in {"keep", "del", "add"} : Taken(s, Op("keep", x), kind) = Append(s, x)
         /\ Taken(s, Op("del", x), "del") = Append(s, x) /\ Taken(s, Op("add", x), "add") = Append(s, x)
         /\ Taken(s, Op("del", x), "add") = s /\ Taken(s, Op("del", x), "keep") = s
         /\ Taken(s, Op("add", x), "del") = s /\ Taken(s, Op("add", x), "keep") = s
BY DEF Taken, Op

LEMMA RoundReaches ==
  ASSUME NEW L, NEW a \in Seq(L), NEW b \in Seq(L), NEW dp, IsTable(a, b, dp),
         NEW w \in Walks(L, Len(a), Len(b)), NEW k \in Nat, Reached(a, b, dp, k, w)
  PROVE  Reached(a, b, dp, k + 1, Round(a, b, dp, w))
<1> DEFINE v == Round(a, b, dp, w)
           side(kind) == Side(w.ops, kind)
<1>1. /\ Len(a) \in Nat /\ Len(b) \in Nat /\ w.i \in 1..(Len(a) + 1) /\ w.j \in 1..(Len(b) + 1)
      /\ w.ops \in Seq(OpsOf(L))
  BY DEF Walks
<1>13. Len(a) \in Nat /\ Len(b) \in Nat /\ w.i \in 1..(Len(a) + 1) /\ w.j \in 1..(Len(b) + 1)
  BY <1>1
<1>2. (\A i \in 1..Len(a) : a[i] \in L) /\ (\A j \in 1..Len(b) : b[j] \in L)
  OBVIOUS
<1>3. ASSUME NEW kind \in Operators, NEW x \in L, NEW i, NEW j, v = Moved(w, i, j, Op(kind, x))
      PROVE  /\ v.i = i /\ v.j = j
             /\ \A other : Side(v.ops, other) = Taken(side(other), Op(kind, x), other)
             /\ (\A y \in DOMAIN w.ops : w.ops[y].kind = "keep") /\ kind = "keep"
                  => \A y \in DOMAIN v.ops : v.ops[y].kind = "keep"
  <2>1. Op(kind, x) \in OpsOf(L) /\ Op(kind, x).kind = kind
    BY DEF Op, OpsOf
  <2>2. v.i = i /\ v.j = j /\ v.ops = Append(w.ops, Op(kind, x))
    BY <1>3 DEF Moved
  <2>3. \A other : Side(v.ops, other) = Taken(side(other), Op(kind, x), other)
    BY <1>1, <2>1, <2>2, SideGrows
  <2>4. ASSUME \A y \in DOMAIN w.ops : w.ops[y].kind = "keep", kind = "keep"
        PROVE  \A y \in DOMAIN v.ops : v.ops[y].kind = "keep"
    <3> DEFINE op == Op(kind, x)
    <3> HIDE DEF op
    <3>1. \A y \in DOMAIN Append(w.ops, op) : (y \in DOMAIN w.ops /\ Append(w.ops, op)[y] = w.ops[y])
                                               \/ Append(w.ops, op)[y] = op
      BY <1>1
    <3> QED BY <2>1, <2>2, <2>4, <3>1 DEF op
  <2> QED BY <2>2, <2>3, <2>4
<1>4. /\ side("del") = Upto(a, w.i - 1) /\ side("add") = Upto(b, w.j - 1)
      /\ Len(side("keep")) + dp[w.i][w.j] = dp[1][1]
      /\ a = b => w.i = w.j /\ \A x \in DOMAIN w.ops : w.ops[x].kind = "keep"
      /\ w.i + w.j >= k + 2 \/ (w.i = Len(a) + 1 /\ w.j = Len(b) + 1)
  BY DEF Reached
<1>5. side("keep") \in Seq(L) /\ Len(side("keep")) \in Nat
  <2>1. side("keep") \in Seq(L)
    BY <1>1, SideType
  <2> QED BY <2>1
<1>6. \A i \in 1..(Len(a) + 1), j \in 1..(Len(b) + 1) : dp[i][j] \in Nat
  BY DEF IsTable
<1> HIDE DEF v, side
<1>7. CASE w.i = Len(a) + 1 /\ w.j = Len(b) + 1 /\ v = w
  BY <1>7 DEF Reached, v
<1>8. CASE w.i \in 1..Len(a) /\ w.j \in 1..Len(b) /\ a[w.i] = b[w.j]
           /\ v = Moved(w, w.i + 1, w.j + 1, Op("keep", a[w.i]))
  <2>1. a[w.i] \in L /\ "keep" \in Operators
    BY <1>2, <1>8 DEF Operators
  <2>2. /\ v.i = w.i + 1 /\ v.j = w.j + 1
        /\ \A other : Side(v.ops, other) = Taken(side(other), Op("keep", a[w.i]), other)
        /\ (\A y \in DOMAIN w.ops : w.ops[y].kind = "keep") => \A y \in DOMAIN v.ops : v.ops[y].kind = "keep"
    BY <1>3, <1>8, <2>1
  <2>3. /\ Side(v.ops, "del") = Append(side("del"), a[w.i]) /\ Side(v.ops, "add") = Append(side("add"), a[w.i])
        /\ Side(v.ops, "keep") = Append(side("keep"), a[w.i])
    BY <2>2, TakenOps
  <2>4. Side(v.ops, "del") = Upto(a, v.i - 1) /\ Side(v.ops, "add") = Upto(b, v.j - 1)
    BY <1>4, <1>8, <2>2, <2>3, OneLineMore
  <2>5. Len(Side(v.ops, "keep")) = Len(side("keep")) + 1
    BY <1>5, <2>1, <2>3
  <2>6. dp[w.i][w.j] = dp[v.i][v.j] + 1
    BY <1>8, <2>2 DEF IsTable
  <2>7. v.i \in 1..(Len(a) + 1) /\ v.j \in 1..(Len(b) + 1)
    BY <1>8, <1>13, <2>2
  <2>8. Len(Side(v.ops, "keep")) + dp[v.i][v.j] = dp[1][1]
    <3>1. dp[v.i][v.j] \in Nat
      BY <1>6, <2>7
    <3>2. dp[w.i][w.j] \in Nat
      BY <1>1, <1>6
    <3> DEFINE x == Len(side("keep"))
               y == dp[v.i][v.j]
    <3>3. Len(Side(v.ops, "keep")) = x + 1 /\ x + (y + 1) = dp[1][1]
      BY <1>4, <2>5, <2>6
    <3>4. x \in Nat /\ y \in Nat
      BY <1>5, <3>1
    <3> HIDE DEF x, y
    <3>5. (x + 1) + y = x + (y + 1)
      BY <3>4
    <3> QED BY <3>3, <3>5 DEF y
  <2>9. v.i + v.j >= (k + 1) + 2
    <3>1. w.i + w.j >= k + 2
      BY <1>4, <1>8, <1>13
    <3>2. w.i \in Nat /\ w.j \in Nat
      BY <1>13
    <3> QED BY <2>2, <3>1, <3>2
  <2>10. a = b => v.i = v.j /\ \A x \in DOMAIN v.ops : v.ops[x].kind = "keep"
    BY <1>4, <2>2
  <2> QED BY <2>4, <2>8, <2>9, <2>10 DEF Reached, v
<1>9. CASE /\ w.i \in 1..Len(a) /\ w.j \in 1..(Len(b) + 1) /\ v = Moved(w, w.i + 1, w.j, Op("del", a[w.i]))
           /\ w.j = Len(b) + 1 \/ (w.j \in 1..Len(b) /\ a[w.i] # b[w.j] /\ dp[w.i + 1][w.j] >= dp[w.i][w.j + 1])
  <2>1. a[w.i] \in L /\ "del" \in Operators
    BY <1>2, <1>9 DEF Operators
  <2>2. /\ v.i = w.i + 1 /\ v.j = w.j
        /\ \A other : Side(v.ops, other) = Taken(side(other), Op("del", a[w.i]), other)
    BY <1>3, <1>9, <2>1
  <2>3. /\ Side(v.ops, "del") = Append(side("del"), a[w.i]) /\ Side(v.ops, "add") = side("add")
        /\ Side(v.ops, "keep") = side("keep")
    BY <2>2, TakenOps
  <2>4. Side(v.ops, "del") = Upto(a, v.i - 1) /\ Side(v.ops, "add") = Upto(b, v.j - 1)
    BY <1>4, <1>9, <2>2, <2>3, OneLineMore
  <2>5. v.i \in 1..(Len(a) + 1) /\ v.j \in 1..(Len(b) + 1) /\ w.i \in 1..(Len(a) + 1)
    BY <1>9, <1>13, <2>2
  <2>6. dp[w.i][w.j] = dp[v.i][v.j]
    <3>1. CASE w.j = Len(b) + 1
      BY <2>2, <2>5, <3>1 DEF IsTable
    <3>2. CASE w.j \in 1..Len(b) /\ a[w.i] # b[w.j] /\ dp[w.i + 1][w.j] >= dp[w.i][w.j + 1]
      <4>1. dp[w.i][w.j] = dp[w.i + 1][w.j]
        BY <1>9, <3>2 DEF IsTable
      <4> QED BY <2>2, <4>1
    <3> QED BY <1>9, <3>1, <3>2
  <2>7. Len(Side(v.ops, "keep")) + dp[v.i][v.j] = dp[1][1]
    BY <1>4, <2>3, <2>6
  <2>8. v.i + v.j >= (k + 1) + 2
    <3>1. w.i + w.j >= k + 2
      BY <1>4, <1>9, <1>13
    <3>2. w.i \in Nat /\ w.j \in Nat
      BY <1>13
    <3> QED BY <2>2, <3>1, <3>2
  <2>9. a # b
    <3>1. a = b => w.i = w.j
      BY <1>4
    <3>2. SUFFICES ASSUME a = b, w.i = w.j PROVE FALSE
      BY <3>1
    <3>3. w.i \in 1..Len(a) /\ w.j = w.i /\ Len(b) = Len(a) /\ a[w.i] = b[w.j]
      BY <1>9, <3>2
    <3>4. w.j # Len(b) + 1
      BY <1>13, <3>3
    <3> QED BY <1>9, <3>3, <3>4
  <2> QED BY <2>4, <2>7, <2>8, <2>9 DEF Reached, v
<1>10. CASE /\ w.i \in 1..(Len(a) + 1) /\ w.j \in 1..Len(b) /\ v = Moved(w, w.i, w.j + 1, Op("add", b[w.j]))
            /\ w.i = Len(a) + 1 \/ (w.i \in 1..Len(a) /\ a[w.i] # b[w.j] /\ ~(dp[w.i + 1][w.j] >= dp[w.i][w.j + 1]))
  <2>1. b[w.j] \in L /\ "add" \in Operators
    BY <1>2, <1>10 DEF Operators
  <2>2. /\ v.i = w.i /\ v.j = w.j + 1
        /\ \A other : Side(v.ops, other) = Taken(side(other), Op("add", b[w.j]), other)
    BY <1>3, <1>10, <2>1
  <2>3. /\ Side(v.ops, "add") = Append(side("add"), b[w.j]) /\ Side(v.ops, "del") = side("del")
        /\ Side(v.ops, "keep") = side("keep")
    BY <2>2, TakenOps
  <2>4. Side(v.ops, "del") = Upto(a, v.i - 1) /\ Side(v.ops, "add") = Upto(b, v.j - 1)
    BY <1>4, <1>10, <2>2, <2>3, OneLineMore
  <2>5. v.i \in 1..(Len(a) + 1) /\ v.j \in 1..(Len(b) + 1) /\ w.j \in 1..(Len(b) + 1)
    BY <1>10, <1>13, <2>2
  <2>6. dp[w.i][w.j] = dp[v.i][v.j]
    <3>1. CASE w.i = Len(a) + 1
      BY <2>2, <2>5, <3>1 DEF IsTable
    <3>2. CASE w.i \in 1..Len(a) /\ a[w.i] # b[w.j] /\ ~(dp[w.i + 1][w.j] >= dp[w.i][w.j + 1])
      <4>1. dp[w.i][w.j] = dp[w.i][w.j + 1]
        BY <1>10, <3>2 DEF IsTable
      <4> QED BY <2>2, <4>1
    <3> QED BY <1>10, <3>1, <3>2
  <2>7. Len(Side(v.ops, "keep")) + dp[v.i][v.j] = dp[1][1]
    BY <1>4, <2>3, <2>6
  <2>8. v.i + v.j >= (k + 1) + 2
    <3>1. w.i + w.j >= k + 2
      BY <1>4, <1>10, <1>13
    <3>2. w.i \in Nat /\ w.j \in Nat
      BY <1>13
    <3> QED BY <2>2, <3>1, <3>2
  <2>9. a # b
    <3>1. a = b => w.i = w.j
      BY <1>4
    <3>2. SUFFICES ASSUME a = b, w.i = w.j PROVE FALSE
      BY <3>1
    <3>3. w.j \in 1..Len(b) /\ w.j = w.i /\ Len(b) = Len(a) /\ a[w.i] = b[w.j]
      BY <1>10, <3>2
    <3>4. w.i # Len(a) + 1
      BY <1>13, <3>3
    <3> QED BY <1>10, <3>3, <3>4
  <2> QED BY <2>4, <2>7, <2>8, <2>9 DEF Reached, v
<1>11. /\ w.i \in 1..Len(a) => w.i \in 1..(Len(a) + 1)
       /\ w.j \in 1..Len(b) => w.j \in 1..(Len(b) + 1)
  BY <1>1
<1>12. IsRound(a, b, dp, w, v)
  BY RoundIs DEF v
<1> HIDE DEF Moved, Op
<1> QED BY <1>1, <1>7, <1>8, <1>9, <1>10, <1>11, <1>12 DEF IsRound

Cell(a, b, i, below, j, right) ==
  IF a[i] = b[j] THEN below[j + 1] + 1
  ELSE IF below[j] >= right THEN below[j] ELSE right

TableRows(b) == [1..(Len(b) + 1) -> Nat]

IsRow(a, b, i, below, row) ==
  /\ row \in TableRows(b) /\ row[Len(b) + 1] = 0
  /\ \A j \in 1..Len(b) : row[j] = Cell(a, b, i, below, j, row[j + 1])

LEMMA CellType ==
  ASSUME NEW a, NEW b, NEW i, NEW j, Len(b) \in Nat, j \in 1..Len(b), NEW below \in TableRows(b), NEW right \in Nat
  PROVE  Cell(a, b, i, below, j, right) \in Nat
<1>1. j \in 1..(Len(b) + 1) /\ j + 1 \in 1..(Len(b) + 1)
  OBVIOUS
<1>2. below[j] \in Nat /\ below[j + 1] \in Nat
  BY <1>1 DEF TableRows
<1> QED BY <1>2 DEF Cell

LEMMA RowIs ==
  ASSUME NEW L, NEW a \in Seq(L), NEW b \in Seq(L), NEW i \in 1..Len(a), NEW below \in TableRows(b)
  PROVE  IsRow(a, b, i, below, Row(a, b, i, below))
<1> DEFINE M == Len(b)
           P(g) == g = [j \in 1..(M + 1) |-> IF j > M THEN 0
                          ELSE IF a[i] = b[j] THEN below[j + 1] + 1
                          ELSE IF below[j] >= g[j + 1] THEN below[j] ELSE g[j + 1]]
           Q(g) == g = [j \in 1..(M + 1) |-> IF j > M THEN 0 ELSE Cell(a, b, i, below, j, g[j + 1])]
           step == [j \in 1..M |-> [r \in Nat |-> Cell(a, b, i, below, j, r)]]
<1>1. Row(a, b, i, below) = CHOOSE g : P(g)
  BY DEF Row
<1>2. M \in Nat
  OBVIOUS
<1>3. \A g : P(g) <=> Q(g)
  BY DEF Cell
<1>4. step \in Steps(Nat, M)
  BY <1>2, CellType DEF Steps
<1>5. PICK f \in [1..(M + 1) -> Nat] : f[M + 1] = 0 /\ \A j \in 1..M : f[j] = step[j][f[j + 1]]
  <2>1. 0 \in Nat
    OBVIOUS
  <2> HIDE DEF step, M, P, Q
  <2>2. HasRunDown(Nat, M, 0, step)
    BY <1>2, <1>4, <2>1, RunsDown
  <2> QED BY <2>2 DEF HasRunDown
<1>6. ASSUME NEW j \in 1..M PROVE f[j] = Cell(a, b, i, below, j, f[j + 1])
  <2>1. f[j + 1] \in Nat
    <3>1. j + 1 \in 1..(M + 1)
      BY <1>2
    <3> QED BY <1>5, <3>1
  <2> QED BY <1>5, <2>1
<1> HIDE DEF step, M
<1>7. Q(f)
  <2> DEFINE g == [j \in 1..(M + 1) |-> IF j > M THEN 0 ELSE Cell(a, b, i, below, j, f[j + 1])]
  <2>1. ASSUME NEW j \in 1..(M + 1) PROVE f[j] = g[j]
    BY <1>2, <1>5, <1>6
  <2> QED BY <2>1, <1>5
<1> HIDE DEF P, Q
<1>8. PICK g : Q(g) /\ g = CHOOSE h : P(h)
  BY <1>3, <1>7
<1>9. g = [j \in 1..(M + 1) |-> IF j > M THEN 0 ELSE Cell(a, b, i, below, j, g[j + 1])]
  BY <1>8 DEF Q
<1>10. g[M + 1] = 0 /\ \A j \in 1..M : g[j] = Cell(a, b, i, below, j, g[j + 1])
  <2>1. g[M + 1] = 0
    BY <1>2, <1>9
  <2>2. \A j \in 1..M : g[j] = Cell(a, b, i, below, j, g[j + 1])
    BY <1>2, <1>9
  <2> QED BY <2>1, <2>2
<1> DEFINE S == {n \in Nat : n <= M => g[M + 1 - n] \in Nat}
<1>11. 0 \in S
  BY <1>2, <1>10
<1>12. ASSUME NEW n \in S PROVE n + 1 \in S
  <2> SUFFICES ASSUME n + 1 <= M PROVE g[M + 1 - (n + 1)] \in Nat
    OBVIOUS
  <2> DEFINE j == M - n
  <2>1. j \in 1..M /\ j = M + 1 - (n + 1) /\ j + 1 = M + 1 - n /\ g[M + 1 - n] \in Nat
    BY <1>2
  <2> HIDE DEF j
  <2>2. g[j] = Cell(a, b, i, below, j, g[j + 1]) /\ g[j + 1] \in Nat
    BY <1>10, <2>1
  <2>3. Len(b) \in Nat /\ j \in 1..Len(b)
    BY <2>1 DEF M
  <2>4. g[j] \in Nat
    BY <2>2, <2>3, CellType
  <2> QED BY <2>1, <2>4
<1>13. S = Nat
  <2> S \in SUBSET Nat
    OBVIOUS
  <2> HIDE DEF S
  <2> QED BY <1>11, <1>12, Induction
<1>14. ASSUME NEW j \in 1..(M + 1) PROVE g[j] \in Nat
  <2>1. M + 1 - j \in Nat /\ M + 1 - j <= M /\ M + 1 - (M + 1 - j) = j
    BY <1>2
  <2>2. M + 1 - j \in S
    BY <1>13, <2>1
  <2> QED BY <2>1, <2>2
<1>15. g \in TableRows(b)
  BY <1>9, <1>14 DEF TableRows, M
<1> QED BY <1>1, <1>8, <1>10, <1>15 DEF IsRow, M

LEMMA TableIs ==
  ASSUME NEW L, NEW a \in Seq(L), NEW b \in Seq(L)
  PROVE  IsTable(a, b, Table(a, b))
<1> DEFINE N == Len(a)
           T == TableRows(b)
           zeros == [j \in 1..(Len(b) + 1) |-> 0]
           P(g) == g = [i \in 1..(N + 1) |-> IF i > N THEN zeros ELSE Row(a, b, i, g[i + 1])]
           step == [i \in 1..N |-> [r \in T |-> Row(a, b, i, r)]]
<1>1. Table(a, b) = CHOOSE g : P(g)
  BY DEF Table
<1>2. N \in Nat /\ Len(b) \in Nat
  OBVIOUS
<1>3. zeros \in T
  BY DEF TableRows
<1>4. \A i \in 1..N : \A r \in T : Row(a, b, i, r) \in T /\ IsRow(a, b, i, r, Row(a, b, i, r))
  <2>1. \A i \in 1..N : \A r \in T : IsRow(a, b, i, r, Row(a, b, i, r))
    BY RowIs
  <2> QED BY <2>1 DEF IsRow
<1> HIDE DEF T, zeros
<1>5. step \in Steps(T, N)
  BY <1>4 DEF Steps
<1>6. PICK f \in [1..(N + 1) -> T] : f[N + 1] = zeros /\ \A i \in 1..N : f[i] = step[i][f[i + 1]]
  <2> HIDE DEF step, N, P
  <2>1. HasRunDown(T, N, zeros, step)
    BY <1>2, <1>3, <1>5, RunsDown
  <2> QED BY <2>1 DEF HasRunDown
<1>7. ASSUME NEW i \in 1..N PROVE f[i] = Row(a, b, i, f[i + 1])
  <2>1. f[i + 1] \in T
    <3>1. i + 1 \in 1..(N + 1)
      BY <1>2
    <3> QED BY <1>6, <3>1
  <2> QED BY <1>6, <2>1
<1> HIDE DEF step, N
<1>8. P(f)
  <2> DEFINE g == [i \in 1..(N + 1) |-> IF i > N THEN zeros ELSE Row(a, b, i, f[i + 1])]
  <2>1. ASSUME NEW i \in 1..(N + 1) PROVE f[i] = g[i]
    BY <1>2, <1>6, <1>7
  <2> QED BY <2>1, <1>6
<1> HIDE DEF P
<1>9. PICK g : P(g) /\ g = CHOOSE h : P(h)
  BY <1>8
<1>10. g = [i \in 1..(N + 1) |-> IF i > N THEN zeros ELSE Row(a, b, i, g[i + 1])]
  BY <1>9 DEF P
<1>11. g[N + 1] = zeros /\ \A i \in 1..N : g[i] = Row(a, b, i, g[i + 1])
  <2>1. g[N + 1] = zeros
    BY <1>2, <1>10
  <2>2. \A i \in 1..N : g[i] = Row(a, b, i, g[i + 1])
    BY <1>2, <1>10
  <2> QED BY <2>1, <2>2
<1> DEFINE S == {n \in Nat : n <= N => g[N + 1 - n] \in T}
<1>12. 0 \in S
  BY <1>2, <1>3, <1>11
<1>13. ASSUME NEW n \in S PROVE n + 1 \in S
  <2> SUFFICES ASSUME n + 1 <= N PROVE g[N + 1 - (n + 1)] \in T
    OBVIOUS
  <2> DEFINE i == N - n
  <2>1. i \in 1..N /\ i = N + 1 - (n + 1) /\ i + 1 = N + 1 - n /\ g[N + 1 - n] \in T
    BY <1>2
  <2> HIDE DEF i
  <2>2. g[i] = Row(a, b, i, g[i + 1]) /\ g[i + 1] \in T
    BY <1>11, <2>1
  <2> QED BY <1>4, <2>1, <2>2
<1>14. S = Nat
  <2> S \in SUBSET Nat
    OBVIOUS
  <2> HIDE DEF S
  <2> QED BY <1>12, <1>13, Induction
<1>15. ASSUME NEW i \in 1..(N + 1) PROVE g[i] \in T
  <2>1. N + 1 - i \in Nat /\ N + 1 - i <= N /\ N + 1 - (N + 1 - i) = i
    BY <1>2
  <2>2. N + 1 - i \in S
    BY <1>14, <2>1
  <2> QED BY <2>1, <2>2
<1>16. ASSUME NEW i \in 1..N PROVE IsRow(a, b, i, g[i + 1], g[i])
  <2>1. i + 1 \in 1..(N + 1)
    BY <1>2
  <2> QED BY <1>4, <1>11, <1>15, <2>1
<1>17. g \in [1..(N + 1) -> [1..(Len(b) + 1) -> Nat]]
  BY <1>10, <1>15 DEF T, TableRows
<1>18. \A i \in 1..(N + 1) : g[i][Len(b) + 1] = 0
  <2> SUFFICES ASSUME NEW i \in 1..(N + 1) PROVE g[i][Len(b) + 1] = 0
    OBVIOUS
  <2>1. CASE i = N + 1
    <3>1. Len(b) + 1 \in 1..(Len(b) + 1)
      BY <1>2
    <3> QED BY <1>11, <2>1, <3>1 DEF zeros
  <2>2. CASE i \in 1..N
    BY <1>16, <2>2 DEF IsRow
  <2> QED BY <1>2, <2>1, <2>2
<1>19. \A j \in 1..(Len(b) + 1) : g[N + 1][j] = 0
  BY <1>11 DEF zeros
<1>20. ASSUME NEW i \in 1..N, NEW j \in 1..Len(b)
       PROVE  /\ a[i] = b[j] => g[i][j] = g[i + 1][j + 1] + 1
              /\ a[i] # b[j] /\ g[i + 1][j] >= g[i][j + 1] => g[i][j] = g[i + 1][j]
              /\ a[i] # b[j] /\ ~(g[i + 1][j] >= g[i][j + 1]) => g[i][j] = g[i][j + 1]
  <2>1. g[i][j] = Cell(a, b, i, g[i + 1], j, g[i][j + 1])
    BY <1>16 DEF IsRow
  <2> QED BY <2>1 DEF Cell
<1>21. \A i \in 1..N, j \in 1..Len(b) :
         /\ a[i] = b[j] => g[i][j] = g[i + 1][j + 1] + 1
         /\ a[i] # b[j] /\ g[i + 1][j] >= g[i][j + 1] => g[i][j] = g[i + 1][j]
         /\ a[i] # b[j] /\ ~(g[i + 1][j] >= g[i][j + 1]) => g[i][j] = g[i][j + 1]
  BY <1>20
<1>22. IsTable(a, b, g)
  <2> USE DEF N
  <2>1. /\ g \in [1..(Len(a) + 1) -> [1..(Len(b) + 1) -> Nat]]
        /\ \A i \in 1..(Len(a) + 1) : g[i][Len(b) + 1] = 0
        /\ \A j \in 1..(Len(b) + 1) : g[Len(a) + 1][j] = 0
    BY <1>17, <1>18, <1>19
  <2>2. \A i \in 1..Len(a), j \in 1..Len(b) :
          /\ a[i] = b[j] => g[i][j] = g[i + 1][j + 1] + 1
          /\ a[i] # b[j] /\ g[i + 1][j] >= g[i][j + 1] => g[i][j] = g[i + 1][j]
          /\ a[i] # b[j] /\ ~(g[i + 1][j] >= g[i][j + 1]) => g[i][j] = g[i][j + 1]
    BY <1>21
  <2> QED BY <2>1, <2>2, Zenon DEF IsTable
<1> QED BY <1>1, <1>9, <1>22

LEMMA CommonEnds ==
  ASSUME NEW a, NEW b, Len(a) \in Nat, Len(b) \in Nat, NEW i \in Nat, NEW j \in Nat, NEW k \in Nat,
         i > Len(a) \/ j > Len(b), Common(a, b, i, j, k)
  PROVE  k = 0
<1> SUFFICES ASSUME 1 \in 1..k PROVE FALSE
  OBVIOUS
<1>1. PICK f \in [1..k -> i..Len(a)], g \in [1..k -> j..Len(b)] : TRUE
  BY DEF Common
<1>2. f[1] \in i..Len(a) /\ g[1] \in j..Len(b)
  BY <1>1
<1> QED BY <1>2

\* An increasing sequence that does not start at i starts behind it.
LEMMA Behind ==
  ASSUME NEW i \in Nat, NEW n \in Nat, NEW k \in Nat, NEW f \in [1..k -> i..n], Increasing(f, k), k > 0, f[1] > i
  PROVE  f \in [1..k -> (i + 1)..n]
<1> SUFFICES ASSUME NEW x \in 1..k PROVE f[x] \in (i + 1)..n
  OBVIOUS
<1>1. f[x] \in i..n /\ f[1] \in i..n /\ 1 \in 1..k
  OBVIOUS
<1>2. x = 1 \/ f[1] < f[x]
  BY <1>1 DEF Increasing
<1> QED BY <1>1, <1>2

PlacesIn(k, i, n) == [1..k -> i..n]

\* What is left of an increasing sequence behind its first element.
HasRest(f, k, i, n) ==
  \E h \in PlacesIn(k - 1, i + 1, n) : Increasing(h, k - 1) /\ \A x \in 1..(k - 1) : h[x] = f[x + 1]

LEMMA RestOf ==
  ASSUME NEW i \in Nat, NEW n \in Nat, NEW k \in Nat, k > 0, NEW f \in PlacesIn(k, i, n), Increasing(f, k)
  PROVE  HasRest(f, k, i, n)
<1> USE DEF PlacesIn
<1> DEFINE h == [x \in 1..(k - 1) |-> f[x + 1]]
<1>1. \A x \in 1..(k - 1) : x + 1 \in 1..k /\ f[x + 1] \in i..n
  OBVIOUS
<1>2. ASSUME NEW x \in 1..(k - 1) PROVE f[x + 1] \in (i + 1)..n
  <2>1. x + 1 \in 1..k /\ 1 \in 1..k /\ 1 < x + 1 /\ f[1] \in i..n /\ f[x + 1] \in i..n
    BY <1>1
  <2>2. f[1] < f[x + 1]
    BY <2>1 DEF Increasing
  <2> QED BY <2>1, <2>2
<1>3. h \in [1..(k - 1) -> (i + 1)..n]
  BY <1>2
<1>4. Increasing(h, k - 1)
  <2> SUFFICES ASSUME NEW x \in 1..(k - 1), NEW y \in 1..(k - 1), x < y PROVE f[x + 1] < f[y + 1]
    BY DEF Increasing
  <2>1. x + 1 \in 1..k /\ y + 1 \in 1..k /\ x + 1 < y + 1
    OBVIOUS
  <2> QED BY <2>1 DEF Increasing
<1>5. \A x \in 1..(k - 1) : h[x] = f[x + 1]
  OBVIOUS
<1> HIDE DEF h
<1> QED BY <1>3, <1>4, <1>5 DEF HasRest

LEMMA CommonShrinks ==
  ASSUME NEW L, NEW a \in Seq(L), NEW b \in Seq(L), NEW i \in 1..Len(a), NEW j \in 1..Len(b),
         NEW k \in Nat, k > 0, Common(a, b, i, j, k)
  PROVE  /\ Common(a, b, i + 1, j + 1, k - 1)
         /\ a[i] # b[j] => Common(a, b, i + 1, j, k) \/ Common(a, b, i, j + 1, k)
<1>1. PICK f \in [1..k -> i..Len(a)], g \in [1..k -> j..Len(b)] :
        Increasing(f, k) /\ Increasing(g, k) /\ \A x \in 1..k : a[f[x]] = b[g[x]]
  BY DEF Common
<1>2. Len(a) \in Nat /\ Len(b) \in Nat /\ i \in Nat /\ j \in Nat /\ k - 1 \in Nat
  OBVIOUS
<1>3. Common(a, b, i + 1, j + 1, k - 1)
  <2>1. PICK f2 \in [1..(k - 1) -> (i + 1)..Len(a)] :
          Increasing(f2, k - 1) /\ \A x \in 1..(k - 1) : f2[x] = f[x + 1]
    <3>1. f \in PlacesIn(k, i, Len(a))
      BY <1>1 DEF PlacesIn
    <3>2. HasRest(f, k, i, Len(a))
      BY <1>1, <1>2, <3>1, RestOf
    <3> QED BY <3>2 DEF HasRest, PlacesIn
  <2>2. PICK g2 \in [1..(k - 1) -> (j + 1)..Len(b)] :
          Increasing(g2, k - 1) /\ \A x \in 1..(k - 1) : g2[x] = g[x + 1]
    <3>1. g \in PlacesIn(k, j, Len(b))
      BY <1>1 DEF PlacesIn
    <3>2. HasRest(g, k, j, Len(b))
      BY <1>1, <1>2, <3>1, RestOf
    <3> QED BY <3>2 DEF HasRest, PlacesIn
  <2>3. \A x \in 1..(k - 1) : a[f2[x]] = b[g2[x]]
    <3> SUFFICES ASSUME NEW x \in 1..(k - 1) PROVE a[f2[x]] = b[g2[x]]
      OBVIOUS
    <3>1. x + 1 \in 1..k
      BY <1>2
    <3> QED BY <1>1, <2>1, <2>2, <3>1
  <2> QED BY <2>1, <2>2, <2>3 DEF Common
<1>4. ASSUME a[i] # b[j] PROVE Common(a, b, i + 1, j, k) \/ Common(a, b, i, j + 1, k)
  <2>1. 1 \in 1..k /\ f[1] \in i..Len(a) /\ g[1] \in j..Len(b) /\ a[f[1]] = b[g[1]]
    BY <1>1
  <2>2. f[1] # i \/ g[1] # j
    BY <1>4, <2>1
  <2>3. CASE f[1] # i
    <3>1. f \in [1..k -> (i + 1)..Len(a)]
      <4>1. f[1] > i
        BY <2>1, <2>3
      <4> QED BY <1>1, <1>2, <4>1, Behind
    <3> QED BY <1>1, <3>1 DEF Common
  <2>4. CASE g[1] # j
    <3>1. g \in [1..k -> (j + 1)..Len(b)]
      <4>1. g[1] > j
        BY <2>1, <2>4
      <4> QED BY <1>1, <1>2, <4>1, Behind
    <3> QED BY <1>1, <3>1 DEF Common
  <2> QED BY <2>2, <2>3, <2>4
<1> QED BY <1>3, <1>4

\* The table holds the length of a longest common subsequence.
Bounded(a, b, dp, i, j) == \A k \in Nat : Common(a, b, i, j, k) => k <= dp[i][j]

\* From the cells below and to the right of it to a cell.
LEMMA BoundedCell ==
  ASSUME NEW L, NEW a \in Seq(L), NEW b \in Seq(L), NEW dp, IsTable(a, b, dp),
         NEW i \in 1..Len(a), NEW j \in 1..Len(b),
         Bounded(a, b, dp, i + 1, j + 1), Bounded(a, b, dp, i + 1, j), Bounded(a, b, dp, i, j + 1)
  PROVE  Bounded(a, b, dp, i, j)
<1>1. /\ i \in 1..(Len(a) + 1) /\ i + 1 \in 1..(Len(a) + 1)
      /\ j \in 1..(Len(b) + 1) /\ j + 1 \in 1..(Len(b) + 1)
  OBVIOUS
<1> DEFINE both == dp[i + 1][j + 1]
           down == dp[i + 1][j]
           right == dp[i][j + 1]
           here == dp[i][j]
<1> SUFFICES ASSUME NEW k \in Nat, Common(a, b, i, j, k) PROVE k <= here
  BY DEF Bounded
<1>2. both \in Nat /\ down \in Nat /\ right \in Nat /\ here \in Nat
  <2>1. \A x \in 1..(Len(a) + 1), y \in 1..(Len(b) + 1) : dp[x][y] \in Nat
    BY DEF IsTable
  <2> QED BY <1>1, <2>1
<1>3. /\ a[i] = b[j] => here = both + 1
      /\ a[i] # b[j] /\ down >= right => here = down
      /\ a[i] # b[j] /\ ~(down >= right) => here = right
  BY DEF IsTable
<1>4. CASE k = 0
  <2> HIDE DEF here
  <2> QED BY <1>2, <1>4
<1>5. CASE k > 0
  <2>1. /\ Common(a, b, i + 1, j + 1, k - 1)
        /\ a[i] # b[j] => Common(a, b, i + 1, j, k) \/ Common(a, b, i, j + 1, k)
    BY <1>5, CommonShrinks
  <2>2. k - 1 \in Nat
    BY <1>5
  <2>3. k - 1 <= both
    BY <2>1, <2>2 DEF Bounded
  <2>4. a[i] # b[j] => k <= down \/ k <= right
    BY <2>1 DEF Bounded
  <2> HIDE DEF here, both, down, right
  <2>5. a[i] = b[j] => k <= here
    BY <1>2, <1>3, <2>3
  <2>6. a[i] # b[j] => k <= here
    BY <1>2, <1>3, <2>4
  <2> QED BY <2>5, <2>6
<1> QED BY <1>4, <1>5

LEMMA BoundedEdge ==
  ASSUME NEW L, NEW a \in Seq(L), NEW b \in Seq(L), NEW dp, IsTable(a, b, dp),
         NEW i \in 1..(Len(a) + 1), NEW j \in 1..(Len(b) + 1), i = Len(a) + 1 \/ j = Len(b) + 1
  PROVE  Bounded(a, b, dp, i, j)
<1> SUFFICES ASSUME NEW k \in Nat, Common(a, b, i, j, k) PROVE k <= dp[i][j]
  BY DEF Bounded
<1>1. Len(a) \in Nat /\ Len(b) \in Nat /\ i \in Nat /\ j \in Nat /\ (i > Len(a) \/ j > Len(b))
  OBVIOUS
<1>2. k = 0
  BY <1>1, CommonEnds
<1>3. dp[i][j] \in Nat
  BY DEF IsTable
<1> QED BY <1>2, <1>3

LEMMA NoneIsLonger ==
  ASSUME NEW L, NEW a \in Seq(L), NEW b \in Seq(L), NEW dp, IsTable(a, b, dp)
  PROVE  \A k \in Nat : Common(a, b, 1, 1, k) => k <= dp[1][1]
<1> DEFINE n == Len(a)
           m == Len(b)
           S == {d \in Nat : \A i \in 1..(n + 1), j \in 1..(m + 1) :
                   (n + 1 - i) + (m + 1 - j) <= d => Bounded(a, b, dp, i, j)}
<1>1. n \in Nat /\ m \in Nat
  OBVIOUS
<1>2. \A i \in 1..(n + 1), j \in 1..(m + 1) : i = n + 1 \/ j = m + 1 => Bounded(a, b, dp, i, j)
  BY BoundedEdge
<1>3. \A i \in 1..n, j \in 1..m :
        Bounded(a, b, dp, i + 1, j + 1) /\ Bounded(a, b, dp, i + 1, j) /\ Bounded(a, b, dp, i, j + 1)
          => Bounded(a, b, dp, i, j)
  BY BoundedCell
<1> HIDE DEF n, m
<1>4. 0 \in S
  <2> SUFFICES ASSUME NEW i \in 1..(n + 1), NEW j \in 1..(m + 1), (n + 1 - i) + (m + 1 - j) <= 0
               PROVE  Bounded(a, b, dp, i, j)
    OBVIOUS
  <2>1. i = n + 1
    BY <1>1
  <2> QED BY <1>2, <2>1
<1>5. ASSUME NEW d \in S PROVE d + 1 \in S
  <2>1. d \in Nat /\ d + 1 \in Nat
    OBVIOUS
  <2>2. ASSUME NEW i \in 1..(n + 1), NEW j \in 1..(m + 1), (n + 1 - i) + (m + 1 - j) <= d + 1
        PROVE  Bounded(a, b, dp, i, j)
    <3>1. CASE i = n + 1 \/ j = m + 1
      BY <1>2, <3>1
    <3>2. CASE i \in 1..n /\ j \in 1..m
      <4>1. i + 1 \in 1..(n + 1) /\ j + 1 \in 1..(m + 1)
        BY <1>1, <3>2
      <4>2. /\ (n + 1 - (i + 1)) + (m + 1 - (j + 1)) <= d /\ (n + 1 - (i + 1)) + (m + 1 - j) <= d
            /\ (n + 1 - i) + (m + 1 - (j + 1)) <= d
        BY <1>1, <2>1, <2>2
      <4>3. Bounded(a, b, dp, i + 1, j + 1) /\ Bounded(a, b, dp, i + 1, j) /\ Bounded(a, b, dp, i, j + 1)
        BY <4>1, <4>2
      <4> QED BY <1>3, <3>2, <4>3
    <3> QED BY <1>1, <3>1, <3>2
  <2> QED BY <2>1, <2>2
<1>6. S = Nat
  <2> S \in SUBSET Nat
    OBVIOUS
  <2> HIDE DEF S
  <2> QED BY <1>4, <1>5, Induction
<1>7. Bounded(a, b, dp, 1, 1)
  <2>1. n + m \in Nat /\ 1 \in 1..(n + 1) /\ 1 \in 1..(m + 1) /\ (n + 1 - 1) + (m + 1 - 1) <= n + m
    BY <1>1
  <2>2. n + m \in S
    BY <1>6, <2>1
  <2> QED BY <2>1, <2>2
<1> QED BY <1>7 DEF Bounded

\* lcsOps (unified.go): its operations lead from the one text to the other, and
\* keep as many lines as any way from the one to the other can.  Two texts that
\* are the same have nothing but lines that are kept.
LEMMA DiffOfLines ==
  ASSUME NEW L, NEW a \in Seq(L), NEW b \in Seq(L)
  PROVE  /\ lcsOps(a, b) \in Seq(OpsOf(L))
         /\ Side(lcsOps(a, b), "del") = a
         /\ Side(lcsOps(a, b), "add") = b
         /\ \A k \in Nat : Common(a, b, 1, 1, k) => k <= Len(Side(lcsOps(a, b), "keep"))
         /\ a = b => \A x \in DOMAIN lcsOps(a, b) : lcsOps(a, b)[x].kind = "keep"
<1> DEFINE n == Len(a)
           m == Len(b)
           dp == Table(a, b)
<1>1. IsTable(a, b, dp)
  BY TableIs
<1> HIDE DEF dp
<1>2. PICK w \in [0..(n + m) -> Walks(L, n, m)] : Rounds(a, b, dp, w) /\ Walk(a, b, dp) = w[n + m]
  <2>1. HasWalk(L, a, b, dp)
    BY WalkIs
  <2> QED BY <2>1 DEF HasWalk
<1>3. n \in Nat /\ m \in Nat
  OBVIOUS
<1> DEFINE S == {k \in Nat : k <= n + m => Reached(a, b, dp, k, w[k])}
<1>4. 0 \in S
  <2>1. w[0] = AtStart
    BY <1>2 DEF Rounds
  <2>2. AtStart.i = 1 /\ AtStart.j = 1 /\ AtStart.ops = <<>>
    BY DEF AtStart
  <2>3. Upto(a, 0) = <<>> /\ Upto(b, 0) = <<>>
    BY DEF Upto
  <2>4. \A kind : Side(<<>>, kind) = <<>>
    BY SideOfNone
  <2>5. 1 \in 1..(n + 1) /\ 1 \in 1..(m + 1)
    BY <1>3
  <2>6. dp[1][1] \in Nat
    BY <1>1, <2>5 DEF IsTable
  <2>7. Len(<<>>) + dp[1][1] = dp[1][1]
    BY <2>6
  <2>8. \A x \in DOMAIN <<>> : <<>>[x].kind = "keep"
    OBVIOUS
  <2>9. Reached(a, b, dp, 0, AtStart)
    BY <2>2, <2>3, <2>4, <2>7, <2>8 DEF Reached
  <2> QED BY <2>1, <2>9
<1>5. ASSUME NEW k \in S PROVE k + 1 \in S
  <2> SUFFICES ASSUME k + 1 <= n + m PROVE Reached(a, b, dp, k + 1, w[k + 1])
    OBVIOUS
  <2>1. k \in Nat /\ k \in 0..(n + m) /\ k + 1 \in 1..(n + m) /\ (k + 1) - 1 = k
    BY <1>3
  <2>2. Reached(a, b, dp, k, w[k])
    BY <1>3, <2>1
  <2>3. w[k] \in Walks(L, n, m)
    BY <1>2, <2>1
  <2>4. w[k + 1] = Round(a, b, dp, w[k])
    BY <1>2, <2>1 DEF Rounds
  <2> QED BY <1>1, <2>1, <2>2, <2>3, <2>4, RoundReaches
<1>6. S = Nat
  <2> S \in SUBSET Nat
    OBVIOUS
  <2> HIDE DEF S
  <2> QED BY <1>4, <1>5, Induction
<1> DEFINE v == w[n + m]
<1>7. Reached(a, b, dp, n + m, v) /\ v \in Walks(L, n, m)
  <2>1. n + m \in S /\ n + m \in 0..(n + m)
    BY <1>3, <1>6
  <2> QED BY <1>2, <2>1
<1>8. lcsOps(a, b) = v.ops
  BY <1>2 DEF lcsOps, dp
<1> HIDE DEF v
<1>9. v.i \in 1..(n + 1) /\ v.j \in 1..(m + 1) /\ v.ops \in Seq(OpsOf(L))
  BY <1>7 DEF Walks
<1>10. v.i = n + 1 /\ v.j = m + 1
  <2>1. v.i + v.j >= (n + m) + 2 \/ (v.i = n + 1 /\ v.j = m + 1)
    BY <1>7 DEF Reached
  <2> QED BY <1>3, <1>9, <2>1
<1>11. Upto(a, v.i - 1) = a /\ Upto(b, v.j - 1) = b
  <2>1. v.i - 1 = n /\ v.j - 1 = m
    BY <1>3, <1>10
  <2>2. Upto(a, n) = a /\ Upto(b, m) = b
    BY DEF Upto
  <2> QED BY <2>1, <2>2
<1>12. Side(v.ops, "del") = a /\ Side(v.ops, "add") = b
  BY <1>7, <1>11 DEF Reached
<1>13. Len(Side(v.ops, "keep")) = dp[1][1]
  <2>1. Len(Side(v.ops, "keep")) + dp[v.i][v.j] = dp[1][1]
    BY <1>7 DEF Reached
  <2>2. dp[v.i][v.j] = 0
    BY <1>1, <1>9, <1>10 DEF IsTable
  <2>3. Len(Side(v.ops, "keep")) \in Nat
    <3>1. Side(v.ops, "keep") \in Seq(L)
      BY <1>9, SideType
    <3> QED BY <3>1
  <2> QED BY <2>1, <2>2, <2>3
<1>14. \A k \in Nat : Common(a, b, 1, 1, k) => k <= Len(Side(v.ops, "keep"))
  BY <1>1, <1>13, NoneIsLonger
<1>15. a = b => \A x \in DOMAIN v.ops : v.ops[x].kind = "keep"
  BY <1>7 DEF Reached
<1> QED BY <1>8, <1>9, <1>12, <1>14, <1>15

\* One step after the other: what FlattenSeq is.
LEMMA FlattenIs ==
  ASSUME NEW S, NEW seqs \in Seq(Seq(S)), NEW f \in [0..Len(seqs) -> Seq(S)],
         f[0] = <<>>, \A n \in 1..Len(seqs) : f[n] = f[n - 1] \o seqs[n]
  PROVE  FlattenSeq(seqs) = f[Len(seqs)]
<1> DEFINE N == Len(seqs)
           P(g) == g = [i \in 1..N |-> IF i = 1 THEN seqs[i] ELSE g[i - 1] \o seqs[i]]
<1>1. N \in Nat /\ \A n \in 1..N : seqs[n] \in Seq(S)
  OBVIOUS
<1>2. CASE N = 0
  <2>1. FlattenSeq(seqs) = seqs
    BY <1>2 DEF FlattenSeq
  <2>2. seqs = <<>>
    BY <1>2
  <2> QED BY <1>2, <2>1, <2>2
<1>3. CASE N # 0
  <2>1. FlattenSeq(seqs) = (CHOOSE g : P(g))[N]
    BY <1>3 DEF FlattenSeq
  <2>2. f[1] = seqs[1]
    <3>1. 1 \in 1..N /\ 1 - 1 = 0
      BY <1>1, <1>3
    <3>2. f[1] = f[1 - 1] \o seqs[1]
      BY <3>1
    <3>3. seqs[1] \in Seq(S)
      BY <1>1, <3>1
    <3>4. <<>> \o seqs[1] = seqs[1]
      BY <3>3
    <3> QED BY <3>1, <3>2, <3>4
  <2> HIDE DEF N
  <2> DEFINE h == [i \in 1..N |-> f[i]]
  <2>3. P(h)
    <3> DEFINE e == [i \in 1..N |-> IF i = 1 THEN seqs[i] ELSE h[i - 1] \o seqs[i]]
    <3>1. ASSUME NEW i \in 1..N PROVE h[i] = e[i]
      <4>1. CASE i = 1
        BY <2>2, <4>1
      <4>2. CASE i # 1
        <5>1. i - 1 \in 1..N
          BY <1>1, <4>2
        <5>2. h[i - 1] = f[i - 1]
          BY <5>1
        <5>3. f[i] = f[i - 1] \o seqs[i]
          BY DEF N
        <5> QED BY <4>2, <5>2, <5>3
      <4> QED BY <4>1, <4>2
    <3> QED BY <3>1
  <2> HIDE DEF P, h
  <2>4. PICK g : P(g) /\ g = CHOOSE q : P(q)
    BY <2>3
  <2>5. g = [i \in 1..N |-> IF i = 1 THEN seqs[i] ELSE g[i - 1] \o seqs[i]]
    BY <2>4 DEF P
  <2>6. 1 \in 1..N
    BY <1>1, <1>3
  <2>7. g[1] = seqs[1] /\ \A i \in 1..N : i # 1 => g[i] = g[i - 1] \o seqs[i]
    <3>1. g[1] = seqs[1]
      BY <2>5, <2>6
    <3>2. \A i \in 1..N : i # 1 => g[i] = g[i - 1] \o seqs[i]
      BY <2>5
    <3> QED BY <3>1, <3>2
  <2> DEFINE T == {n \in Nat : n + 1 <= N => g[n + 1] = f[n + 1]}
  <2>8. 0 \in T
    BY <2>2, <2>7
  <2>9. ASSUME NEW n \in T PROVE n + 1 \in T
    <3> SUFFICES ASSUME n + 1 + 1 <= N PROVE g[n + 1 + 1] = f[n + 1 + 1]
      OBVIOUS
    <3>1. n + 1 + 1 \in 1..N /\ n + 1 + 1 # 1 /\ (n + 1 + 1) - 1 = n + 1 /\ g[n + 1] = f[n + 1]
      BY <1>1
    <3>2. g[n + 1 + 1] = g[n + 1] \o seqs[n + 1 + 1]
      BY <2>7, <3>1
    <3>3. f[n + 1 + 1] = f[n + 1] \o seqs[n + 1 + 1]
      BY <3>1 DEF N
    <3> QED BY <3>1, <3>2, <3>3
  <2>10. T = Nat
    <3> T \in SUBSET Nat
      OBVIOUS
    <3> HIDE DEF T
    <3> QED BY <2>8, <2>9, Induction
  <2>11. g[N] = f[N]
    <3>1. N - 1 \in Nat /\ (N - 1) + 1 = N
      BY <1>1, <1>3
    <3>2. N - 1 \in T
      BY <2>10, <3>1
    <3> QED BY <1>1, <3>1, <3>2
  <2> QED BY <2>1, <2>4, <2>11 DEF N
<1> QED BY <1>2, <1>3

Flattening(S, seqs, f) ==
  /\ f \in [0..Len(seqs) -> Seq(S)] /\ f[0] = <<>>
  /\ \A n \in 1..Len(seqs) : f[n] = f[n - 1] \o seqs[n]
  /\ FlattenSeq(seqs) = f[Len(seqs)]

IsFlattened(S, seqs) == \E f : Flattening(S, seqs, f)

LEMMA Flattens ==
  ASSUME NEW S, NEW seqs \in Seq(Seq(S))
  PROVE  IsFlattened(S, seqs)
<1> DEFINE N == Len(seqs)
           T == Seq(S)
           step == [n \in 1..N |-> [q \in T |-> q \o seqs[n]]]
           none == <<>>
<1>1. N \in Nat /\ \A n \in 1..N : seqs[n] \in Seq(S)
  OBVIOUS
<1>2. step \in Steps(T, N)
  BY <1>1 DEF Steps
<1>3. none \in T
  OBVIOUS
<1>4. PICK f \in [0..N -> T] : f[0] = none /\ \A n \in 1..N : f[n] = step[n][f[n - 1]]
  <2> HIDE DEF step, N, T, none
  <2>1. HasRun(T, N, none, step)
    BY <1>1, <1>2, <1>3, Runs
  <2> QED BY <2>1 DEF HasRun
<1>5. ASSUME NEW n \in 1..N PROVE f[n] = f[n - 1] \o seqs[n]
  <2>1. n - 1 \in 0..N
    BY <1>1
  <2>2. f[n - 1] \in T
    BY <1>4, <2>1
  <2> QED BY <1>4, <2>2
<1> HIDE DEF step
<1>6. FlattenSeq(seqs) = f[N]
  BY <1>4, <1>5, FlattenIs
<1> QED BY <1>4, <1>5, <1>6 DEF Flattening, IsFlattened

LEMMA FlattenNone ==
  ASSUME NEW S, NEW seqs \in Seq(Seq(S)), \A n \in DOMAIN seqs : seqs[n] = <<>>
  PROVE  FlattenSeq(seqs) = <<>>
<1> DEFINE f == [n \in 0..Len(seqs) |-> <<>>]
<1>1. f \in [0..Len(seqs) -> Seq(S)] /\ f[0] = <<>>
  OBVIOUS
<1>2. ASSUME NEW n \in 1..Len(seqs) PROVE f[n] = f[n - 1] \o seqs[n]
  <2>1. n - 1 \in 0..Len(seqs) /\ seqs[n] = <<>>
    OBVIOUS
  <2>2. <<>> \o <<>> = <<>>
    OBVIOUS
  <2> QED BY <2>1, <2>2
<1>3. f[Len(seqs)] = <<>>
  OBVIOUS
<1> HIDE DEF f
<1> QED BY <1>1, <1>2, <1>3, FlattenIs

LEMMA FlattenOne ==
  ASSUME NEW S, NEW seqs \in Seq(Seq(S)), NEW i \in DOMAIN seqs, \A n \in DOMAIN seqs : n # i => seqs[n] = <<>>
  PROVE  FlattenSeq(seqs) = seqs[i]
<1> DEFINE f == [n \in 0..Len(seqs) |-> IF n < i THEN <<>> ELSE seqs[i]]
<1>1. i \in 1..Len(seqs) /\ Len(seqs) \in Nat /\ seqs[i] \in Seq(S)
  OBVIOUS
<1>2. f \in [0..Len(seqs) -> Seq(S)] /\ f[0] = <<>>
  BY <1>1
<1>3. ASSUME NEW n \in 1..Len(seqs) PROVE f[n] = f[n - 1] \o seqs[n]
  <2>1. n - 1 \in 0..Len(seqs) /\ n \in 0..Len(seqs)
    BY <1>1
  <2>2. CASE n < i
    <3>1. f[n] = <<>> /\ f[n - 1] = <<>> /\ seqs[n] = <<>>
      BY <1>1, <2>1, <2>2
    <3> QED BY <3>1
  <2>3. CASE n = i
    <3>1. f[n] = seqs[i] /\ f[n - 1] = <<>>
      BY <1>1, <2>1, <2>3
    <3>2. <<>> \o seqs[i] = seqs[i]
      BY <1>1
    <3> QED BY <2>3, <3>1, <3>2
  <2>4. CASE n > i
    <3>1. f[n] = seqs[i] /\ f[n - 1] = seqs[i] /\ seqs[n] = <<>>
      BY <1>1, <2>1, <2>4
    <3>2. seqs[i] \o <<>> = seqs[i]
      BY <1>1
    <3> QED BY <3>1, <3>2
  <2>5. n < i \/ n = i \/ n > i
    BY <1>1
  <2> QED BY <2>2, <2>3, <2>4, <2>5
<1>4. f[Len(seqs)] = seqs[i]
  BY <1>1
<1> HIDE DEF f
<1> QED BY <1>2, <1>3, <1>4, FlattenIs

-----------------------------------------------------------------------------
(* The diff of a change set                                                *)

FileDiffs == [path : Nat, from : {"null", "a"}, to : {"null", "b"}, body : Seq(OpsOf(STRING))]

HereIn(diff, p) == {x \in DOMAIN diff : diff[x].path = p}

\* texts is the diff of one file: nothing, or one text for its path.
OneText(texts, p) == texts = <<>> \/ \E d \in FileDiffs : texts = <<d>> /\ d.path = p

\* The texts of the first n files, joined.
IsIndexed(diff, texts, n) ==
  /\ diff \in Seq(FileDiffs)
  /\ \A x \in DOMAIN diff : diff[x].path \in 1..n
  /\ \A p \in 1..n : texts[p] = <<>> => HereIn(diff, p) = {}
  /\ \A p \in 1..n, d \in FileDiffs : texts[p] = <<d>> => \E x \in DOMAIN diff : HereIn(diff, p) = {x} /\ diff[x] = d

LEMMA IndexedNone ==
  ASSUME NEW texts, NEW n \in Nat, NEW diff, IsIndexed(diff, texts, n), texts[n + 1] = <<>>
  PROVE  IsIndexed(diff, texts, n + 1)
<1>1. \A x \in DOMAIN diff : diff[x].path \in 1..n
  BY DEF IsIndexed
<1>2. HereIn(diff, n + 1) = {}
  BY <1>1 DEF HereIn
<1>3. \A p \in 1..(n + 1) : p \in 1..n \/ p = n + 1
  OBVIOUS
<1>4. \A p \in 1..n : p \in 1..(n + 1)
  OBVIOUS
<1>5. \A d : <<d>> # <<>>
  OBVIOUS
<1>6. \A x \in DOMAIN diff : diff[x].path \in 1..(n + 1)
  BY <1>1, <1>4
<1>7. \A p \in 1..(n + 1) : texts[p] = <<>> => HereIn(diff, p) = {}
  BY <1>2, <1>3 DEF IsIndexed
<1>8. \A p \in 1..(n + 1), d \in FileDiffs :
        texts[p] = <<d>> => \E x \in DOMAIN diff : HereIn(diff, p) = {x} /\ diff[x] = d
  BY <1>3, <1>5 DEF IsIndexed
<1>9. diff \in Seq(FileDiffs)
  BY DEF IsIndexed
<1> QED BY <1>6, <1>7, <1>8, <1>9 DEF IsIndexed

LEMMA IndexedOne ==
  ASSUME NEW texts, NEW n \in Nat, NEW diff, IsIndexed(diff, texts, n),
         NEW d \in FileDiffs, texts[n + 1] = <<d>>, d.path = n + 1
  PROVE  IsIndexed(diff \o <<d>>, texts, n + 1)
<1> DEFINE N == Len(diff)
           more == diff \o <<d>>
<1>1. diff \in Seq(FileDiffs) /\ \A x \in DOMAIN diff : diff[x].path \in 1..n
  BY DEF IsIndexed
<1>2. N \in Nat /\ DOMAIN diff = 1..N
  BY <1>1
<1>3. more \in Seq(FileDiffs) /\ DOMAIN more = 1..(N + 1)
  BY <1>1
<1>4. \A x \in 1..N : more[x] = diff[x]
  BY <1>1
<1>5. more[N + 1] = d
  BY <1>1
<1> HIDE DEF more, N
<1>6. \A x \in 1..(N + 1) : x \in 1..N \/ x = N + 1
  BY <1>2
<1>7. \A x \in 1..N : x \in 1..(N + 1) /\ x # N + 1
  BY <1>2
<1>8. N + 1 \in 1..(N + 1)
  BY <1>2
<1>9. \A p \in 1..(n + 1) : p \in 1..n \/ p = n + 1
  OBVIOUS
<1>10. \A p \in 1..n : p \in 1..(n + 1) /\ p # n + 1
  OBVIOUS
<1>11. HereIn(more, n + 1) = {N + 1}
  BY <1>1, <1>2, <1>3, <1>4, <1>5, <1>6, <1>8, <1>10 DEF HereIn
<1>12. \A p \in 1..n : HereIn(more, p) = HereIn(diff, p)
  BY <1>2, <1>3, <1>4, <1>5, <1>6, <1>7, <1>10 DEF HereIn
<1>13. \A x \in DOMAIN more : more[x].path \in 1..(n + 1)
  <2>1. n + 1 \in 1..(n + 1)
    OBVIOUS
  <2> QED BY <1>1, <1>2, <1>3, <1>4, <1>5, <1>6, <1>10, <2>1
<1>14. <<d>> # <<>>
  OBVIOUS
<1>15. \A p \in 1..(n + 1) : texts[p] = <<>> => HereIn(more, p) = {}
  BY <1>9, <1>12, <1>14 DEF IsIndexed
<1>16. ASSUME NEW p \in 1..(n + 1), NEW e \in FileDiffs, texts[p] = <<e>>
       PROVE  \E x \in DOMAIN more : HereIn(more, p) = {x} /\ more[x] = e
  <2>1. CASE p = n + 1
    <3>1. e = d
      BY <1>16, <2>1
    <3> QED BY <1>3, <1>5, <1>8, <1>11, <2>1, <3>1
  <2>2. CASE p \in 1..n
    <3>1. PICK x \in DOMAIN diff : HereIn(diff, p) = {x} /\ diff[x] = e
      BY <1>16, <2>2 DEF IsIndexed
    <3> QED BY <1>2, <1>3, <1>4, <1>7, <1>12, <2>2, <3>1
  <2> QED BY <1>9, <2>1, <2>2
<1> QED BY <1>3, <1>13, <1>15, <1>16 DEF IsIndexed, more

LEMMA IndexedAll ==
  ASSUME NEW texts \in Seq(Seq(FileDiffs)), \A p \in DOMAIN texts : OneText(texts[p], p)
  PROVE  IsIndexed(FlattenSeq(texts), texts, Len(texts))
<1> DEFINE N == Len(texts)
<1>1. PICK f : Flattening(FileDiffs, texts, f)
  BY Flattens DEF IsFlattened
<1>2. N \in Nat /\ DOMAIN texts = 1..N
  OBVIOUS
<1>3. /\ f \in [0..N -> Seq(FileDiffs)] /\ f[0] = <<>>
      /\ \A n \in 1..N : f[n] = f[n - 1] \o texts[n]
      /\ FlattenSeq(texts) = f[N]
  BY <1>1 DEF Flattening
<1> HIDE DEF N
<1> DEFINE S == {n \in Nat : n <= N => IsIndexed(f[n], texts, n)}
<1>4. 0 \in S
  <2>1. f[0] \in Seq(FileDiffs) /\ DOMAIN f[0] = {}
    BY <1>3
  <2>2. 1..0 = {}
    OBVIOUS
  <2> QED BY <2>1, <2>2 DEF IsIndexed
<1>5. ASSUME NEW n \in S PROVE n + 1 \in S
  <2> SUFFICES ASSUME n + 1 <= N PROVE IsIndexed(f[n + 1], texts, n + 1)
    OBVIOUS
  <2>1. n \in Nat /\ n + 1 \in 1..N /\ (n + 1) - 1 = n /\ n \in 0..N
    BY <1>2
  <2>2. IsIndexed(f[n], texts, n)
    BY <1>2, <2>1
  <2>3. f[n + 1] = f[n] \o texts[n + 1]
    BY <1>3, <2>1
  <2>4. f[n] \in Seq(FileDiffs)
    BY <1>3, <2>1
  <2>5. OneText(texts[n + 1], n + 1)
    BY <1>2, <2>1
  <2>6. CASE texts[n + 1] = <<>>
    <3>1. f[n + 1] = f[n]
      BY <2>3, <2>4, <2>6
    <3> QED BY <2>1, <2>2, <2>6, <3>1, IndexedNone
  <2>7. CASE texts[n + 1] # <<>>
    <3>1. PICK d \in FileDiffs : texts[n + 1] = <<d>> /\ d.path = n + 1
      BY <2>5, <2>7 DEF OneText
    <3> QED BY <2>1, <2>2, <2>3, <3>1, IndexedOne
  <2> QED BY <2>6, <2>7
<1>6. S = Nat
  <2> S \in SUBSET Nat
    OBVIOUS
  <2> HIDE DEF S
  <2> QED BY <1>4, <1>5, Induction
<1>7. N \in S
  BY <1>2, <1>6
<1> QED BY <1>2, <1>3, <1>7 DEF N

LEMMA WidenSeq ==
  ASSUME NEW M, NEW L, \A x \in M : x \in L, NEW s \in Seq(M)
  PROVE  s \in Seq(L)
<1>1. s = [x \in 1..Len(s) |-> s[x]] /\ Len(s) \in Nat
  OBVIOUS
<1>2. \A x \in 1..Len(s) : s[x] \in L
  OBVIOUS
<1>3. [x \in 1..Len(s) |-> s[x]] \in Seq(L)
  BY <1>1, <1>2
<1> QED BY <1>1, <1>3

LEMMA FrontOfLonger ==
  ASSUME NEW L, NEW s \in Seq(L), NEW e \in L
  PROVE  Last(s \o <<e>>) = e /\ Front(s \o <<e>>) = s
<1> DEFINE t == s \o <<e>>
<1>1. t \in Seq(L) /\ Len(t) = Len(s) + 1 /\ t[Len(s) + 1] = e /\ Len(s) \in Nat
  OBVIOUS
<1>2. \A x \in 1..Len(s) : t[x] = s[x]
  OBVIOUS
<1> HIDE DEF t
<1>3. Last(t) = e
  BY <1>1 DEF Last
<1>4. Front(t) = SubSeq(t, 1, Len(s))
  <2>1. (Len(s) + 1) - 1 = Len(s)
    BY <1>1
  <2> QED BY <1>1, <2>1 DEF Front
<1>5. SubSeq(t, 1, Len(s)) \in Seq(L) /\ Len(SubSeq(t, 1, Len(s))) = Len(s)
  BY <1>1
<1>6. \A x \in 1..Len(s) : SubSeq(t, 1, Len(s))[x] = s[x]
  BY <1>1, <1>2
<1>7. SubSeq(t, 1, Len(s)) = s
  <2> DEFINE q == SubSeq(t, 1, Len(s))
  <2> HIDE DEF q
  <2>1. q \in Seq(L) /\ Len(q) = Len(s) /\ \A x \in 1..Len(s) : q[x] = s[x]
    BY <1>5, <1>6 DEF q
  <2>2. q = s
    BY <2>1
  <2> QED BY <2>2 DEF q
<1> QED BY <1>3, <1>4, <1>7 DEF t

LEMMA SplitIs ==
  ASSUME NEW c \in Contents
  PROVE  splitLines(c) = c.lines
<1> DEFINE L == STRING \cup {""}
           behind == IF c.newline THEN <<"">> ELSE <<>>
           parts == c.lines \o behind
<1>1. /\ c \in [lines : Seq(STRING), newline : BOOLEAN]
      /\ c.lines = <<>> => ~c.newline
      /\ c.lines # <<>> /\ Last(c.lines) = "" => c.newline
  BY DEF Contents
<1>2. c.lines \in Seq(STRING) /\ c.newline \in BOOLEAN /\ c = [lines |-> c.lines, newline |-> c.newline]
  BY <1>1
<1>3. c.lines \in Seq(L)
  <2>1. \A x \in STRING : x \in L
    OBVIOUS
  <2> HIDE DEF L
  <2> QED BY <1>2, <2>1, WidenSeq
<1>4. splitLines(c) = IF c = Empty THEN <<>> ELSE IF Last(parts) = "" THEN Front(parts) ELSE parts
  BY DEF splitLines
<1>5. CASE c.lines = <<>>
  <2>1. c.newline = FALSE
    BY <1>1, <1>2, <1>5
  <2>2. c = Empty
    BY <1>2, <1>5, <2>1 DEF Empty
  <2> QED BY <1>4, <1>5, <2>2
<1>6. CASE c.lines # <<>> /\ c.newline
  <2>1. c # Empty
    BY <1>6 DEF Empty
  <2>2. parts = c.lines \o <<"">>
    BY <1>6
  <2>3. "" \in L
    OBVIOUS
  <2> HIDE DEF parts, L
  <2>4. Last(parts) = "" /\ Front(parts) = c.lines
    BY <1>3, <2>2, <2>3, FrontOfLonger
  <2> QED BY <1>4, <2>1, <2>4
<1>7. CASE c.lines # <<>> /\ ~c.newline
  <2>1. c # Empty
    BY <1>7 DEF Empty
  <2>2. parts = c.lines
    <3>1. parts = c.lines \o <<>>
      BY <1>7
    <3> HIDE DEF L, parts
    <3>2. c.lines \o <<>> = c.lines
      BY <1>3
    <3> QED BY <3>1, <3>2
  <2>3. Last(parts) # ""
    BY <1>1, <1>7, <2>2
  <2> HIDE DEF parts
  <2> QED BY <1>4, <2>1, <2>2, <2>3
<1> QED BY <1>5, <1>6, <1>7

\* What lies between two contents of a file.
Between(d, p, a, b) ==
  /\ d.path = p
  /\ d.body \in Seq(OpsOf(STRING)) /\ IsDiffOf(d.body, a, b)
  /\ a = b => \A x \in DOMAIN d.body : d.body[x].kind = "keep"

LEMMA UnifiedFileIs ==
  ASSUME NEW p \in Nat, NEW o \in Contents, NEW n \in Contents
  PROVE  /\ OneText(UnifiedFile(p, o, n), p)
         /\ UnifiedFile(p, o, n) = <<>> => o = n
         /\ \A d \in FileDiffs : UnifiedFile(p, o, n) = <<d>> => Between(d, p, o.lines, n.lines)
<1>1. CASE o = Empty /\ n = Empty
  <2>1. UnifiedFile(p, o, n) = <<>>
    BY <1>1 DEF UnifiedFile
  <2>2. \A d : <<d>> # <<>>
    OBVIOUS
  <2> QED BY <1>1, <2>1, <2>2 DEF OneText
<1>2. CASE ~(o = Empty /\ n = Empty)
  <2> DEFINE a == o.lines
             b == n.lines
             d == [path |-> p,
                   from |-> IF o = Empty THEN "null" ELSE "a",
                   to   |-> IF o # Empty /\ n = Empty THEN "null" ELSE "b",
                   body |-> lcsOps(a, b)]
  <2>1. a \in Seq(STRING) /\ b \in Seq(STRING)
    BY DEF Contents
  <2>2. splitLines(o) = a /\ splitLines(n) = b
    BY SplitIs
  <2>3. UnifiedFile(p, o, n) = <<d>>
    BY <1>2, <2>2 DEF UnifiedFile
  <2> HIDE DEF a, b
  <2>4. /\ lcsOps(a, b) \in Seq(OpsOf(STRING))
        /\ Side(lcsOps(a, b), "del") = a
        /\ Side(lcsOps(a, b), "add") = b
        /\ \A k \in Nat : Common(a, b, 1, 1, k) => k <= Len(Side(lcsOps(a, b), "keep"))
        /\ a = b => \A x \in DOMAIN lcsOps(a, b) : lcsOps(a, b)[x].kind = "keep"
    BY <2>1, DiffOfLines
  <2>5. d \in FileDiffs
    BY <2>4 DEF FileDiffs
  <2>6. d.path = p /\ d.body = lcsOps(a, b)
    OBVIOUS
  <2>7. IsDiffOf(d.body, a, b)
    <3>1. \A k \in 0..Len(a) : k \in Nat
      OBVIOUS
    <3> HIDE DEF d
    <3> QED BY <2>4, <2>6, <3>1 DEF IsDiffOf
  <2> HIDE DEF d
  <2>8. Between(d, p, a, b)
    BY <2>4, <2>6, <2>7 DEF Between
  <2>9. \A e : <<d>> = <<e>> => d = e
    OBVIOUS
  <2>10. <<d>> # <<>>
    OBVIOUS
  <2> QED BY <2>3, <2>5, <2>6, <2>8, <2>9, <2>10 DEF OneText, a, b
<1> QED BY <1>1, <1>2

Untouched(changes, p) == \A i \in DOMAIN changes : p \notin Touched(changes[i])

Operation == {"CREATE", "MODIFY", "DELETE", "RENAME"}

LEMMA ChangeSetParts ==
  ASSUME NEW changes, NEW old, IsChangeSet(changes, old), NEW i \in DOMAIN changes
  PROVE  /\ changes[i].path \in DOMAIN old /\ changes[i].target \in DOMAIN old
         /\ changes[i].content \in Contents /\ changes[i].operation \in Operation
         /\ old[changes[i].path] \in Contents /\ old[changes[i].target] \in Contents
         /\ changes[i].operation = "CREATE" => old[changes[i].path] = Empty
         /\ changes[i].operation = "RENAME" =>
              changes[i].target # changes[i].path /\ old[changes[i].target] = Empty
         /\ \A k \in DOMAIN changes \ {i} : Touched(changes[i]) \cap Touched(changes[k]) = {}
<1> DEFINE T == [path : DOMAIN old, target : DOMAIN old, content : Contents, operation : Operation]
<1>1. changes \in Seq(T) /\ old \in Seq(Contents)
  BY DEF IsChangeSet, Operation
<1>2. changes[i] \in T
  <2> HIDE DEF T
  <2> QED BY <1>1
<1>3. \A p \in DOMAIN old : old[p] \in Contents
  BY <1>1
<1>4. changes[i].path \in DOMAIN old /\ changes[i].target \in DOMAIN old
      /\ changes[i].content \in Contents /\ changes[i].operation \in Operation
  BY <1>2
<1>5. /\ changes[i].operation = "CREATE" => old[changes[i].path] = Empty
      /\ changes[i].operation = "RENAME" =>
           changes[i].target # changes[i].path /\ old[changes[i].target] = Empty
      /\ \A k \in DOMAIN changes \ {i} : Touched(changes[i]) \cap Touched(changes[k]) = {}
  BY DEF IsChangeSet
<1> QED BY <1>3, <1>4, <1>5

LEMMA EmptyIsContent == Empty \in Contents
<1>1. <<>> \in Seq(STRING) /\ FALSE \in BOOLEAN
  OBVIOUS
<1>2. Empty \in [lines : Seq(STRING), newline : BOOLEAN]
  BY <1>1 DEF Empty
<1>3. Empty.lines = <<>> /\ Empty.newline = FALSE
  BY DEF Empty
<1> QED BY <1>2, <1>3 DEF Contents

\* A change that touches a path: what it makes of the file, and its text.
LEMMA TextOfTouched ==
  ASSUME NEW changes, NEW old, IsChangeSet(changes, old), NEW p \in DOMAIN old,
         NEW i \in DOMAIN changes, p \in Touched(changes[i])
  PROVE  /\ After(changes, old)[p] \in Contents
         /\ TextOf(changes[i], old, p) = UnifiedFile(p, old[p], After(changes, old)[p])
<1> DEFINE writes == {k \in DOMAIN changes : changes[k].path = p}
           moves == {k \in DOMAIN changes : changes[k].operation = "RENAME" /\ changes[k].target = p}
           ch == changes[i]
           kept == IF ch.content = Empty THEN old[ch.path] ELSE ch.content
           made == IF ch.operation \in {"DELETE", "RENAME"} THEN Empty ELSE ch.content
<1>1. After(changes, old)[p] =
        IF moves # {} THEN LET c == changes[CHOOSE k \in moves : TRUE]
                           IN  IF c.content = Empty THEN old[c.path] ELSE c.content
        ELSE IF writes # {} THEN LET c == changes[CHOOSE k \in writes : TRUE]
                                 IN  IF c.operation \in {"DELETE", "RENAME"} THEN Empty ELSE c.content
        ELSE old[p]
  BY DEF After
<1>2. /\ ch.content \in Contents /\ ch.operation \in Operation
      /\ old[ch.path] \in Contents
      /\ ch.operation = "CREATE" => old[ch.path] = Empty
      /\ ch.operation = "RENAME" => ch.target # ch.path /\ old[ch.target] = Empty
  BY ChangeSetParts
<1>3. \A k \in DOMAIN changes \ {i} : p \notin Touched(changes[k])
  BY ChangeSetParts
<1>4. \A k \in DOMAIN changes \ {i} : k \notin writes /\ k \notin moves
  BY <1>3 DEF Touched
<1>5. kept \in Contents /\ made \in Contents
  BY <1>2, EmptyIsContent
<1>6. CASE p = ch.path
  <2>1. i \notin moves
    BY <1>2, <1>6
  <2>2. moves = {} /\ writes = {i}
    BY <1>4, <1>6, <2>1
  <2>3. (CHOOSE k \in writes : TRUE) = i
    BY <2>2
  <2>4. After(changes, old)[p] = made
    BY <1>1, <2>2, <2>3
  <2>5. TextOf(ch, old, p) = UnifiedFile(p, IF ch.operation = "CREATE" THEN Empty ELSE old[p], made)
    BY <1>6 DEF TextOf
  <2>6. (IF ch.operation = "CREATE" THEN Empty ELSE old[p]) = old[p]
    BY <1>2, <1>6
  <2> QED BY <1>5, <2>4, <2>5, <2>6
<1>7. CASE p # ch.path
  <2>1. ch.operation = "RENAME" /\ p = ch.target
    BY <1>7 DEF Touched
  <2>2. moves = {i}
    BY <1>4, <2>1
  <2>3. (CHOOSE k \in moves : TRUE) = i
    BY <2>2
  <2>4. After(changes, old)[p] = kept
    BY <1>1, <2>2, <2>3
  <2>5. TextOf(ch, old, p) = UnifiedFile(p, Empty, kept)
    BY <1>7, <2>1 DEF TextOf
  <2>6. old[p] = Empty
    BY <1>2, <2>1
  <2> QED BY <1>5, <2>4, <2>5, <2>6
<1> QED BY <1>6, <1>7

\* What the diff has for one path.
DiffAt(diff, p, o, n) ==
  IF HereIn(diff, p) = {} THEN o = n
  ELSE \E x \in DOMAIN diff : HereIn(diff, p) = {x} /\ Between(diff[x], p, o.lines, n.lines)

LEMMA OneTextType ==
  ASSUME NEW texts, NEW p, OneText(texts, p)
  PROVE  texts \in Seq(FileDiffs)
<1>1. ASSUME NEW T, NEW d \in T PROVE <<d>> \in Seq(T)
  OBVIOUS
<1>2. \A d \in FileDiffs : <<d>> \in Seq(FileDiffs)
  BY <1>1
<1>3. <<>> \in Seq(FileDiffs)
  OBVIOUS
<1> QED BY <1>2, <1>3 DEF OneText

\* The text for one path: nothing for a file that no change touches.
LEMMA TextsAtIs ==
  ASSUME NEW changes, NEW old, IsChangeSet(changes, old), NEW p \in DOMAIN old
  PROVE  /\ After(changes, old)[p] \in Contents
         /\ OneText(TextsAt(changes, old, p), p)
         /\ TextsAt(changes, old, p) = <<>> => old[p] = After(changes, old)[p]
         /\ \A d \in FileDiffs : TextsAt(changes, old, p) = <<d>> =>
              Between(d, p, old[p].lines, After(changes, old)[p].lines)
<1> DEFINE new == After(changes, old)
           texts == [i \in DOMAIN changes |-> TextOf(changes[i], old, p)]
<1>1. DOMAIN changes = 1..Len(changes) /\ Len(changes) \in Nat /\ old \in Seq(Contents)
  BY DEF IsChangeSet
<1>2. p \in Nat /\ old[p] \in Contents
  BY <1>1
<1>3. TextsAt(changes, old, p) = FlattenSeq(texts)
  BY DEF TextsAt, UnifiedJoin
<1>4. ASSUME NEW i \in DOMAIN changes, p \notin Touched(changes[i]) PROVE texts[i] = <<>>
  BY <1>4 DEF TextOf, Touched
<1>5. <<>> \in Seq(FileDiffs)
  OBVIOUS
<1>6. CASE \A i \in DOMAIN changes : p \notin Touched(changes[i])
  <2>1. \A i \in DOMAIN changes : texts[i] = <<>>
    BY <1>4, <1>6
  <2>2. texts \in Seq(Seq(FileDiffs)) /\ DOMAIN texts = DOMAIN changes
    <3>1. texts \in [1..Len(changes) -> Seq(FileDiffs)]
      BY <1>1, <1>5, <2>1
    <3> HIDE DEF texts
    <3> QED BY <1>1, <3>1
  <2> HIDE DEF texts
  <2>3. FlattenSeq(texts) = <<>>
    BY <2>1, <2>2, FlattenNone
  <2>4. new[p] = old[p]
    <3> DEFINE writes == {k \in DOMAIN changes : changes[k].path = p}
               moves == {k \in DOMAIN changes : changes[k].operation = "RENAME" /\ changes[k].target = p}
    <3>1. writes = {} /\ moves = {}
      BY <1>6 DEF Touched
    <3> QED BY <3>1 DEF After
  <2>5. \A d : <<d>> # <<>>
    OBVIOUS
  <2> QED BY <1>2, <1>3, <2>3, <2>4, <2>5 DEF OneText
<1>7. CASE \E i \in DOMAIN changes : p \in Touched(changes[i])
  <2>1. PICK i \in DOMAIN changes : p \in Touched(changes[i])
    BY <1>7
  <2>2. \A k \in DOMAIN changes \ {i} : Touched(changes[i]) \cap Touched(changes[k]) = {}
    BY ChangeSetParts
  <2>3. \A k \in DOMAIN changes : k # i => texts[k] = <<>>
    BY <1>4, <2>1, <2>2
  <2>4. new[p] \in Contents /\ texts[i] = UnifiedFile(p, old[p], new[p])
    BY <2>1, TextOfTouched
  <2> HIDE DEF new
  <2>5. /\ OneText(texts[i], p)
        /\ texts[i] = <<>> => old[p] = new[p]
        /\ \A d \in FileDiffs : texts[i] = <<d>> => Between(d, p, old[p].lines, new[p].lines)
    BY <1>2, <2>4, UnifiedFileIs
  <2>6. texts[i] \in Seq(FileDiffs)
    BY <2>5, OneTextType
  <2>7. DOMAIN texts = DOMAIN changes
    OBVIOUS
  <2>8. texts \in Seq(Seq(FileDiffs))
    <3>1. texts \in [1..Len(changes) -> Seq(FileDiffs)]
      BY <1>1, <1>5, <2>3, <2>6
    <3> HIDE DEF texts
    <3> QED BY <1>1, <3>1
  <2> HIDE DEF texts
  <2>9. FlattenSeq(texts) = texts[i]
    BY <2>3, <2>7, <2>8, FlattenOne
  <2> QED BY <1>3, <2>4, <2>5, <2>9 DEF new
<1> QED BY <1>6, <1>7

LEMMA ProposedIs ==
  ASSUME NEW changes, NEW old, IsChangeSet(changes, old)
  PROVE  /\ \A p \in DOMAIN old : DiffAt(FromProposed(changes, old), p, old[p], After(changes, old)[p])
         /\ \A x \in DOMAIN FromProposed(changes, old) : FromProposed(changes, old)[x].path \in DOMAIN old
<1> DEFINE texts == [p \in DOMAIN old |-> TextsAt(changes, old, p)]
           diff == FlattenSeq(texts)
           new == After(changes, old)
<1>1. DOMAIN old = 1..Len(old) /\ Len(old) \in Nat
  <2>1. old \in Seq(Contents)
    BY DEF IsChangeSet
  <2> QED BY <2>1
<1>2. FromProposed(changes, old) = diff
  BY DEF FromProposed, UnifiedJoin
<1>3. \A p \in DOMAIN old :
        /\ OneText(texts[p], p)
        /\ texts[p] = <<>> => old[p] = new[p]
        /\ \A d \in FileDiffs : texts[p] = <<d>> => Between(d, p, old[p].lines, new[p].lines)
  BY TextsAtIs
<1>4. \A p \in DOMAIN old : texts[p] \in Seq(FileDiffs)
  BY <1>3, OneTextType
<1>5. DOMAIN texts = DOMAIN old
  OBVIOUS
<1>6. texts \in Seq(Seq(FileDiffs)) /\ Len(texts) = Len(old)
  <2>1. texts \in [1..Len(old) -> Seq(FileDiffs)]
    BY <1>1, <1>4
  <2> HIDE DEF texts
  <2> QED BY <1>1, <2>1
<1> HIDE DEF texts, new
<1>7. IsIndexed(diff, texts, Len(texts))
  BY <1>3, <1>5, <1>6, IndexedAll
<1> HIDE DEF diff
<1>8. ASSUME NEW p \in DOMAIN old PROVE DiffAt(diff, p, old[p], new[p])
  <2>1. p \in 1..Len(texts)
    BY <1>1, <1>6
  <2>2. CASE texts[p] = <<>>
    <3>1. HereIn(diff, p) = {}
      BY <1>7, <2>1, <2>2 DEF IsIndexed
    <3> QED BY <1>3, <2>2, <3>1 DEF DiffAt
  <2>3. CASE texts[p] # <<>>
    <3>1. PICK d \in FileDiffs : texts[p] = <<d>>
      BY <1>3, <2>3 DEF OneText
    <3>2. PICK x \in DOMAIN diff : HereIn(diff, p) = {x} /\ diff[x] = d
      BY <1>7, <2>1, <3>1 DEF IsIndexed
    <3>3. Between(d, p, old[p].lines, new[p].lines)
      BY <1>3, <3>1
    <3> QED BY <3>2, <3>3 DEF DiffAt
  <2> QED BY <2>2, <2>3
<1>9. \A x \in DOMAIN diff : diff[x].path \in DOMAIN old
  BY <1>1, <1>6, <1>7 DEF IsIndexed
<1> QED BY <1>2, <1>8, <1>9 DEF new

LEMMA ToSetOfLonger ==
  ASSUME NEW L, NEW q \in Seq(L), NEW e \in L
  PROVE  ToSet(Append(q, e)) = ToSet(q) \cup {e}
<1>1. Len(q) \in Nat /\ DOMAIN q = 1..Len(q)
  OBVIOUS
<1>2. DOMAIN Append(q, e) = 1..(Len(q) + 1)
  OBVIOUS
<1>3. \A x \in 1..Len(q) : x \in 1..(Len(q) + 1) /\ Append(q, e)[x] = q[x]
  OBVIOUS
<1>4. Append(q, e)[Len(q) + 1] = e /\ Len(q) + 1 \in 1..(Len(q) + 1)
  BY <1>1
<1>5. \A x \in 1..(Len(q) + 1) : x \in 1..Len(q) \/ x = Len(q) + 1
  BY <1>1
<1> DEFINE more == Append(q, e)
           n == Len(q)
<1> HIDE DEF more, n
<1>6. /\ DOMAIN q = 1..n /\ DOMAIN more = 1..(n + 1)
      /\ \A x \in 1..n : x \in 1..(n + 1) /\ more[x] = q[x]
      /\ more[n + 1] = e /\ n + 1 \in 1..(n + 1)
      /\ \A x \in 1..(n + 1) : x \in 1..n \/ x = n + 1
  BY <1>1, <1>2, <1>3, <1>4, <1>5 DEF more, n
<1>7. ToSet(more) = ToSet(q) \cup {e}
  BY <1>6 DEF ToSet
<1> QED BY <1>7 DEF more

\* The lines of one side of a body.
LEMMA SideLines ==
  ASSUME NEW L, NEW body \in Seq(OpsOf(L)), NEW kind
  PROVE  ToSet(Side(body, kind)) = {body[x].line : x \in {y \in DOMAIN body : body[y].kind \in {"keep", kind}}}
<1> DEFINE N == Len(body)
           upTo(n) == {body[x].line : x \in {y \in 1..n : body[y].kind \in {"keep", kind}}}
<1>1. PICK s \in [0..N -> Seq(L)] : SideSteps(body, kind, s) /\ Side(body, kind) = s[N]
  BY SideIs
<1>2. N \in Nat /\ DOMAIN body = 1..N /\ \A n \in 1..N : body[n] \in OpsOf(L)
  OBVIOUS
<1>3. s[0] = <<>> /\ \A n \in 1..N : s[n] = Taken(s[n - 1], body[n], kind)
  BY <1>1 DEF SideSteps
<1> HIDE DEF N
<1> DEFINE S == {n \in Nat : n <= N => ToSet(s[n]) = upTo(n)}
<1>4. 0 \in S
  <2>1. DOMAIN s[0] = {} /\ 1..0 = {}
    BY <1>3
  <2> QED BY <2>1 DEF ToSet
<1>5. ASSUME NEW n \in S PROVE n + 1 \in S
  <2> SUFFICES ASSUME n + 1 <= N PROVE ToSet(s[n + 1]) = upTo(n + 1)
    OBVIOUS
  <2>1. n \in Nat /\ n + 1 \in 1..N /\ (n + 1) - 1 = n /\ n \in 0..N /\ n <= N
    BY <1>2
  <2>2. ToSet(s[n]) = upTo(n)
    <3> HIDE DEF upTo
    <3> QED BY <2>1
  <2>3. s[n + 1] = Taken(s[n], body[n + 1], kind)
    BY <1>3, <2>1
  <2>4. s[n] \in Seq(L)
    BY <1>1, <2>1
  <2>5. \A y \in 1..(n + 1) : y \in 1..n \/ y = n + 1
    BY <2>1
  <2>6. \A y \in 1..n : y \in 1..(n + 1)
    BY <2>1
  <2>7. n + 1 \in 1..(n + 1)
    BY <2>1
  <2>8. CASE body[n + 1].kind \in {"keep", kind}
    <3>1. s[n + 1] = Append(s[n], body[n + 1].line)
      BY <2>3, <2>8 DEF Taken
    <3>2. ToSet(s[n + 1]) = ToSet(s[n]) \cup {body[n + 1].line}
      <4> DEFINE q == s[n]
                 e == body[n + 1].line
      <4>1. q \in Seq(L) /\ e \in L
        BY <1>2, <2>1, <2>4 DEF OpsOf
      <4> HIDE DEF q, e
      <4>2. ToSet(Append(q, e)) = ToSet(q) \cup {e}
        BY <4>1, ToSetOfLonger
      <4> QED BY <3>1, <4>2 DEF q, e
    <3>3. upTo(n + 1) = upTo(n) \cup {body[n + 1].line}
      BY <2>5, <2>6, <2>7, <2>8
    <3> HIDE DEF upTo
    <3> QED BY <2>2, <3>2, <3>3
  <2>9. CASE body[n + 1].kind \notin {"keep", kind}
    <3>1. s[n + 1] = s[n]
      BY <2>3, <2>9 DEF Taken
    <3>2. upTo(n + 1) = upTo(n)
      BY <2>5, <2>6, <2>9
    <3> HIDE DEF upTo
    <3> QED BY <2>2, <3>1, <3>2
  <2> QED BY <2>8, <2>9
<1>6. S = Nat
  <2> S \in SUBSET Nat
    OBVIOUS
  <2> HIDE DEF S
  <2> QED BY <1>4, <1>5, Induction
<1>7. N \in S
  BY <1>2, <1>6
<1>8. ToSet(s[N]) = upTo(N)
  BY <1>2, <1>7
<1> QED BY <1>1, <1>2, <1>8

\* A body that only keeps lines does not tell its sides apart.
LEMMA KeptBoth ==
  ASSUME NEW L, NEW body \in Seq(OpsOf(L)), \A x \in DOMAIN body : body[x].kind = "keep"
  PROVE  Side(body, "del") = Side(body, "add")
<1> DEFINE N == Len(body)
<1>1. PICK s \in [0..N -> Seq(L)] : SideSteps(body, "del", s) /\ Side(body, "del") = s[N]
  BY SideIs
<1>2. PICK t \in [0..N -> Seq(L)] : SideSteps(body, "add", t) /\ Side(body, "add") = t[N]
  BY SideIs
<1>3. N \in Nat /\ DOMAIN body = 1..N
  OBVIOUS
<1>4. /\ s[0] = t[0]
      /\ \A n \in 1..N : s[n] = Append(s[n - 1], body[n].line) /\ t[n] = Append(t[n - 1], body[n].line)
  BY <1>1, <1>2, <1>3 DEF SideSteps, Taken
<1> HIDE DEF N
<1> DEFINE S == {n \in Nat : n <= N => s[n] = t[n]}
<1>5. 0 \in S
  BY <1>4
<1>6. ASSUME NEW n \in S PROVE n + 1 \in S
  <2> SUFFICES ASSUME n + 1 <= N PROVE s[n + 1] = t[n + 1]
    OBVIOUS
  <2>1. n + 1 \in 1..N /\ (n + 1) - 1 = n /\ s[n] = t[n]
    BY <1>3
  <2> QED BY <1>4, <2>1
<1>7. S = Nat
  <2> S \in SUBSET Nat
    OBVIOUS
  <2> HIDE DEF S
  <2> QED BY <1>5, <1>6, Induction
<1>8. N \in S
  BY <1>3, <1>7
<1> QED BY <1>1, <1>2, <1>3, <1>8

LEMMA DecidesLemma ==
  ASSUME NEW changes, NEW old, IsChangeSet(changes, old)
  PROVE  DiffDecides(changes, old, FromProposed(changes, old))
<1> DEFINE diff == FromProposed(changes, old)
           new == After(changes, old)
<1>1. \A p \in DOMAIN old : DiffAt(diff, p, old[p], new[p])
  BY ProposedIs
<1> HIDE DEF diff, new
<1>2. \A p \in DOMAIN old : HereIn(diff, p) = {x \in DOMAIN diff : diff[x].path = p}
  BY DEF HereIn
<1>3. ASSUME NEW p \in DOMAIN old
      PROVE  LET here == {x \in DOMAIN diff : diff[x].path = p} IN
             IF here = {} THEN old[p] = new[p]
             ELSE \E x \in here : here = {x} /\ IsDiffOf(diff[x].body, old[p].lines, new[p].lines)
  <2>1. CASE HereIn(diff, p) = {}
    <3>1. old[p] = new[p]
      BY <1>1, <2>1 DEF DiffAt
    <3> QED BY <1>2, <2>1, <3>1
  <2>2. CASE HereIn(diff, p) # {}
    <3>1. PICK x \in DOMAIN diff : HereIn(diff, p) = {x} /\ Between(diff[x], p, old[p].lines, new[p].lines)
      BY <1>1, <2>2 DEF DiffAt
    <3>2. IsDiffOf(diff[x].body, old[p].lines, new[p].lines)
      BY <3>1 DEF Between
    <3> QED BY <1>2, <2>2, <3>1, <3>2
  <2> QED BY <2>1, <2>2
<1> QED BY <1>3 DEF DiffDecides, diff, new

\* A body without a line that counts as a change.
NoChangeIn(body) ==
  \A j \in DOMAIN body : /\ body[j].kind = "add" => body[j].line \in PlusPlus
                         /\ body[j].kind = "del" => body[j].line \in MinusMinus

Hidden(a, b) ==
  /\ ToSet(b) \ ToSet(a) \subseteq PlusPlus
  /\ ToSet(a) \ ToSet(b) \subseteq MinusMinus
  /\ (ToSet(b) \cup ToSet(a)) \cap (PlusPlus \cup MinusMinus) # {}

LEMMA NoChangeIsHidden ==
  ASSUME NEW d, NEW p, NEW a, NEW b, Between(d, p, a, b), NoChangeIn(d.body), a # b
  PROVE  Hidden(a, b)
<1> DEFINE body == d.body
           of(kind) == {body[x].line : x \in {y \in DOMAIN body : body[y].kind \in {"keep", kind}}}
<1>1. body \in Seq(OpsOf(STRING)) /\ Side(body, "del") = a /\ Side(body, "add") = b
  BY DEF Between, IsDiffOf
<1>2. ToSet(a) = of("del")
  <2>1. ToSet(Side(body, "del")) = of("del")
    BY <1>1, SideLines
  <2> QED BY <1>1, <2>1
<1>3. ToSet(b) = of("add")
  <2>1. ToSet(Side(body, "add")) = of("add")
    BY <1>1, SideLines
  <2> QED BY <1>1, <2>1
<1>4. PICK x \in DOMAIN body : body[x].kind # "keep"
  BY <1>1, KeptBoth
<1>5. \A y \in DOMAIN body : body[y].kind \in {"keep", "del", "add"}
  <2>1. \A y \in DOMAIN body : body[y] \in OpsOf(STRING)
    BY <1>1
  <2> QED BY <2>1 DEF OpsOf, Operators
<1>6. \A j \in DOMAIN body : /\ body[j].kind = "add" => body[j].line \in PlusPlus
                             /\ body[j].kind = "del" => body[j].line \in MinusMinus
  BY DEF NoChangeIn
<1> HIDE DEF body
<1>7. ToSet(b) \ ToSet(a) \subseteq PlusPlus
  BY <1>2, <1>3, <1>6
<1>8. ToSet(a) \ ToSet(b) \subseteq MinusMinus
  BY <1>2, <1>3, <1>6
<1>9. (ToSet(b) \cup ToSet(a)) \cap (PlusPlus \cup MinusMinus) # {}
  BY <1>2, <1>3, <1>4, <1>5, <1>6
<1> QED BY <1>7, <1>8, <1>9 DEF Hidden

LEMMA UnchangedLemma ==
  ASSUME NEW changes, NEW old, IsChangeSet(changes, old)
  PROVE  UnchangedIsSame(changes, old, FromProposed(changes, old))
<1> DEFINE diff == FromProposed(changes, old)
           new == After(changes, old)
<1>1. /\ \A p \in DOMAIN old : DiffAt(diff, p, old[p], new[p])
      /\ \A x \in DOMAIN diff : diff[x].path \in DOMAIN old
  BY ProposedIs
<1> HIDE DEF diff, new
<1>2. CASE diffHasContentChange(diff)
  <2>1. PICK i \in DOMAIN diff : \E j \in DOMAIN diff[i].body :
               diff[i].body[j].kind = "add" \/ diff[i].body[j].kind = "del"
    BY <1>2 DEF diffHasContentChange
  <2>2. PICK j \in DOMAIN diff[i].body : diff[i].body[j].kind # "keep"
    BY <2>1
  <2> DEFINE p == diff[i].path
  <2>3. p \in DOMAIN old /\ i \in HereIn(diff, p)
    BY <1>1 DEF HereIn
  <2> HIDE DEF p
  <2>4. PICK x \in DOMAIN diff : HereIn(diff, p) = {x} /\ Between(diff[x], p, old[p].lines, new[p].lines)
    BY <1>1, <2>3 DEF DiffAt
  <2>5. x = i
    BY <2>3, <2>4
  <2>6. old[p].lines # new[p].lines
    BY <2>2, <2>4, <2>5 DEF Between
  <2>7. \E q \in DOMAIN old : old[q].lines # new[q].lines
    BY <2>3, <2>6
  <2> QED BY <1>2, <2>7 DEF UnchangedIsSame, diff, new
<1>3. CASE ~diffHasContentChange(diff)
  <2>1. \A i \in DOMAIN diff : NoChangeIn(diff[i].body)
    BY <1>3 DEF diffHasContentChange, NoChangeIn
  <2>2. ASSUME NEW p \in DOMAIN old PROVE old[p].lines = new[p].lines \/ Hidden(old[p].lines, new[p].lines)
    <3>1. CASE HereIn(diff, p) = {}
      BY <1>1, <3>1 DEF DiffAt
    <3>2. CASE HereIn(diff, p) # {}
      <4>1. PICK x \in DOMAIN diff : HereIn(diff, p) = {x} /\ Between(diff[x], p, old[p].lines, new[p].lines)
        BY <1>1, <3>2 DEF DiffAt
      <4> QED BY <2>1, <4>1, NoChangeIsHidden
    <3> QED BY <3>1, <3>2
  <2> QED BY <1>3, <2>2 DEF UnchangedIsSame, Hidden, diff, new
<1> QED BY <1>2, <1>3

-----------------------------------------------------------------------------
(* Sequences of sequences, as sets.                                        *)

\* What is in one of the sequences is in all of them together.
LEMMA ToSetJoined ==
  ASSUME NEW S, NEW p \in Seq(S), NEW q \in Seq(S), NEW e
  PROVE  e \in ToSet(p \o q) <=> e \in ToSet(p) \/ e \in ToSet(q)
<1> DEFINE r == p \o q
<1>1. /\ r \in Seq(S) /\ Len(r) = Len(p) + Len(q) /\ Len(p) \in Nat /\ Len(q) \in Nat
      /\ \A j \in 1..(Len(p) + Len(q)) : r[j] = IF j <= Len(p) THEN p[j] ELSE q[j - Len(p)]
  BY Joined
<1>2. DOMAIN p = 1..Len(p) /\ DOMAIN q = 1..Len(q) /\ DOMAIN r = 1..Len(r)
  BY <1>1
<1> HIDE DEF r
<1>3. ASSUME NEW i \in 1..Len(p) PROVE i \in DOMAIN r /\ r[i] = p[i]
  BY <1>1, <1>2
<1>4. ASSUME NEW i \in 1..Len(q) PROVE Len(p) + i \in DOMAIN r /\ r[Len(p) + i] = q[i]
  BY <1>1, <1>2
<1>5. ASSUME NEW j \in DOMAIN r PROVE r[j] \in ToSet(p) \/ r[j] \in ToSet(q)
  <2>1. CASE j <= Len(p)
    <3>1. r[j] = p[j] /\ j \in DOMAIN p
      BY <1>1, <1>2, <2>1
    <3> QED BY <3>1 DEF ToSet
  <2>2. CASE ~(j <= Len(p))
    <3>1. r[j] = q[j - Len(p)] /\ j - Len(p) \in DOMAIN q
      BY <1>1, <1>2, <2>2
    <3> QED BY <3>1 DEF ToSet
  <2> QED BY <2>1, <2>2
<1>6. e \in ToSet(p) \/ e \in ToSet(q) => e \in ToSet(r)
  BY <1>2, <1>3, <1>4 DEF ToSet
<1>7. e \in ToSet(r) => e \in ToSet(p) \/ e \in ToSet(q)
  <2>1. e \in ToSet(r) => \E j \in DOMAIN r : e = r[j]
    BY DEF ToSet
  <2> QED BY <1>5, <2>1
<1> QED BY <1>6, <1>7 DEF r

LEMMA FlattenHolds ==
  ASSUME NEW S, NEW seqs \in Seq(Seq(S))
  PROVE  /\ FlattenSeq(seqs) \in Seq(S)
         /\ \A e : e \in ToSet(FlattenSeq(seqs)) <=> \E i \in DOMAIN seqs : e \in ToSet(seqs[i])
<1>1. PICK f : Flattening(S, seqs, f)
  BY Flattens DEF IsFlattened
<1> DEFINE N == Len(seqs)
<1>2. /\ f \in [0..N -> Seq(S)] /\ f[0] = <<>> /\ FlattenSeq(seqs) = f[N]
      /\ \A n \in 1..N : f[n] = f[n - 1] \o seqs[n]
  BY <1>1 DEF Flattening
<1>3. N \in Nat /\ DOMAIN seqs = 1..N /\ \A n \in 1..N : seqs[n] \in Seq(S)
  OBVIOUS
<1> HIDE DEF N
<1> SUFFICES ASSUME NEW e
             PROVE  e \in ToSet(f[N]) <=> \E i \in 1..N : e \in ToSet(seqs[i])
  <2>1. f[N] \in Seq(S)
    BY <1>2, <1>3
  <2> QED BY <1>2, <1>3, <2>1
<1> DEFINE Q == {n \in Nat : n <= N => (e \in ToSet(f[n]) <=> \E i \in 1..n : e \in ToSet(seqs[i]))}
<1>4. 0 \in Q
  <2>1. ToSet(<<>>) = {}
    BY DEF ToSet
  <2> QED BY <1>2, <2>1
<1>5. ASSUME NEW n \in Q PROVE n + 1 \in Q
  <2> SUFFICES ASSUME n + 1 <= N
               PROVE  e \in ToSet(f[n + 1]) <=> \E i \in 1..(n + 1) : e \in ToSet(seqs[i])
    OBVIOUS
  <2>1. n \in 0..N /\ n + 1 \in 1..N /\ (n + 1) - 1 = n
    BY <1>3
  <2>2. f[n + 1] = f[n] \o seqs[n + 1] /\ f[n] \in Seq(S) /\ seqs[n + 1] \in Seq(S)
    BY <1>2, <1>3, <2>1
  <2>3. e \in ToSet(f[n + 1]) <=> e \in ToSet(f[n]) \/ e \in ToSet(seqs[n + 1])
    BY <2>2, ToSetJoined
  <2>4. e \in ToSet(f[n]) <=> \E i \in 1..n : e \in ToSet(seqs[i])
    BY <2>1
  <2>5. \A i : i \in 1..(n + 1) <=> i \in 1..n \/ i = n + 1
    BY <2>1
  <2> QED BY <2>3, <2>4, <2>5
<1>6. Q = Nat
  <2> Q \in SUBSET Nat
    OBVIOUS
  <2> HIDE DEF Q
  <2> QED BY <1>4, <1>5, Induction
<1>7. N \in Q
  BY <1>3, <1>6
<1> QED BY <1>2, <1>3, <1>7
-----------------------------------------------------------------------------
(* Search.  The results hold what was added, each once, until they are     *)
(* full; G is what was found so far.                                       *)

Outcomes(S) == [matches : Seq(S), truncated : BOOLEAN]

Collected(S, G, r) ==
  /\ r \in Outcomes(S) /\ Len(r.matches) <= MaxResults /\ ToSet(r.matches) \subseteq G
  /\ \A i, j \in 1..Len(r.matches) : r.matches[i] = r.matches[j] => i = j
  /\ r.truncated  => Len(r.matches) = MaxResults /\ G # ToSet(r.matches)
  /\ ~r.truncated => G = ToSet(r.matches)

NoMatches == [matches |-> <<>>, truncated |-> FALSE]

LEMMA AddType ==
  ASSUME NEW S, NEW r \in Outcomes(S), NEW m \in S
  PROVE  Add(r, m) \in Outcomes(S)
<1>1. Append(r.matches, m) \in Seq(S)
  BY DEF Outcomes
<1> QED BY <1>1 DEF Outcomes, Add

LEMMA AddOne ==
  ASSUME NEW S, NEW G \in SUBSET S, NEW r, Collected(S, G, r), NEW m \in S
  PROVE  Collected(S, G \cup {m}, Add(r, m))
<1> DEFINE q == r.matches
<1>1. r \in Outcomes(S) /\ q \in Seq(S) /\ Len(q) \in Nat /\ DOMAIN q = 1..Len(q) /\ MaxResults \in Nat
  BY FilesAssumption DEF Collected, Outcomes
<1>2. m \in ToSet(q) <=> Contains(q, m)
  BY <1>1 DEF ToSet, Contains
<1>3. Add(r, m) \in Outcomes(S)
  BY <1>1, AddType
<1>4. CASE r.truncated
  <2>1. Add(r, m) = r
    BY <1>4 DEF Add
  <2>2. ToSet(q) \subseteq G /\ G # ToSet(q)
    BY <1>4 DEF Collected
  <2>3. ToSet(q) \subseteq G \cup {m} /\ G \cup {m} # ToSet(q)
    BY <2>2
  <2> QED BY <1>1, <1>4, <2>1, <2>3 DEF Collected
<1>5. CASE ~r.truncated /\ Contains(q, m)
  <2>1. Add(r, m) = r
    BY <1>5 DEF Add
  <2>2. G = ToSet(q)
    BY <1>5 DEF Collected
  <2>3. G \cup {m} = ToSet(q)
    BY <1>2, <1>5, <2>2
  <2> QED BY <1>1, <1>5, <2>1, <2>3 DEF Collected
<1>6. CASE ~r.truncated /\ ~Contains(q, m) /\ Len(q) >= MaxResults
  <2> DEFINE t == [r EXCEPT !.truncated = TRUE]
  <2>1. Add(r, m) = t
    BY <1>6 DEF Add
  <2>2. t.matches = q /\ t.truncated = TRUE
    BY <1>1 DEF Outcomes
  <2>3. G = ToSet(q) /\ Len(q) <= MaxResults
    BY <1>6 DEF Collected
  <2>4. G \cup {m} # ToSet(q) /\ ToSet(q) \subseteq G \cup {m}
    BY <1>2, <1>6, <2>3
  <2>5. Len(q) = MaxResults
    BY <1>1, <1>6, <2>3
  <2>6. t \in Outcomes(S)
    BY <1>3, <2>1
  <2>7. \A i, j \in 1..Len(q) : q[i] = q[j] => i = j
    BY DEF Collected
  <2> HIDE DEF t
  <2>8. Collected(S, G \cup {m}, t)
    BY <2>2, <2>3, <2>4, <2>5, <2>6, <2>7 DEF Collected
  <2> QED BY <2>1, <2>8
<1>7. CASE ~r.truncated /\ ~Contains(q, m) /\ ~(Len(q) >= MaxResults)
  <2> DEFINE t == [r EXCEPT !.matches = Append(@, m)]
             p == Append(q, m)
  <2>1. Add(r, m) = t
    BY <1>7 DEF Add
  <2>2. t.matches = p /\ t.truncated = FALSE
    BY <1>1, <1>7 DEF Outcomes
  <2>3. G = ToSet(q)
    BY <1>7 DEF Collected
  <2>4. ToSet(p) = ToSet(q) \cup {m}
    BY <1>1, ToSetOfLonger
  <2>5. /\ p \in Seq(S) /\ Len(p) = Len(q) + 1 /\ p[Len(q) + 1] = m
        /\ \A i \in 1..Len(q) : p[i] = q[i]
    BY <1>1
  <2>6. Len(p) <= MaxResults
    BY <1>1, <1>7, <2>5
  <2>7. \A i, j \in 1..Len(q) : q[i] = q[j] => i = j
    BY DEF Collected
  <2>8. \A i \in 1..Len(q) : q[i] # m
    BY <1>7 DEF Contains
  <2> HIDE DEF t, p
  <2>9. ASSUME NEW i \in 1..Len(p), NEW j \in 1..Len(p), p[i] = p[j] PROVE i = j
    <3>1. (i \in 1..Len(q) \/ i = Len(q) + 1) /\ (j \in 1..Len(q) \/ j = Len(q) + 1)
      BY <1>1, <2>5
    <3> QED BY <2>5, <2>7, <2>8, <2>9, <3>1
  <2>10. t \in Outcomes(S)
    BY <1>3, <2>1
  <2>11. Collected(S, G \cup {m}, t)
    BY <2>2, <2>3, <2>4, <2>6, <2>9, <2>10 DEF Collected
  <2> QED BY <2>1, <2>11
<1> QED BY <1>4, <1>5, <1>6, <1>7

LEMMA ResultsAre ==
  ASSUME NEW S, NEW hits \in Seq(S)
  PROVE  Collected(S, ToSet(hits), Results(hits))
<1> DEFINE N == Len(hits)
           T == Outcomes(S)
           P(g) == g = [n \in 0..N |-> IF n = 0 THEN NoMatches ELSE Add(g[n - 1], hits[n])]
           step == [n \in 1..N |-> [r \in T |-> Add(r, hits[n])]]
<1>1. Results(hits) = (CHOOSE g : P(g))[N]
  BY DEF Results, NoMatches
<1>2. N \in Nat /\ DOMAIN hits = 1..N /\ \A n \in 1..N : hits[n] \in S
  OBVIOUS
<1>3. NoMatches \in T
  <2>1. <<>> \in Seq(S)
    OBVIOUS
  <2> QED BY <2>1 DEF NoMatches, Outcomes
<1>4. step \in Steps(T, N)
  BY <1>2, AddType DEF Steps
<1>5. PICK f \in [0..N -> T] : f[0] = NoMatches /\ \A n \in 1..N : f[n] = step[n][f[n - 1]]
  <2> HIDE DEF step, N, T, P
  <2>1. HasRun(T, N, NoMatches, step)
    BY <1>2, <1>3, <1>4, Runs
  <2> QED BY <2>1 DEF HasRun
<1>6. ASSUME NEW n \in 1..N PROVE f[n] = Add(f[n - 1], hits[n])
  <2>1. f[n - 1] \in T
    <3>1. n - 1 \in 0..N
      BY <1>2
    <3> QED BY <1>5, <3>1
  <2> QED BY <1>5, <2>1
<1> HIDE DEF N, T, step
<1>7. P(f)
  <2> DEFINE g == [n \in 0..N |-> IF n = 0 THEN NoMatches ELSE Add(f[n - 1], hits[n])]
  <2>1. ASSUME NEW n \in 0..N PROVE f[n] = g[n]
    BY <1>2, <1>5, <1>6
  <2> QED BY <2>1, <1>5
<1> HIDE DEF P
<1>8. PICK g : P(g) /\ g = CHOOSE h : P(h)
  BY <1>7
<1>9. g[0] = NoMatches /\ \A n \in 1..N : g[n] = Add(g[n - 1], hits[n])
  BY <1>2, <1>8 DEF P
<1> DEFINE found(n) == {hits[i] : i \in 1..n}
           Q == {n \in Nat : n <= N => Collected(S, found(n), g[n])}
<1>10. 0 \in Q
  <2>1. ToSet(<<>>) = {} /\ found(0) = {}
    BY DEF ToSet
  <2>2. /\ NoMatches \in Outcomes(S) /\ NoMatches.matches = <<>> /\ NoMatches.truncated = FALSE
        /\ Len(<<>>) = 0 /\ MaxResults \in Nat
    BY <1>3, FilesAssumption DEF NoMatches, T
  <2> HIDE DEF found
  <2>3. 0 <= MaxResults /\ \A i \in 1..0 : FALSE
    BY <2>2
  <2>4. Collected(S, found(0), NoMatches)
    BY <2>1, <2>2, <2>3 DEF Collected
  <2> QED BY <1>9, <2>4
<1>11. ASSUME NEW n \in Q PROVE n + 1 \in Q
  <2> SUFFICES ASSUME n + 1 <= N PROVE Collected(S, found(n + 1), g[n + 1])
    OBVIOUS
  <2>1. n \in Nat /\ n + 1 \in 1..N /\ (n + 1) - 1 = n /\ n <= N
    BY <1>2
  <2>2. g[n + 1] = Add(g[n], hits[n + 1]) /\ hits[n + 1] \in S
    BY <1>2, <1>9, <2>1
  <2>3. \A i : i \in 1..(n + 1) <=> i \in 1..n \/ i = n + 1
    BY <2>1
  <2>4. found(n + 1) = found(n) \cup {hits[n + 1]}
    BY <2>3
  <2>5. found(n) \in SUBSET S
    BY <1>2, <2>1
  <2>6. Collected(S, found(n), g[n])
    BY <2>1
  <2> HIDE DEF found, Q
  <2>7. Collected(S, found(n) \cup {hits[n + 1]}, Add(g[n], hits[n + 1]))
    BY <2>2, <2>5, <2>6, AddOne
  <2> QED BY <2>2, <2>4, <2>7
<1>12. Q = Nat
  <2> Q \in SUBSET Nat
    OBVIOUS
  <2> HIDE DEF Q
  <2> QED BY <1>10, <1>11, Induction
<1>13. Collected(S, found(N), g[N])
  <2>1. N \in Q
    BY <1>2, <1>12
  <2> QED BY <1>2, <2>1
<1>14. found(N) = ToSet(hits)
  BY <1>2 DEF ToSet
<1> QED BY <1>1, <1>8, <1>13, <1>14

-----------------------------------------------------------------------------
(* The walk through the tree: it ends because nothing lies deeper than all *)
(* the rest, and it comes to what lies under a directory on ways without a *)
(* name that is left out.                                                  *)

IsWalk(fs, exclude, g) == g = [dir \in DOMAIN fs |-> WalkIn(fs, exclude, dir, g)]

PathLists(fs) == [DOMAIN fs -> Seq(DOMAIN fs)]

LEMMA BelowType ==
  ASSUME NEW fs, NEW g \in PathLists(fs), NEW p
  PROVE  Below(fs, p, g) \in Seq(DOMAIN fs)
<1>1. <<>> \in Seq(DOMAIN fs) /\ (p \in DOMAIN fs => <<p>> \in Seq(DOMAIN fs))
  OBVIOUS
<1>2. p \in DOMAIN fs => g[p] \in Seq(DOMAIN fs)
  BY DEF PathLists
<1> QED BY <1>1, <1>2 DEF Below

Children(fs, dir, g) == [i \in DOMAIN NameOrder |-> Below(fs, Append(dir, NameOrder[i]), g)]

LEMMA ChildrenType ==
  ASSUME NEW fs, NEW g \in PathLists(fs), NEW dir
  PROVE  /\ Children(fs, dir, g) \in Seq(Seq(DOMAIN fs))
         /\ DOMAIN Children(fs, dir, g) = DOMAIN NameOrder
<1>1. DOMAIN NameOrder = 1..Len(NameOrder) /\ Len(NameOrder) \in Nat
  BY FilesAssumption
<1>2. \A i \in 1..Len(NameOrder) : Below(fs, Append(dir, NameOrder[i]), g) \in Seq(DOMAIN fs)
  BY BelowType
<1> QED BY <1>1, <1>2 DEF Children

LEMMA WalkInType ==
  ASSUME NEW fs, NEW exclude, NEW g \in PathLists(fs), NEW dir
  PROVE  WalkIn(fs, exclude, dir, g) \in Seq(DOMAIN fs)
<1>1. FlattenSeq(Children(fs, dir, g)) \in Seq(DOMAIN fs)
  BY ChildrenType, FlattenHolds
<1>2. <<>> \in Seq(DOMAIN fs)
  OBVIOUS
<1> QED BY <1>1, <1>2 DEF WalkIn, Children

LEMMA WalkInSame ==
  ASSUME NEW fs, NEW exclude, NEW dir \in Seq(Names), NEW g, NEW h,
         \A p \in DOMAIN fs : Len(p) = Len(dir) + 1 => g[p] = h[p]
  PROVE  WalkIn(fs, exclude, dir, g) = WalkIn(fs, exclude, dir, h)
<1>1. ASSUME NEW i \in DOMAIN NameOrder
      PROVE  Below(fs, Append(dir, NameOrder[i]), g) = Below(fs, Append(dir, NameOrder[i]), h)
  <2>1. NameOrder[i] \in Names
    BY DEF Names, ToSet
  <2>2. Len(Append(dir, NameOrder[i])) = Len(dir) + 1
    BY <2>1
  <2> QED BY <2>2 DEF Below
<1>2. Children(fs, dir, g) = Children(fs, dir, h)
  BY <1>1 DEF Children
<1> QED BY <1>2 DEF WalkIn, Children

LEMMA TreeDepth ==
  ASSUME NEW fs, IsFileSystem(fs)
  PROVE  \E D \in Nat : \A p \in DOMAIN fs : Len(p) \in Nat /\ Len(p) <= D
<1>1. PICK p \in DOMAIN fs : \A q \in DOMAIN fs : Len(q) <= Len(p)
  BY DEF IsFileSystem
<1>2. \A q \in DOMAIN fs : q \in Seq(Names)
  BY TreeNames
<1>3. \A q \in DOMAIN fs : Len(q) \in Nat
  BY <1>2
<1> QED BY <1>1, <1>3

LEMMA WalkEnds ==
  ASSUME NEW fs, IsFileSystem(fs), NEW exclude
  PROVE  \E g \in PathLists(fs) : IsWalk(fs, exclude, g)
<1>1. PICK D \in Nat : \A p \in DOMAIN fs : Len(p) \in Nat /\ Len(p) <= D
  BY TreeDepth
<1> DEFINE N == D + 1
           T == PathLists(fs)
           none == [dir \in DOMAIN fs |-> <<>>]
           step == [n \in 1..N |-> [g \in T |-> [dir \in DOMAIN fs |-> WalkIn(fs, exclude, dir, g)]]]
<1>2. N \in Nat /\ none \in T
  <2>1. <<>> \in Seq(DOMAIN fs)
    OBVIOUS
  <2> QED BY <2>1 DEF PathLists
<1>3. step \in Steps(T, N)
  <2>1. \A g \in T : [dir \in DOMAIN fs |-> WalkIn(fs, exclude, dir, g)] \in T
    BY WalkInType DEF PathLists
  <2> QED BY <2>1 DEF Steps
<1>4. PICK f \in [0..N -> T] : f[0] = none /\ \A n \in 1..N : f[n] = step[n][f[n - 1]]
  <2> HIDE DEF step, N, T, none
  <2>1. HasRun(T, N, none, step)
    BY <1>2, <1>3, Runs
  <2> QED BY <2>1 DEF HasRun
<1>5. ASSUME NEW n \in 0..D
      PROVE  \A dir \in DOMAIN fs : f[n + 1][dir] = WalkIn(fs, exclude, dir, f[n])
  <2>1. n \in 0..N /\ n + 1 \in 1..N /\ (n + 1) - 1 = n
    BY <1>1
  <2>2. f[n] \in T
    BY <1>4, <2>1
  <2>3. f[n + 1] = step[n + 1][f[n]]
    BY <1>4, <2>1
  <2> QED BY <2>1, <2>2, <2>3
<1>6. f[N] \in T
  BY <1>2, <1>4
<1> HIDE DEF step, T, none
<1> DEFINE stable(n) == \A dir \in DOMAIN fs :
                          Len(dir) + n > D => WalkIn(fs, exclude, dir, f[n]) = f[n][dir]
           Q == {n \in Nat : n <= N => stable(n)}
<1>7. 0 \in Q
  BY <1>1
<1>8. ASSUME NEW n \in Q PROVE n + 1 \in Q
  <2> SUFFICES ASSUME n + 1 <= N, NEW dir \in DOMAIN fs, Len(dir) + (n + 1) > D
               PROVE  WalkIn(fs, exclude, dir, f[n + 1]) = f[n + 1][dir]
    OBVIOUS
  <2>1. n \in 0..D /\ n <= N
    BY <1>1
  <2>2. stable(n)
    BY <2>1
  <2>3. ASSUME NEW p \in DOMAIN fs, Len(p) = Len(dir) + 1 PROVE f[n + 1][p] = f[n][p]
    <3>1. Len(p) + n > D
      BY <1>1, <2>1, <2>3
    <3>2. WalkIn(fs, exclude, p, f[n]) = f[n][p]
      BY <2>2, <3>1
    <3> QED BY <1>5, <2>1, <3>2
  <2>4. dir \in Seq(Names)
    BY TreeNames
  <2> HIDE DEF N, stable, Q
  <2>5. WalkIn(fs, exclude, dir, f[n + 1]) = WalkIn(fs, exclude, dir, f[n])
    BY <2>3, <2>4, WalkInSame
  <2> QED BY <1>5, <2>1, <2>5
<1>9. Q = Nat
  <2> Q \in SUBSET Nat
    OBVIOUS
  <2> HIDE DEF Q
  <2> QED BY <1>7, <1>8, Induction
<1>10. stable(N)
  <2>1. N \in Q /\ N <= N
    BY <1>2, <1>9
  <2> QED BY <2>1
<1>11. ASSUME NEW dir \in DOMAIN fs PROVE f[N][dir] = WalkIn(fs, exclude, dir, f[N])
  <2>1. Len(dir) + N > D
    BY <1>1
  <2> QED BY <1>10, <2>1
<1> HIDE DEF N
<1>12. f[N] = [dir \in DOMAIN fs |-> f[N][dir]]
  BY <1>6 DEF T, PathLists
<1>13. IsWalk(fs, exclude, f[N])
  BY <1>11, <1>12 DEF IsWalk
<1> QED BY <1>6, <1>13 DEF T

LEMMA WalkIsOne ==
  ASSUME NEW fs, IsFileSystem(fs), NEW exclude, NEW g, IsWalk(fs, exclude, g), NEW h, IsWalk(fs, exclude, h)
  PROVE  g = h
<1>1. PICK D \in Nat : \A p \in DOMAIN fs : Len(p) \in Nat /\ Len(p) <= D
  BY TreeDepth
<1>2. /\ \A dir \in DOMAIN fs : g[dir] = WalkIn(fs, exclude, dir, g)
      /\ g = [dir \in DOMAIN fs |-> g[dir]]
  BY DEF IsWalk
<1>3. /\ \A dir \in DOMAIN fs : h[dir] = WalkIn(fs, exclude, dir, h)
      /\ h = [dir \in DOMAIN fs |-> h[dir]]
  BY DEF IsWalk
<1> DEFINE Q == {n \in Nat : \A dir \in DOMAIN fs : Len(dir) + n > D => g[dir] = h[dir]}
<1>4. 0 \in Q
  BY <1>1
<1>5. ASSUME NEW n \in Q PROVE n + 1 \in Q
  <2> SUFFICES ASSUME NEW dir \in DOMAIN fs, Len(dir) + (n + 1) > D PROVE g[dir] = h[dir]
    OBVIOUS
  <2>1. ASSUME NEW p \in DOMAIN fs, Len(p) = Len(dir) + 1 PROVE g[p] = h[p]
    <3>1. Len(p) + n > D
      BY <1>1, <2>1
    <3> QED BY <3>1
  <2>2. dir \in Seq(Names)
    BY TreeNames
  <2> HIDE DEF Q
  <2>3. WalkIn(fs, exclude, dir, g) = WalkIn(fs, exclude, dir, h)
    BY <2>1, <2>2, WalkInSame
  <2> QED BY <1>2, <1>3, <2>3
<1>6. Q = Nat
  <2> Q \in SUBSET Nat
    OBVIOUS
  <2> HIDE DEF Q
  <2> QED BY <1>4, <1>5, Induction
<1>7. ASSUME NEW dir \in DOMAIN fs PROVE g[dir] = h[dir]
  <2>1. D + 1 \in Nat /\ Len(dir) + (D + 1) > D
    BY <1>1
  <2>2. D + 1 \in Q
    BY <1>6, <2>1
  <2> QED BY <2>1, <2>2
<1> QED BY <1>2, <1>3, <1>7

\* What the walk finds under a directory.
Under(fs, exclude, dir, p) ==
  /\ p \in DOMAIN fs /\ ~IsDir(fs, p)
  /\ Len(dir) < Len(p) /\ dir = Upto(p, Len(dir))
  /\ \A n \in Len(dir)..(Len(p) - 1) : p[n] \notin exclude

\* One directory down.
LEMMA UnderChild ==
  ASSUME NEW fs, IsFileSystem(fs), NEW exclude, NEW dir \in DOMAIN fs, Len(dir) > 0, Last(dir) \notin exclude,
         NEW c \in DOMAIN fs, Len(c) = Len(dir) + 1, Upto(c, Len(dir)) = dir, NEW p
  PROVE  /\ Under(fs, exclude, c, p) => Under(fs, exclude, dir, p)
         /\ ~IsDir(fs, c) => Under(fs, exclude, dir, c)
<1>1. c \in Seq(Names) /\ dir \in Seq(Names) /\ Len(c) \in Nat /\ Len(dir) \in Nat
  BY TreeNames
<1>2. c[Len(dir)] \notin exclude
  <2>1. Len(dir) \in 0..Len(c) /\ Len(dir) \in 1..Len(dir)
    BY <1>1
  <2>2. Upto(c, Len(dir))[Len(dir)] = c[Len(dir)]
    BY <1>1, <2>1, Cut
  <2> QED BY <2>2 DEF Last
<1>3. ~IsDir(fs, c) => Under(fs, exclude, dir, c)
  <2>1. \A n \in Len(dir)..(Len(c) - 1) : n = Len(dir)
    BY <1>1
  <2>2. Len(dir) < Len(c)
    BY <1>1
  <2> QED BY <1>2, <2>1, <2>2 DEF Under
<1>4. ASSUME Under(fs, exclude, c, p) PROVE Under(fs, exclude, dir, p)
  <2>1. /\ p \in DOMAIN fs /\ ~IsDir(fs, p) /\ Len(c) < Len(p) /\ c = Upto(p, Len(c))
        /\ \A n \in Len(c)..(Len(p) - 1) : p[n] \notin exclude
    BY <1>4 DEF Under
  <2>2. p \in Seq(Names) /\ Len(p) \in Nat
    BY <2>1, TreeNames
  <2>3. Len(c) \in 1..Len(p) /\ Len(dir) \in 0..Len(c) /\ Len(dir) < Len(p) /\ Len(c) \in 0..Len(p)
    BY <1>1, <2>1, <2>2
  <2>4. Upto(p, Len(dir)) = dir
    <3>1. Upto(Upto(p, Len(c)), Len(dir)) = Upto(p, Len(dir))
      BY <2>2, <2>3, AboveIt
    <3> QED BY <2>1, <3>1
  <2>5. p[Len(dir)] = c[Len(dir)]
    <3>1. Len(dir) \in 1..Len(c)
      BY <1>1
    <3>2. Upto(p, Len(c))[Len(dir)] = p[Len(dir)]
      BY <2>2, <2>3, <3>1, Cut
    <3> QED BY <2>1, <3>2
  <2>6. ASSUME NEW n \in Len(dir)..(Len(p) - 1) PROVE p[n] \notin exclude
    <3>1. n = Len(dir) \/ n \in Len(c)..(Len(p) - 1)
      BY <1>1, <2>2
    <3> QED BY <1>2, <2>1, <2>5, <3>1
  <2> QED BY <2>1, <2>3, <2>4, <2>6 DEF Under
<1> QED BY <1>3, <1>4

\* And back: what is under a directory is in it, or under a directory in it.
LEMMA UnderParent ==
  ASSUME NEW fs, IsFileSystem(fs), NEW exclude, NEW dir \in DOMAIN fs, Len(dir) > 0, NEW p, Under(fs, exclude, dir, p)
  PROVE  /\ Last(dir) \notin exclude
         /\ \E i \in DOMAIN NameOrder :
              LET c == Append(dir, NameOrder[i]) IN
              /\ c \in DOMAIN fs
              /\ IsDir(fs, c)  => Under(fs, exclude, c, p)
              /\ ~IsDir(fs, c) => p = c
<1>1. /\ p \in DOMAIN fs /\ ~IsDir(fs, p) /\ Len(dir) < Len(p) /\ dir = Upto(p, Len(dir))
      /\ \A n \in Len(dir)..(Len(p) - 1) : p[n] \notin exclude
  BY DEF Under
<1>2. p \in Seq(Names) /\ dir \in Seq(Names) /\ Len(p) \in Nat /\ Len(dir) \in Nat
  BY <1>1, TreeNames
<1>3. Len(dir) \in 0..Len(p) /\ Len(dir) \in 1..Len(dir) /\ Len(dir) \in Len(dir)..(Len(p) - 1)
  BY <1>1, <1>2
<1>4. Last(dir) \notin exclude
  <2>1. Upto(p, Len(dir))[Len(dir)] = p[Len(dir)]
    BY <1>2, <1>3, Cut
  <2> QED BY <1>1, <1>3, <2>1 DEF Last
<1> DEFINE m == Len(dir) + 1
           c == Upto(p, m)
<1>5. m \in 1..Len(p) /\ m - 1 = Len(dir) /\ m \in 0..Len(p)
  BY <1>1, <1>2
<1>6. PICK i \in DOMAIN NameOrder : p[m] = NameOrder[i]
  <2>1. p \in Seq(ToSet(NameOrder))
    BY <1>1 DEF IsFileSystem
  <2>2. p[m] \in ToSet(NameOrder)
    BY <1>5, <2>1
  <2> QED BY <2>2 DEF ToSet
<1> HIDE DEF m
<1>7. c = Append(dir, NameOrder[i]) /\ Upto(p, Len(p)) = p
  <2>1. Upto(p, m) = Append(Upto(p, m - 1), p[m]) /\ Upto(p, Len(p)) = p
    BY <1>2, <1>5, AboveIt
  <2> QED BY <1>1, <1>5, <1>6, <2>1
<1>8. CASE m = Len(p)
  <2>1. c = p
    BY <1>7, <1>8
  <2> QED BY <1>1, <1>4, <1>6, <1>7, <2>1
<1>9. CASE m < Len(p)
  <2>1. m \in 0..(Len(p) - 1)
    BY <1>2, <1>5, <1>9
  <2>2. IsDir(fs, c)
    BY <1>1, <1>2, <2>1, HereAbove
  <2>3. c \in DOMAIN fs /\ Len(c) = m
    BY <1>2, <1>5, <2>2, Cut DEF IsDir
  <2>4. \A n \in m..(Len(p) - 1) : n \in Len(dir)..(Len(p) - 1)
    BY <1>2, <1>5
  <2> HIDE DEF c
  <2>5. Under(fs, exclude, c, p)
    BY <1>1, <1>9, <2>3, <2>4 DEF Under, c
  <2> QED BY <1>4, <1>6, <1>7, <2>2, <2>3, <2>5
<1>10. m = Len(p) \/ m < Len(p)
  BY <1>2, <1>5
<1> QED BY <1>8, <1>9, <1>10

LEMMA WalkHolds ==
  ASSUME NEW fs, IsFileSystem(fs), NEW exclude, NEW g \in PathLists(fs), IsWalk(fs, exclude, g),
         NEW p
  PROVE  \A dir \in DOMAIN fs : Len(dir) > 0 => (p \in ToSet(g[dir]) <=> Under(fs, exclude, dir, p))
<1>1. PICK D \in Nat : \A q \in DOMAIN fs : Len(q) \in Nat /\ Len(q) <= D
  BY TreeDepth
<1> DEFINE Q == {n \in Nat : \A dir \in DOMAIN fs :
                   Len(dir) + n > D /\ Len(dir) > 0 =>
                     (p \in ToSet(g[dir]) <=> Under(fs, exclude, dir, p))}
<1>2. 0 \in Q
  BY <1>1
<1>3. ASSUME NEW n \in Q PROVE n + 1 \in Q
  <2> SUFFICES ASSUME NEW dir \in DOMAIN fs, Len(dir) + (n + 1) > D, Len(dir) > 0
               PROVE  p \in ToSet(g[dir]) <=> Under(fs, exclude, dir, p)
    OBVIOUS
  <2>1. g[dir] = WalkIn(fs, exclude, dir, g)
    BY DEF IsWalk
  <2>2. dir \in Seq(Names) /\ Len(dir) \in Nat /\ n \in Nat
    BY TreeNames
  <2>3. ASSUME NEW c \in DOMAIN fs, Len(c) = Len(dir) + 1
        PROVE  p \in ToSet(g[c]) <=> Under(fs, exclude, c, p)
    <3>1. Len(c) + n > D /\ Len(c) > 0
      BY <1>1, <2>2, <2>3
    <3> QED BY <3>1
  <2> HIDE DEF Q
  <2>4. CASE Last(dir) \in exclude
    <3>1. ToSet(g[dir]) = {}
      BY <2>1, <2>4 DEF WalkIn, ToSet
    <3> QED BY <2>4, <3>1, UnderParent
  <2>5. CASE Last(dir) \notin exclude
    <3>1. g[dir] = FlattenSeq(Children(fs, dir, g))
      BY <2>1, <2>5 DEF WalkIn, Children
    <3>2. p \in ToSet(g[dir]) <=> \E i \in DOMAIN NameOrder : p \in ToSet(Children(fs, dir, g)[i])
      BY <3>1, ChildrenType, FlattenHolds
    <3>3. ASSUME NEW i \in DOMAIN NameOrder
          PROVE  LET c == Append(dir, NameOrder[i]) IN
                 /\ Children(fs, dir, g)[i] = Below(fs, c, g)
                 /\ c \in Seq(Names) /\ Len(c) = Len(dir) + 1 /\ Upto(c, Len(dir)) = dir
      <4> DEFINE c == Append(dir, NameOrder[i])
      <4>1. NameOrder[i] \in Names
        BY DEF Names, ToSet
      <4>2. c \in Seq(Names) /\ Len(c) = Len(dir) + 1 /\ \A j \in 1..Len(dir) : c[j] = dir[j]
        BY <2>2, <4>1
      <4> HIDE DEF c
      <4>3. Len(dir) \in 0..Len(c)
        BY <2>2, <4>2
      <4>4. /\ Upto(c, Len(dir)) \in Seq(Names) /\ Len(Upto(c, Len(dir))) = Len(dir)
            /\ \A j \in 1..Len(dir) : Upto(c, Len(dir))[j] = c[j]
        BY <4>2, <4>3, Cut
      <4>5. Upto(c, Len(dir)) = dir
        BY <2>2, <4>2, <4>4, SameSeq
      <4>6. Children(fs, dir, g)[i] = Below(fs, c, g)
        BY DEF Children, c
      <4> QED BY <4>2, <4>5, <4>6 DEF c
    <3>4. ASSUME NEW i \in DOMAIN NameOrder, p \in ToSet(Children(fs, dir, g)[i])
          PROVE  Under(fs, exclude, dir, p)
      <4> DEFINE c == Append(dir, NameOrder[i])
      <4>1. Children(fs, dir, g)[i] = Below(fs, c, g) /\ Len(c) = Len(dir) + 1 /\ Upto(c, Len(dir)) = dir
        BY <3>3
      <4> HIDE DEF c
      <4>2. ToSet(<<>>) = {} /\ ToSet(<<c>>) = {c}
        BY DEF ToSet
      <4>3. c \in DOMAIN fs
        BY <3>4, <4>1, <4>2 DEF Below
      <4>4. CASE IsDir(fs, c)
        <5>1. p \in ToSet(g[c])
          BY <3>4, <4>1, <4>3, <4>4 DEF Below
        <5>2. Under(fs, exclude, c, p)
          BY <2>3, <4>1, <4>3, <5>1
        <5> QED BY <2>5, <4>1, <4>3, <5>2, UnderChild
      <4>5. CASE ~IsDir(fs, c)
        <5>1. p = c
          BY <3>4, <4>1, <4>2, <4>3, <4>5 DEF Below
        <5> QED BY <2>5, <4>1, <4>3, <4>5, <5>1, UnderChild
      <4> QED BY <4>4, <4>5
    <3>5. ASSUME Under(fs, exclude, dir, p)
          PROVE  \E i \in DOMAIN NameOrder : p \in ToSet(Children(fs, dir, g)[i])
      <4>1. PICK i \in DOMAIN NameOrder :
              LET c == Append(dir, NameOrder[i]) IN
              /\ c \in DOMAIN fs
              /\ IsDir(fs, c)  => Under(fs, exclude, c, p)
              /\ ~IsDir(fs, c) => p = c
        BY <3>5, UnderParent
      <4> DEFINE c == Append(dir, NameOrder[i])
      <4>2. Children(fs, dir, g)[i] = Below(fs, c, g) /\ Len(c) = Len(dir) + 1
        BY <3>3
      <4>3. c \in DOMAIN fs /\ (IsDir(fs, c) => Under(fs, exclude, c, p)) /\ (~IsDir(fs, c) => p = c)
        BY <4>1
      <4> HIDE DEF c
      <4>4. CASE IsDir(fs, c)
        <5>1. p \in ToSet(g[c])
          BY <2>3, <4>2, <4>3, <4>4
        <5>2. Below(fs, c, g) = g[c]
          BY <4>3, <4>4 DEF Below
        <5> QED BY <4>2, <5>1, <5>2
      <4>5. CASE ~IsDir(fs, c)
        <5>1. Below(fs, c, g) = <<p>>
          BY <4>3, <4>5 DEF Below
        <5>2. p \in ToSet(<<p>>)
          BY DEF ToSet
        <5> QED BY <4>2, <5>1, <5>2
      <4> QED BY <4>4, <4>5
    <3> QED BY <3>2, <3>4, <3>5
  <2> QED BY <2>4, <2>5
<1>4. Q = Nat
  <2> Q \in SUBSET Nat
    OBVIOUS
  <2> HIDE DEF Q
  <2> QED BY <1>2, <1>3, Induction
<1>5. ASSUME NEW dir \in DOMAIN fs, Len(dir) > 0
      PROVE  p \in ToSet(g[dir]) <=> Under(fs, exclude, dir, p)
  <2>1. D + 1 \in Nat /\ Len(dir) + (D + 1) > D
    BY <1>1
  <2>2. D + 1 \in Q
    BY <1>4, <2>1
  <2> QED BY <1>5, <2>1, <2>2
<1> QED BY <1>5

LEMMA WalkDirIs ==
  ASSUME NEW fs, IsFileSystem(fs), NEW exclude
  PROVE  /\ WalkDir(fs, Root, exclude) \in Seq(DOMAIN fs)
         /\ \A p : p \in ToSet(WalkDir(fs, Root, exclude)) <=> Under(fs, exclude, Root, p)
<1> DEFINE g == CHOOSE walk : IsWalk(fs, exclude, walk)
<1>1. WalkDir(fs, Root, exclude) = g[Root]
  BY DEF WalkDir, IsWalk
<1>2. PICK h \in PathLists(fs) : IsWalk(fs, exclude, h)
  BY WalkEnds
<1>3. IsWalk(fs, exclude, g)
  BY <1>2
<1>4. g = h
  <2> HIDE DEF g
  <2> QED BY <1>2, <1>3, WalkIsOne
<1> HIDE DEF g
<1>5. Root \in DOMAIN fs /\ Len(Root) > 0
  BY FilesAssumption DEF IsFileSystem, IsDir
<1>6. \A p : p \in ToSet(h[Root]) <=> Under(fs, exclude, Root, p)
  BY <1>2, <1>5, WalkHolds
<1>7. h[Root] \in Seq(DOMAIN fs)
  BY <1>2, <1>5 DEF PathLists
<1> QED BY <1>1, <1>4, <1>6, <1>7

-----------------------------------------------------------------------------
(* What is found in a file: its name resolves as it is, so that it is left *)
(* out only when it leads out of the workspace or nowhere.                 *)

LEMMA PlainName == \A a \in ToSet(NameOrder) : a \in Names /\ a # "." /\ a # ".."
BY FilesAssumption DEF Names

LEMMA CleanSame ==
  ASSUME NEW segs \in Seq(ToSet(NameOrder))
  PROVE  Clean(segs) = segs
<1> DEFINE N == Len(segs)
           P(g) == g = [n \in 0..N |-> IF n = 0 THEN <<>> ELSE Cleaned(g[n - 1], segs[n])]
           f == [n \in 0..N |-> Upto(segs, n)]
<1>1. Clean(segs) = (CHOOSE g : P(g))[N]
  BY DEF Clean
<1>2. N \in Nat /\ \A n \in 1..N : segs[n] \in ToSet(NameOrder)
  OBVIOUS
<1>3. Upto(segs, 0) = <<>>
  BY DEF Upto
<1>4. ASSUME NEW n \in 1..N PROVE Upto(segs, n) = Cleaned(Upto(segs, n - 1), segs[n])
  <2>1. segs[n] # "." /\ segs[n] # ".."
    BY <1>2, PlainName
  <2>2. Upto(segs, n) = Append(Upto(segs, n - 1), segs[n])
    BY AboveIt
  <2> QED BY <2>1, <2>2 DEF Cleaned
<1>5. Upto(segs, N) = segs
  BY DEF Upto
<1> HIDE DEF N
<1>6. P(f)
  <2> DEFINE g == [n \in 0..N |-> IF n = 0 THEN <<>> ELSE Cleaned(f[n - 1], segs[n])]
  <2>1. ASSUME NEW n \in 0..N PROVE f[n] = g[n]
    <3>1. n # 0 => n \in 1..N /\ n - 1 \in 0..N
      BY <1>2
    <3> QED BY <1>3, <1>4, <3>1
  <2> QED BY <2>1
<1> HIDE DEF P, f
<1>7. PICK g : P(g) /\ g = CHOOSE h : P(h)
  BY <1>6
<1>8. g[0] = <<>> /\ \A n \in 1..N : g[n] = Cleaned(g[n - 1], segs[n])
  BY <1>2, <1>7 DEF P
<1> DEFINE Q == {n \in Nat : n <= N => g[n] = Upto(segs, n)}
<1>9. 0 \in Q
  BY <1>3, <1>8
<1>10. ASSUME NEW n \in Q PROVE n + 1 \in Q
  <2> SUFFICES ASSUME n + 1 <= N PROVE g[n + 1] = Upto(segs, n + 1)
    OBVIOUS
  <2>1. g[n] = Upto(segs, n) /\ n + 1 \in 1..N /\ (n + 1) - 1 = n
    BY <1>2
  <2> QED BY <1>4, <1>8, <2>1
<1>11. Q = Nat
  <2> Q \in SUBSET Nat
    OBVIOUS
  <2> HIDE DEF Q
  <2> QED BY <1>9, <1>10, Induction
<1>12. g[N] = Upto(segs, N)
  <2>1. N \in Q
    BY <1>2, <1>11
  <2> QED BY <1>2, <2>1
<1> QED BY <1>1, <1>5, <1>7, <1>12

\* A path below the root, and the text of it in a request.
LEMMA RelOf ==
  ASSUME NEW fs, IsFileSystem(fs), NEW p \in DOMAIN fs, Len(Root) < Len(p), Root = Upto(p, Len(Root))
  PROVE  /\ Rel(p) \in Seq(ToSet(NameOrder)) /\ Rel(p) \in Seq(Names) /\ Rel(p) # <<>>
         /\ Root \o Rel(p) = p /\ p \in Seq(Names)
<1>1. /\ p \in Seq(ToSet(NameOrder)) /\ p \in Seq(Names)
  BY TreeNames DEF IsFileSystem
<1>2. Root \in Seq(Names) /\ Len(Root) \in Nat /\ Len(p) \in Nat /\ Len(Root) \in 0..Len(p)
  BY <1>1, FilesAssumption
<1>3. Rel(p) = Past(p, Len(Root))
  BY DEF Rel, Past
<1>4. Rel(p) \in Seq(ToSet(NameOrder)) /\ Len(Rel(p)) = Len(p) - Len(Root)
  <2> DEFINE X == ToSet(NameOrder)
             n == Len(Root)
  <2>1. p \in Seq(X) /\ n \in 0..Len(p)
    BY <1>1, <1>2
  <2> HIDE DEF X, n
  <2>2. Past(p, n) \in Seq(X) /\ Len(Past(p, n)) = Len(p) - n
    BY <2>1, Cut
  <2> QED BY <1>3, <2>2 DEF X, n
<1>5. Rel(p) \in Seq(Names)
  BY <1>1, <1>2, <1>3, Cut
<1>6. Rel(p) # <<>>
  BY <1>2, <1>4
<1>7. Root \o Rel(p) = p
  BY <1>1, <1>2, <1>3, CutJoins
<1> QED BY <1>1, <1>4, <1>5, <1>6, <1>7

LeadsIn(fs, p) == EvalSymlinks(fs, p).ok /\ IsPrefix(Root, EvalSymlinks(fs, p).at)

LEMMA ResolvesThere ==
  ASSUME NEW fs, IsFileSystem(fs), NEW p \in DOMAIN fs, Len(Root) < Len(p), Root = Upto(p, Len(Root))
  PROVE  ResolvePath(fs, [abs |-> FALSE, segs |-> Rel(p)]).ok <=> LeadsIn(fs, p)
<1> DEFINE req == [abs |-> FALSE, segs |-> Rel(p)]
           v == EvalSymlinks(fs, p)
<1>1. /\ Rel(p) \in Seq(ToSet(NameOrder)) /\ Rel(p) \in Seq(Names) /\ Rel(p) # <<>>
      /\ Root \o Rel(p) = p /\ p \in Seq(Names)
  BY RelOf
<1>2. Clean(Rel(p)) = Rel(p)
  BY <1>1, CleanSame
<1>3. ~isEscapeRel(Rel(p))
  <2>1. Head(Rel(p)) \in ToSet(NameOrder)
    BY <1>1
  <2> QED BY <2>1, PlainName DEF isEscapeRel
<1>4. ResolvePath(fs, req) = Judged(fs, p, resolveExisting(fs, p))
  BY <1>1, <1>2, <1>3 DEF ResolvePath
<1>5. Lstat(fs, p) = Found(p)
  BY <1>1, LstatThere
<1>6. Len(p) \in Nat /\ Upto(p, Len(p)) = p /\ Past(p, Len(p)) = <<>>
  <2>1. Len(p) \in Nat /\ Len(p) \in 0..Len(p)
    BY <1>1
  <2>2. Upto(p, Len(p)) = p
    BY <1>1 DEF Upto
  <2>3. Past(p, Len(p)) \in Seq(Names) /\ Len(Past(p, Len(p))) = Len(p) - Len(p)
    BY <1>1, <2>1, Cut
  <2>4. Len(Past(p, Len(p))) = 0
    BY <2>1, <2>3
  <2> QED BY <2>1, <2>2, <2>3, <2>4
<1>7. PICK n \in 0..Len(p) :
        /\ \A m \in (n + 1)..Len(p) : Lstat(fs, Upto(p, m)) = Err("ENOENT")
        /\ resolveExisting(fs, p) =
             IF ~EvalSymlinks(fs, Upto(p, n)).ok THEN EvalSymlinks(fs, Upto(p, n))
             ELSE Found(EvalSymlinks(fs, Upto(p, n)).at \o Past(p, n))
  BY <1>1, Resolution
<1>8. n = Len(p)
  <2> SUFFICES ASSUME n # Len(p) PROVE FALSE
    OBVIOUS
  <2>1. Len(p) \in (n + 1)..Len(p)
    BY <1>6
  <2>2. Found(p) = Err("ENOENT")
    BY <1>5, <1>6, <1>7, <2>1
  <2> QED BY <2>2, Errs
<1>9. resolveExisting(fs, p) = IF ~v.ok THEN v ELSE Found(v.at \o <<>>)
  BY <1>6, <1>7, <1>8
<1> HIDE DEF v
<1>10. v.ok => v.at \o <<>> = v.at
  <2>1. v.ok => v.at \in Seq(Names)
    BY <1>1, EvalFinds DEF v
  <2> QED BY <2>1
<1>11. CASE ~v.ok
  <2>1. ResolvePath(fs, req) = Err("INVALID_PATH")
    BY <1>4, <1>9, <1>11 DEF Judged
  <2> QED BY <1>11, <2>1, Errs DEF LeadsIn, v
<1>12. CASE v.ok
  <2>1. ResolvePath(fs, req) = Judged(fs, p, Found(v.at))
    BY <1>4, <1>9, <1>10, <1>12
  <2>2. Found(v.at).ok /\ Found(v.at).at = v.at
    BY Errs
  <2>3. Judged(fs, p, Found(v.at)).ok <=> withinRoot(v.at)
    <3>1. CASE withinRoot(v.at)
      BY <2>2, <3>1 DEF Judged
    <3>2. CASE ~withinRoot(v.at)
      BY <2>2, <3>2, Errs DEF Judged
    <3> QED BY <3>1, <3>2
  <2> QED BY <1>12, <2>1, <2>3 DEF LeadsIn, v, withinRoot
<1> QED BY <1>11, <1>12

LEMMA TakeIs ==
  ASSUME NEW X, NEW s \in Seq(X), NEW n \in Nat
  PROVE  /\ Take(s, n) \in Seq(X) /\ Len(Take(s, n)) <= n /\ Len(Take(s, n)) <= Len(s)
         /\ Len(Take(s, n)) \in Nat
         /\ Len(Take(s, n)) = n \/ Len(Take(s, n)) = Len(s)
         /\ \A i \in 1..Len(Take(s, n)) : Take(s, n)[i] = s[i]
<1> DEFINE k == IF n < Len(s) THEN n ELSE Len(s)
<1>1. Len(s) \in Nat
  OBVIOUS
<1>2. k \in 0..Len(s) /\ k <= n /\ (k = n \/ k = Len(s))
  BY <1>1
<1>3. Take(s, n) = Upto(s, k)
  BY DEF Take, Upto
<1> HIDE DEF k
<1>4. Upto(s, k) \in Seq(X) /\ Len(Upto(s, k)) = k /\ \A i \in 1..k : Upto(s, k)[i] = s[i]
  BY <1>2, Cut
<1> QED BY <1>1, <1>2, <1>3, <1>4

LEMMA LinesIn ==
  ASSUME NEW bytes \in Seq(Bytes)
  PROVE  Lines(bytes) \subseteq 1..Len(bytes)
<1> SUFFICES ASSUME NEW i \in 1..Len(bytes) PROVE LineOf(bytes, i) \in 1..Len(bytes)
  BY DEF Lines
<1> DEFINE T == {j \in 1..(i - 1) : bytes[j] = "newline"}
<1>1. Len(bytes) \in Nat /\ i - 1 \in Nat /\ i \in Nat
  OBVIOUS
<1>2. IsFiniteSet(1..(i - 1)) /\ Cardinality(1..(i - 1)) = i - 1
  <2>1. PICK k \in Nat : k = i - 1
    BY <1>1
  <2>2. 1 \in Int /\ k \in Int
    BY <2>1
  <2>3. IsFiniteSet(1..k) /\ Cardinality(1..k) = IF 1 > k THEN 0 ELSE k - 1 + 1
    BY <2>2, FS_Interval
  <2>4. (IF 1 > k THEN 0 ELSE k - 1 + 1) = k
    BY <2>1
  <2> QED BY <2>1, <2>3, <2>4
<1>3. IsFiniteSet(T) /\ Cardinality(T) <= Cardinality(1..(i - 1))
  BY <1>2, FS_Subset
<1>4. Cardinality(T) \in Nat
  BY <1>3, FS_CardinalityType
<1>5. LineOf(bytes, i) = 1 + Cardinality(T)
  BY DEF LineOf
<1> HIDE DEF T
<1> QED BY <1>1, <1>2, <1>3, <1>4, <1>5

LEMMA LinesOfTake ==
  ASSUME NEW bytes \in Seq(Bytes), NEW n \in Nat
  PROVE  Lines(Take(bytes, n)) \subseteq Lines(bytes)
<1> DEFINE t == Take(bytes, n)
<1>1. /\ t \in Seq(Bytes) /\ Len(t) <= Len(bytes) /\ Len(t) \in Nat /\ Len(bytes) \in Nat
      /\ \A i \in 1..Len(t) : t[i] = bytes[i]
  BY TakeIs
<1> HIDE DEF t
<1>2. DOMAIN t = 1..Len(t) /\ DOMAIN bytes = 1..Len(bytes)
  BY <1>1
<1>3. ASSUME NEW i \in 1..Len(t) PROVE LineOf(t, i) = LineOf(bytes, i) /\ i \in DOMAIN bytes
  <2>1. \A j \in 1..(i - 1) : j \in 1..Len(t)
    BY <1>1
  <2>2. {j \in 1..(i - 1) : t[j] = "newline"} = {j \in 1..(i - 1) : bytes[j] = "newline"}
    BY <1>1, <2>1
  <2>3. LineOf(t, i) = LineOf(bytes, i)
    BY <2>2 DEF LineOf
  <2>4. i \in DOMAIN bytes
    BY <1>1, <1>2
  <2> QED BY <2>3, <2>4
<1>4. Lines(t) \subseteq Lines(bytes)
  <2> SUFFICES ASSUME NEW l \in Lines(t) PROVE l \in Lines(bytes)
    OBVIOUS
  <2>1. PICK i \in 1..Len(t) : t[i] = "query" /\ l = LineOf(t, i)
    BY <1>2 DEF Lines
  <2>2. bytes[i] = "query" /\ l = LineOf(bytes, i) /\ i \in DOMAIN bytes
    BY <1>1, <1>3, <2>1
  <2> QED BY <2>2 DEF Lines
<1> QED BY <1>4 DEF t

HitRecords == [path : Seq(Names), kind : {"name", "path", "content"}, line : Nat]

LEMMA HitType ==
  ASSUME NEW p, Rel(p) \in Seq(Names), NEW l \in Nat
  PROVE  /\ Hit(p, "name", l) \in HitRecords /\ Hit(p, "path", l) \in HitRecords
         /\ Hit(p, "content", l) \in HitRecords
BY DEF Hit, HitRecords

LEMMA LineHitsAre ==
  ASSUME NEW p, Rel(p) \in Seq(Names), NEW lines \in SUBSET (1..MaxContentScan), NEW opts
  PROVE  /\ LineHits(p, lines, opts) \in Seq(HitRecords)
         /\ \A h : h \in ToSet(LineHits(p, lines, opts)) <=>
                     Wants(opts, "content") /\ \E l \in lines : h = Hit(p, "content", l)
<1> DEFINE M == MaxContentScan
           seqs == [l \in 1..M |-> IF l \in lines THEN <<Hit(p, "content", l)>> ELSE <<>>]
<1>1. M \in Nat
  BY FilesAssumption
<1>2. \A l \in 1..M : Hit(p, "content", l) \in HitRecords
  BY HitType
<1>3. seqs \in Seq(Seq(HitRecords)) /\ DOMAIN seqs = 1..M
  <2>1. <<>> \in Seq(HitRecords) /\ \A x \in HitRecords : <<x>> \in Seq(HitRecords)
    OBVIOUS
  <2>2. \A l \in 1..M : (IF l \in lines THEN <<Hit(p, "content", l)>> ELSE <<>>) \in Seq(HitRecords)
    BY <1>2, <2>1
  <2> QED BY <1>1, <2>2
<1>4. ToSet(<<>>) = {} /\ \A x : ToSet(<<x>>) = {x}
  BY DEF ToSet
<1>5. ASSUME NEW h, NEW l \in 1..M
      PROVE  h \in ToSet(seqs[l]) <=> l \in lines /\ h = Hit(p, "content", l)
  BY <1>4
<1>6. CASE ~Wants(opts, "content")
  <2>1. LineHits(p, lines, opts) = <<>> /\ <<>> \in Seq(HitRecords)
    BY <1>6 DEF LineHits
  <2> QED BY <1>4, <1>6, <2>1
<1>7. CASE Wants(opts, "content")
  <2>1. LineHits(p, lines, opts) = FlattenSeq(seqs)
    BY <1>7 DEF LineHits
  <2> HIDE DEF seqs
  <2>2. /\ FlattenSeq(seqs) \in Seq(HitRecords)
        /\ \A h : h \in ToSet(FlattenSeq(seqs)) <=> \E l \in DOMAIN seqs : h \in ToSet(seqs[l])
    BY <1>3, FlattenHolds
  <2>3. ASSUME NEW h
        PROVE  (\E l \in DOMAIN seqs : h \in ToSet(seqs[l])) <=> \E l \in lines : h = Hit(p, "content", l)
    BY <1>3, <1>5
  <2> QED BY <1>7, <2>1, <2>2, <2>3
<1> QED BY <1>6, <1>7

LEMMA TakeTwice ==
  ASSUME NEW X, NEW s \in Seq(X), NEW m \in Nat, NEW n \in Nat
  PROVE  Take(Take(s, m), n) = Take(s, IF n < m THEN n ELSE m)
<1> DEFINE k == IF n < m THEN n ELSE m
           t == Take(s, m)
           u == Take(t, n)
           v == Take(s, k)
<1>1. k \in Nat /\ k <= n /\ k <= m /\ (k = n \/ k = m)
  OBVIOUS
<1>2. /\ t \in Seq(X) /\ Len(t) \in Nat /\ Len(t) <= m /\ Len(t) <= Len(s) /\ (Len(t) = m \/ Len(t) = Len(s))
      /\ \A i \in 1..Len(t) : t[i] = s[i]
  BY TakeIs
<1> HIDE DEF t, k
<1>3. /\ u \in Seq(X) /\ Len(u) \in Nat /\ Len(u) <= n /\ Len(u) <= Len(t) /\ (Len(u) = n \/ Len(u) = Len(t))
      /\ \A i \in 1..Len(u) : u[i] = t[i]
  BY <1>2, TakeIs
<1>4. /\ v \in Seq(X) /\ Len(v) \in Nat /\ Len(v) <= k /\ Len(v) <= Len(s) /\ (Len(v) = k \/ Len(v) = Len(s))
      /\ \A i \in 1..Len(v) : v[i] = s[i]
  BY <1>1, TakeIs
<1> HIDE DEF u, v
<1>5. Len(s) \in Nat
  OBVIOUS
<1>6. Len(u) = Len(v)
  BY <1>1, <1>2, <1>3, <1>4, <1>5
<1>7. \A i \in 1..Len(u) : u[i] = v[i]
  BY <1>2, <1>3, <1>4, <1>6
<1>8. u = v
  BY <1>3, <1>4, <1>6, <1>7, SameSeq
<1> QED BY <1>8 DEF u, v, t, k

\* The head of a text is text, but for a rune that it cuts in two.
LEMMA HeadOfText ==
  ASSUME NEW bytes \in Seq(Bytes), NEW n \in Nat, Utf8(bytes),
         ~(Take(bytes, n) # <<>> /\ Last(Take(bytes, n)) = "lead")
  PROVE  Utf8(Take(bytes, n))
<1> DEFINE h == Take(bytes, n)
<1>1. /\ h \in Seq(Bytes) /\ Len(h) <= Len(bytes) /\ Len(h) \in Nat /\ Len(bytes) \in Nat
      /\ \A i \in 1..Len(h) : h[i] = bytes[i]
  BY TakeIs
<1>2. ~(h # <<>> /\ Last(h) = "lead")
  OBVIOUS
<1> HIDE DEF h
<1>3. DOMAIN h = 1..Len(h) /\ DOMAIN bytes = 1..Len(bytes)
  BY <1>1
<1>4. ASSUME NEW i \in 1..Len(h)
      PROVE  /\ h[i] = "lead" => i < Len(h) /\ h[i + 1] = "rest"
             /\ h[i] = "rest" => i > 1 /\ h[i - 1] = "lead"
  <2>1. i \in 1..Len(bytes) /\ h[i] = bytes[i] /\ i \in Nat
    BY <1>1
  <2>2. /\ bytes[i] = "lead" => i < Len(bytes) /\ bytes[i + 1] = "rest"
        /\ bytes[i] = "rest" => i > 1 /\ bytes[i - 1] = "lead"
    BY <1>3, <2>1 DEF Utf8
  <2>3. ASSUME h[i] = "lead" PROVE i < Len(h) /\ h[i + 1] = "rest"
    <3>1. h # <<>>
      BY <1>1
    <3>2. i # Len(h)
      BY <1>2, <2>3, <3>1 DEF Last
    <3>3. i < Len(h) /\ i + 1 \in 1..Len(h)
      BY <1>1, <2>1, <3>2
    <3> QED BY <1>1, <2>1, <2>2, <2>3, <3>3
  <2>4. ASSUME h[i] = "rest" PROVE i > 1 /\ h[i - 1] = "lead"
    <3>1. i > 1 /\ bytes[i - 1] = "lead"
      BY <2>1, <2>2, <2>4
    <3>2. i - 1 \in 1..Len(h)
      BY <1>1, <2>1, <3>1
    <3> QED BY <1>1, <3>1, <3>2
  <2> QED BY <2>3, <2>4
<1>5. Utf8(h)
  BY <1>3, <1>4 DEF Utf8
<1> QED BY <1>5 DEF h

\* What is not looked at in a file.
Unlooked(bytes, l) ==
  LET head == Take(bytes, IF HeadBytes < MaxContentScan THEN HeadBytes ELSE MaxContentScan)
  IN  \/ Len(bytes) > MaxFileBytes
      \/ Contains(head, "nul") \/ ~Utf8(bytes)
      \/ head # <<>> /\ Last(head) = "lead"
      \/ l \notin Lines(Take(bytes, MaxContentScan))

LEMMA ContentIs ==
  ASSUME NEW fs, IsFileSystem(fs), NEW p \in Seq(Names), LeadsIn(fs, p)
  PROVE  LET file  == fs[EvalSymlinks(fs, p).at]
             lines == searchFileContent(fs, p)
         IN  /\ file.kind = "file" \/ lines = {}
             /\ lines \in SUBSET (1..MaxContentScan)
             /\ file.kind = "file" => /\ lines \subseteq Lines(file.bytes)
                                      /\ \A l \in Lines(file.bytes) \ lines : Unlooked(file.bytes, l)
<1> DEFINE target == EvalSymlinks(fs, p)
           file   == fs[target.at]
           bytes  == file.bytes
           scan   == Take(bytes, MaxContentScan)
           head   == Take(scan, HeadBytes)
           lines  == searchFileContent(fs, p)
           skip   == Len(bytes) > MaxFileBytes \/ ~Utf8(head) \/ Contains(head, "nul")
<1>1. target.ok /\ withinRoot(target.at)
  BY DEF LeadsIn, withinRoot
<1>2. target.at \in DOMAIN fs /\ file.kind # "link" /\ file.kind \in Kinds
  <2>1. Here(fs, target.at)
    BY <1>1, EvalFinds
  <2> QED BY <2>1 DEF Here, IsFileSystem
<1>3. CASE file.kind = "dir"
  <2>1. lines = {}
    BY <1>3 DEF searchFileContent
  <2> QED BY <1>3, <2>1
<1>4. CASE file.kind = "file"
  <2>1. bytes \in Seq(Bytes) /\ MaxContentScan \in Nat /\ HeadBytes \in Nat
    BY <1>2, <1>4, FilesAssumption DEF IsFileSystem
  <2>2. (skip => lines = {}) /\ (~skip => lines = Lines(scan))
    BY <1>1, <1>4 DEF searchFileContent
  <2> HIDE DEF target, file, lines
  <2>3. /\ Lines(scan) \subseteq Lines(bytes) /\ scan \in Seq(Bytes)
        /\ Len(scan) <= MaxContentScan /\ Len(scan) \in Nat
    BY <2>1, LinesOfTake, TakeIs
  <2>4. Lines(scan) \subseteq 1..Len(scan)
    BY <2>3, LinesIn
  <2>5. Lines(scan) \in SUBSET (1..MaxContentScan)
    BY <2>1, <2>3, <2>4
  <2> DEFINE least == IF HeadBytes < MaxContentScan THEN HeadBytes ELSE MaxContentScan
  <2>6. head = Take(bytes, least) /\ least \in Nat
    BY <2>1, TakeTwice
  <2>7. ASSUME NEW l \in Lines(bytes) \ lines PROVE Unlooked(bytes, l)
    <3>1. CASE skip
      <4>1. ~Utf8(head) => ~Utf8(bytes) \/ (head # <<>> /\ Last(head) = "lead")
        <5> HIDE DEF least, scan
        <5>1. ASSUME Utf8(bytes), ~(Take(bytes, least) # <<>> /\ Last(Take(bytes, least)) = "lead")
              PROVE  Utf8(Take(bytes, least))
          BY <2>1, <2>6, <5>1, HeadOfText
        <5> QED BY <2>6, <5>1
      <4>2. \/ Len(bytes) > MaxFileBytes \/ Contains(Take(bytes, least), "nul") \/ ~Utf8(bytes)
            \/ Take(bytes, least) # <<>> /\ Last(Take(bytes, least)) = "lead"
        <5> HIDE DEF least, scan
        <5> QED BY <2>6, <3>1, <4>1
      <4> QED BY <4>2 DEF Unlooked
    <3>2. CASE ~skip
      <4>1. l \notin Lines(scan)
        BY <2>2, <2>7, <3>2
      <4> QED BY <4>1 DEF Unlooked
    <3> QED BY <3>1, <3>2
  <2>8. lines \subseteq Lines(bytes) /\ lines \in SUBSET (1..MaxContentScan)
    <3> HIDE DEF scan, skip
    <3> QED BY <2>2, <2>3, <2>5
  <2> QED BY <1>4, <2>7, <2>8 DEF lines, file, target
<1> QED BY <1>2, <1>3, <1>4 DEF Kinds

IsHit(fs, p, opts, h) ==
  \/ Wants(opts, "name") /\ Last(p) \in opts.matching /\ h = Hit(p, "name", 0)
  \/ Wants(opts, "path") /\ ToSet(Rel(p)) \cap opts.matching # {} /\ h = Hit(p, "path", 0)
  \/ Wants(opts, "content") /\ \E l \in searchFileContent(fs, p) : h = Hit(p, "content", l)

LEMMA HitsAre ==
  ASSUME NEW fs, IsFileSystem(fs), NEW p \in DOMAIN fs, Len(Root) < Len(p), Root = Upto(p, Len(Root)), NEW opts
  PROVE  /\ HitsOf(fs, p, opts) \in Seq(HitRecords)
         /\ \A h : h \in ToSet(HitsOf(fs, p, opts)) <=> LeadsIn(fs, p) /\ IsHit(fs, p, opts, h)
<1>1. Rel(p) \in Seq(Names) /\ p \in Seq(Names)
  BY RelOf
<1>2. ToSet(<<>>) = {} /\ \A x : ToSet(<<x>>) = {x}
  BY DEF ToSet
<1>3. CASE ~LeadsIn(fs, p)
  <2>1. HitsOf(fs, p, opts) = <<>>
    BY <1>3, ResolvesThere DEF HitsOf
  <2>2. <<>> \in Seq(HitRecords)
    OBVIOUS
  <2> QED BY <1>2, <1>3, <2>1, <2>2
<1>4. CASE LeadsIn(fs, p)
  <2> DEFINE a == NameHits(p, opts)
             b == PathHits(p, opts)
             c == LineHits(p, searchFileContent(fs, p), opts)
  <2>1. HitsOf(fs, p, opts) = a \o b \o c
    BY <1>4, ResolvesThere DEF HitsOf
  <2>2. /\ a \in Seq(HitRecords)
        /\ \A h : h \in ToSet(a) <=> Wants(opts, "name") /\ Last(p) \in opts.matching /\ h = Hit(p, "name", 0)
    <3>1. Hit(p, "name", 0) \in HitRecords
      BY <1>1, HitType
    <3>2. <<>> \in Seq(HitRecords) /\ <<Hit(p, "name", 0)>> \in Seq(HitRecords)
      BY <3>1
    <3>3. CASE Wants(opts, "name") /\ Last(p) \in opts.matching
      <4>1. a = <<Hit(p, "name", 0)>>
        BY <3>3 DEF NameHits
      <4> QED BY <1>2, <3>2, <3>3, <4>1
    <3>4. CASE ~(Wants(opts, "name") /\ Last(p) \in opts.matching)
      <4>1. a = <<>>
        BY <3>4 DEF NameHits
      <4> QED BY <1>2, <3>2, <3>4, <4>1
    <3> QED BY <3>3, <3>4
  <2>3. /\ b \in Seq(HitRecords)
        /\ \A h : h \in ToSet(b) <=>
             Wants(opts, "path") /\ ToSet(Rel(p)) \cap opts.matching # {} /\ h = Hit(p, "path", 0)
    <3>1. Hit(p, "path", 0) \in HitRecords
      BY <1>1, HitType
    <3>2. <<>> \in Seq(HitRecords) /\ <<Hit(p, "path", 0)>> \in Seq(HitRecords)
      BY <3>1
    <3>3. CASE Wants(opts, "path") /\ ToSet(Rel(p)) \cap opts.matching # {}
      <4>1. b = <<Hit(p, "path", 0)>>
        BY <3>3 DEF PathHits
      <4> QED BY <1>2, <3>2, <3>3, <4>1
    <3>4. CASE ~(Wants(opts, "path") /\ ToSet(Rel(p)) \cap opts.matching # {})
      <4>1. b = <<>>
        BY <3>4 DEF PathHits
      <4> QED BY <1>2, <3>2, <3>4, <4>1
    <3> QED BY <3>3, <3>4
  <2>4. searchFileContent(fs, p) \in SUBSET (1..MaxContentScan)
    BY <1>1, <1>4, ContentIs
  <2>5. /\ c \in Seq(HitRecords)
        /\ \A h : h \in ToSet(c) <=>
             Wants(opts, "content") /\ \E l \in searchFileContent(fs, p) : h = Hit(p, "content", l)
    <3>1. PICK lines \in SUBSET (1..MaxContentScan) : lines = searchFileContent(fs, p)
      BY <2>4
    <3>2. /\ LineHits(p, lines, opts) \in Seq(HitRecords)
          /\ \A h : h \in ToSet(LineHits(p, lines, opts)) <=>
               Wants(opts, "content") /\ \E l \in lines : h = Hit(p, "content", l)
      BY <1>1, LineHitsAre
    <3> QED BY <3>1, <3>2
  <2> HIDE DEF a, b, c
  <2>6. a \o b \in Seq(HitRecords) /\ a \o b \o c \in Seq(HitRecords)
    BY <2>2, <2>3, <2>5
  <2>7. \A h : h \in ToSet(a \o b \o c) <=> h \in ToSet(a) \/ h \in ToSet(b) \/ h \in ToSet(c)
    BY <2>2, <2>3, <2>5, <2>6, ToSetJoined
  <2>8. \A h : h \in ToSet(a \o b \o c) <=> IsHit(fs, p, opts, h)
    BY <2>2, <2>3, <2>5, <2>7 DEF IsHit
  <2> QED BY <1>4, <2>1, <2>6, <2>8
<1> QED BY <1>3, <1>4

\* The walk below the root, in the words of the promise.
LEMMA UnderRoot ==
  ASSUME NEW fs, IsFileSystem(fs), NEW exclude, NEW p
  PROVE  /\ Under(fs, exclude, Root, p) /\ LeadsIn(fs, p) => p \in Reach(fs, exclude)
         /\ p \in Reach(fs, exclude) =>
              /\ p \in DOMAIN fs /\ Len(Root) < Len(p) /\ Root = Upto(p, Len(Root)) /\ LeadsIn(fs, p)
              /\ Last(Root) \notin exclude => Under(fs, exclude, Root, p)
<1> SUFFICES ASSUME p \in DOMAIN fs
             PROVE  /\ Under(fs, exclude, Root, p) /\ LeadsIn(fs, p) => p \in Reach(fs, exclude)
                    /\ p \in Reach(fs, exclude) =>
                         /\ Len(Root) < Len(p) /\ Root = Upto(p, Len(Root)) /\ LeadsIn(fs, p)
                         /\ Last(Root) \notin exclude => Under(fs, exclude, Root, p)
  BY DEF Under, Reach
<1>1. p \in Seq(Names) /\ Len(p) \in Nat /\ Root \in Seq(Names) /\ Len(Root) \in Nat /\ Len(Root) > 0
  BY TreeNames, FilesAssumption
<1>2. ASSUME NEW q \in Seq(Names)
      PROVE  IsStrictPrefix(Root, q) <=> Len(Root) < Len(q) /\ Root = Upto(q, Len(Root))
  <2>1. IsPrefix(Root, q) <=> Len(Root) <= Len(q) /\ Root = Upto(q, Len(Root))
    BY <1>2, Inside
  <2>2. Len(q) \in Nat
    BY <1>2
  <2>3. Len(Root) = Len(q) => Upto(q, Len(Root)) = q
    BY <1>2, <2>2 DEF Upto
  <2> QED BY <1>1, <2>1, <2>2, <2>3 DEF IsStrictPrefix
<1> DEFINE free  == \A n \in Len(Root)..(Len(p) - 1) : p[n] \notin exclude
           clear == \A q \in Prefixes(Front(p)) : IsStrictPrefix(Root, q) => Last(q) \notin exclude
<1>3. ASSUME Len(Root) < Len(p), Root = Upto(p, Len(Root))
      PROVE  free <=> Last(Root) \notin exclude /\ clear
  <2> DEFINE f == Upto(p, Len(p) - 1)
  <2>1. Len(p) \in 1..Len(p) /\ Len(p) - 1 \in 0..Len(p) /\ Len(Root) \in 0..Len(p) /\ Len(Root) \in 1..Len(Root)
    BY <1>1, <1>3
  <2>2. Front(p) = f /\ f \in Seq(Names) /\ Len(f) = Len(p) - 1
    BY <1>1, <2>1, Cut DEF Front, Upto
  <2>3. p[Len(Root)] = Last(Root)
    <3>1. Upto(p, Len(Root))[Len(Root)] = p[Len(Root)]
      BY <1>1, <2>1, Cut
    <3> QED BY <1>3, <3>1 DEF Last
  <2> HIDE DEF f
  <2>4. ASSUME NEW n \in 0..(Len(p) - 1)
        PROVE  /\ Upto(f, n) \in Prefixes(Front(p)) /\ Upto(f, n) \in Seq(Names) /\ Upto(f, n) = Upto(p, n)
               /\ n > 0 => Last(Upto(f, n)) = p[n]
               /\ IsStrictPrefix(Root, Upto(f, n)) <=> Len(Root) < n
    <3>1. n \in 0..Len(f) /\ n \in 0..Len(p) /\ Len(p) - 1 \in 0..Len(p) /\ n \in Nat
      BY <1>1, <2>1, <2>2
    <3>2. Upto(f, n) \in Prefixes(Front(p))
      BY <2>2, <3>1 DEF Prefixes, Upto
    <3>3. Upto(f, n) = Upto(p, n)
      <4> HIDE DEF f
      <4>1. CASE Len(p) - 1 = 0
        <5>1. n \in 0..0
          BY <4>1
        <5>2. n = 0
          BY <5>1
        <5>3. Upto(f, 0) = <<>> /\ Upto(p, 0) = <<>>
          BY DEF Upto
        <5> QED BY <5>2, <5>3
      <4>2. CASE Len(p) - 1 # 0
        <5>1. Len(p) - 1 \in 1..Len(p)
          BY <2>1, <4>2
        <5> QED BY <1>1, <5>1, AboveIt DEF f
      <4> QED BY <4>1, <4>2
    <3>4. Upto(p, n) \in Seq(Names) /\ Len(Upto(p, n)) = n /\ \A i \in 1..n : Upto(p, n)[i] = p[i]
      BY <1>1, <3>1, Cut
    <3>5. n > 0 => Last(Upto(p, n)) = p[n]
      BY <3>1, <3>4 DEF Last
    <3>6. Len(Root) < n => Upto(Upto(p, n), Len(Root)) = Root
      <4> SUFFICES ASSUME Len(Root) < n PROVE Upto(Upto(p, n), Len(Root)) = Upto(p, Len(Root))
        BY <1>3
      <4>1. n \in 1..Len(p) /\ Len(Root) \in 0..n
        BY <1>1, <3>1
      <4> QED BY <1>1, <4>1, AboveIt
    <3>7. IsStrictPrefix(Root, Upto(p, n)) <=> Len(Root) < n
      BY <1>2, <3>4, <3>6
    <3> QED BY <3>2, <3>3, <3>4, <3>5, <3>7
  <2>5. ASSUME NEW q \in Prefixes(Front(p)) PROVE \E n \in 0..(Len(p) - 1) : q = Upto(f, n)
    BY <2>2 DEF Prefixes, Upto
  <2>6. ASSUME free PROVE Last(Root) \notin exclude /\ clear
    <3>1. Last(Root) \notin exclude
      <4>1. Len(Root) \in Len(Root)..(Len(p) - 1)
        BY <1>1, <1>3
      <4> QED BY <2>3, <2>6, <4>1
    <3>2. ASSUME NEW q \in Prefixes(Front(p)), IsStrictPrefix(Root, q) PROVE Last(q) \notin exclude
      <4>1. PICK n \in 0..(Len(p) - 1) : q = Upto(f, n)
        BY <2>5
      <4>2. Len(Root) < n
        BY <2>4, <3>2, <4>1
      <4>3. n \in Len(Root)..(Len(p) - 1) /\ n > 0
        BY <1>1, <4>2
      <4> QED BY <2>4, <2>6, <4>1, <4>3
    <3> QED BY <3>1, <3>2
  <2>7. ASSUME Last(Root) \notin exclude, clear PROVE free
    <3> SUFFICES ASSUME NEW n \in Len(Root)..(Len(p) - 1) PROVE p[n] \notin exclude
      OBVIOUS
    <3>1. CASE n = Len(Root)
      BY <2>3, <2>7, <3>1
    <3>2. CASE n # Len(Root)
      <4>1. n \in 0..(Len(p) - 1) /\ Len(Root) < n /\ n > 0
        BY <1>1, <3>2
      <4> QED BY <2>4, <2>7, <4>1
    <3> QED BY <3>1, <3>2
  <2> QED BY <2>6, <2>7
<1>4. IsStrictPrefix(Root, p) <=> Len(Root) < Len(p) /\ Root = Upto(p, Len(Root))
  BY <1>1, <1>2
<1>5. Under(fs, exclude, Root, p) <=>
        ~IsDir(fs, p) /\ Len(Root) < Len(p) /\ Root = Upto(p, Len(Root)) /\ free
  BY DEF Under
<1>6. p \in Reach(fs, exclude) <=>
        IsStrictPrefix(Root, p) /\ ~IsDir(fs, p) /\ clear /\ LeadsIn(fs, p)
  BY DEF Reach, LeadsIn
<1> HIDE DEF free, clear
<1> QED BY <1>3, <1>4, <1>5, <1>6

HitsFound(fs, opts) ==
  LET files == WalkDir(fs, Root, opts.exclude)
  IN  FlattenSeq([i \in DOMAIN files |-> HitsOf(fs, files[i], opts)])

LEMMA HitsFoundAre ==
  ASSUME NEW fs, IsFileSystem(fs), NEW opts
  PROVE  /\ HitsFound(fs, opts) \in Seq(HitRecords)
         /\ \A h : h \in ToSet(HitsFound(fs, opts)) <=>
              \E p : Under(fs, opts.exclude, Root, p) /\ LeadsIn(fs, p) /\ IsHit(fs, p, opts, h)
<1> DEFINE files == WalkDir(fs, Root, opts.exclude)
           seqs  == [i \in DOMAIN files |-> HitsOf(fs, files[i], opts)]
<1>1. files \in Seq(DOMAIN fs) /\ \A p : p \in ToSet(files) <=> Under(fs, opts.exclude, Root, p)
  BY WalkDirIs
<1>2. HitsFound(fs, opts) = FlattenSeq(seqs)
  BY DEF HitsFound
<1> HIDE DEF files
<1>3. DOMAIN files = 1..Len(files) /\ Len(files) \in Nat
  BY <1>1
<1>4. ASSUME NEW p, Under(fs, opts.exclude, Root, p)
      PROVE  /\ HitsOf(fs, p, opts) \in Seq(HitRecords)
             /\ \A h : h \in ToSet(HitsOf(fs, p, opts)) <=> LeadsIn(fs, p) /\ IsHit(fs, p, opts, h)
  <2>1. p \in DOMAIN fs /\ Len(Root) < Len(p) /\ Root = Upto(p, Len(Root))
    BY <1>4 DEF Under
  <2> QED BY <2>1, HitsAre
<1>5. \A i \in DOMAIN files : Under(fs, opts.exclude, Root, files[i])
  BY <1>1 DEF ToSet
<1>6. seqs \in Seq(Seq(HitRecords)) /\ DOMAIN seqs = DOMAIN files
  <2>1. \A i \in 1..Len(files) : HitsOf(fs, files[i], opts) \in Seq(HitRecords)
    BY <1>3, <1>4, <1>5
  <2> QED BY <1>3, <2>1
<1>7. \A i \in DOMAIN files : seqs[i] = HitsOf(fs, files[i], opts)
  OBVIOUS
<1> HIDE DEF seqs
<1>8. /\ FlattenSeq(seqs) \in Seq(HitRecords)
      /\ \A h : h \in ToSet(FlattenSeq(seqs)) <=> \E i \in DOMAIN seqs : h \in ToSet(seqs[i])
  BY <1>6, FlattenHolds
<1>9. ASSUME NEW h
      PROVE  (\E i \in DOMAIN seqs : h \in ToSet(seqs[i])) <=>
             \E p : Under(fs, opts.exclude, Root, p) /\ LeadsIn(fs, p) /\ IsHit(fs, p, opts, h)
  <2>1. ASSUME NEW i \in DOMAIN seqs, h \in ToSet(seqs[i])
        PROVE  \E p : Under(fs, opts.exclude, Root, p) /\ LeadsIn(fs, p) /\ IsHit(fs, p, opts, h)
    BY <1>4, <1>5, <1>6, <1>7, <2>1
  <2>2. ASSUME NEW p, Under(fs, opts.exclude, Root, p), LeadsIn(fs, p), IsHit(fs, p, opts, h)
        PROVE  \E i \in DOMAIN seqs : h \in ToSet(seqs[i])
    <3>1. PICK i \in DOMAIN files : p = files[i]
      BY <1>1, <2>2 DEF ToSet
    <3>2. h \in ToSet(seqs[i])
      BY <1>4, <1>7, <2>2, <3>1
    <3> QED BY <1>6, <3>2
  <2> QED BY <2>1, <2>2
<1> QED BY <1>2, <1>8, <1>9

\* A hit that there is in a file of the workspace.
IsThere(fs, p, opts, h) ==
  LET text == fs[EvalSymlinks(fs, p).at] IN
  \/ Wants(opts, "name") /\ Last(p) \in opts.matching /\ h = Hit(p, "name", 0)
  \/ Wants(opts, "path") /\ ToSet(Rel(p)) \cap opts.matching # {} /\ h = Hit(p, "path", 0)
  \/ Wants(opts, "content") /\ text.kind = "file" /\ \E l \in Lines(text.bytes) : h = Hit(p, "content", l)

LEMMA TrueHitsAre ==
  ASSUME NEW fs, NEW opts, NEW h
  PROVE  h \in TrueHits(fs, opts) <=> \E p \in Reach(fs, opts.exclude) : IsThere(fs, p, opts, h)
BY DEF TrueHits, IsThere

LEMMA HitParts ==
  ASSUME NEW p, NEW k, NEW l
  PROVE  Hit(p, k, l).path = Rel(p) /\ Hit(p, k, l).kind = k /\ Hit(p, k, l).line = l
BY DEF Hit

\* What is found is there; what is there is found, or not looked at.
LEMMA FoundIsThere ==
  ASSUME NEW fs, IsFileSystem(fs), NEW opts, NEW p \in Reach(fs, opts.exclude), NEW h
  PROVE  /\ IsHit(fs, p, opts, h) => IsThere(fs, p, opts, h)
         /\ IsThere(fs, p, opts, h) => IsHit(fs, p, opts, h) \/ Unseen(fs, h)
<1> DEFINE text == fs[EvalSymlinks(fs, p).at]
           lines == searchFileContent(fs, p)
<1>1. /\ p \in DOMAIN fs /\ Len(Root) < Len(p) /\ Root = Upto(p, Len(Root)) /\ LeadsIn(fs, p)
      /\ p \in Seq(Names) /\ Root \o Rel(p) = p
  <2>1. p \in DOMAIN fs /\ Len(Root) < Len(p) /\ Root = Upto(p, Len(Root)) /\ LeadsIn(fs, p)
    BY UnderRoot
  <2> QED BY <2>1, RelOf
<1>2. /\ text.kind = "file" \/ lines = {}
      /\ text.kind = "file" => /\ lines \subseteq Lines(text.bytes)
                               /\ \A l \in Lines(text.bytes) \ lines : Unlooked(text.bytes, l)
  BY <1>1, ContentIs
<1>3. ASSUME NEW l, Unlooked(text.bytes, l) PROVE Unseen(fs, Hit(p, "content", l))
  <2>1. /\ fs[EvalSymlinks(fs, Root \o Hit(p, "content", l).path).at] = text
        /\ Hit(p, "content", l).kind = "content" /\ Hit(p, "content", l).line = l
    <3>1. /\ Hit(p, "content", l).path = Rel(p)
          /\ Hit(p, "content", l).kind = "content" /\ Hit(p, "content", l).line = l
      BY HitParts
    <3> QED BY <1>1, <3>1
  <2> HIDE DEF text
  <2> QED BY <1>3, <2>1 DEF Unseen, Unlooked
<1>4. IsHit(fs, p, opts, h) => IsThere(fs, p, opts, h)
  BY <1>2 DEF IsHit, IsThere
<1>5. ASSUME IsThere(fs, p, opts, h), ~IsHit(fs, p, opts, h) PROVE Unseen(fs, h)
  <2>1. Wants(opts, "content") /\ text.kind = "file" /\ \E l \in Lines(text.bytes) : h = Hit(p, "content", l)
    BY <1>5 DEF IsHit, IsThere
  <2>2. PICK l \in Lines(text.bytes) : h = Hit(p, "content", l)
    BY <2>1
  <2>3. l \notin lines
    BY <1>5, <2>1, <2>2 DEF IsHit
  <2> HIDE DEF text, lines
  <2> QED BY <1>2, <1>3, <2>1, <2>2, <2>3
<1> QED BY <1>4, <1>5

LEMMA CountOnceEach ==
  ASSUME NEW S, NEW s \in Seq(S), \A i, j \in 1..Len(s) : s[i] = s[j] => i = j
  PROVE  Cardinality(ToSet(s)) = Len(s)
<1>1. PICK n \in Nat : n = Len(s)
  OBVIOUS
<1>2. DOMAIN s = 1..n
  BY <1>1
<1>3. s \in Bijection(1..n, ToSet(s))
  <2>1. s \in [1..n -> ToSet(s)]
    BY <1>1, <1>2 DEF ToSet
  <2>2. \A i, j \in 1..n : s[i] = s[j] => i = j
    BY <1>1
  <2>3. \A t \in ToSet(s) : \E i \in 1..n : s[i] = t
    BY <1>2 DEF ToSet
  <2> QED BY <2>1, <2>2, <2>3 DEF Bijection, Injection, Surjection, IsInjective
<1>4. ExistsBijection(1..n, ToSet(s))
  BY <1>3 DEF ExistsBijection
<1>5. IsFiniteSet(1..n) /\ Cardinality(1..n) = n
  <2>1. 1 \in Int /\ n \in Int
    OBVIOUS
  <2>2. IsFiniteSet(1..n) /\ Cardinality(1..n) = IF 1 > n THEN 0 ELSE n - 1 + 1
    BY <2>1, FS_Interval
  <2>3. (IF 1 > n THEN 0 ELSE n - 1 + 1) = n
    OBVIOUS
  <2> QED BY <2>2, <2>3
<1> QED BY <1>1, <1>4, <1>5, FS_Bijection

LEMMA SearchLemma ==
  ASSUME NEW fs, IsFileSystem(fs), NEW opts
  PROVE  SearchIsTrue(fs, opts, Search(fs, opts))
<1> DEFINE hits == HitsFound(fs, opts)
           res  == Search(fs, opts)
           got  == ToSet(res.matches)
           G    == ToSet(hits)
<1>1. hits \in Seq(HitRecords)
  BY HitsFoundAre
<1>2. Collected(HitRecords, G, res)
  <2>1. res = Results(hits)
    BY DEF Search, HitsFound
  <2> QED BY <1>1, <2>1, ResultsAre
<1>3. G \subseteq TrueHits(fs, opts)
  <2> SUFFICES ASSUME NEW h \in G PROVE h \in TrueHits(fs, opts)
    OBVIOUS
  <2>1. PICK p : Under(fs, opts.exclude, Root, p) /\ LeadsIn(fs, p) /\ IsHit(fs, p, opts, h)
    BY HitsFoundAre
  <2>2. p \in Reach(fs, opts.exclude)
    BY <2>1, UnderRoot
  <2>3. IsThere(fs, p, opts, h)
    BY <2>1, <2>2, FoundIsThere
  <2> QED BY <2>2, <2>3, TrueHitsAre
<1>4. ASSUME NEW h \in TrueHits(fs, opts), h \notin G, Last(Root) \notin opts.exclude
      PROVE  Unseen(fs, h)
  <2>1. PICK p \in Reach(fs, opts.exclude) : IsThere(fs, p, opts, h)
    BY TrueHitsAre
  <2>2. Under(fs, opts.exclude, Root, p) /\ LeadsIn(fs, p)
    BY <1>4, UnderRoot
  <2>3. ~IsHit(fs, p, opts, h)
    BY <1>4, <2>2, HitsFoundAre
  <2> QED BY <2>1, <2>3, FoundIsThere
<1> HIDE DEF res, G
<1>5. /\ res.matches \in Seq(HitRecords) /\ got \subseteq G
      /\ \A i, j \in 1..Len(res.matches) : res.matches[i] = res.matches[j] => i = j
      /\ res.truncated => Len(res.matches) = MaxResults /\ G # got
      /\ ~res.truncated => G = got
  BY <1>2 DEF Collected, Outcomes
<1>6. Cardinality(got) = Len(res.matches)
  BY <1>5, CountOnceEach
<1> HIDE DEF got
<1>7. got \subseteq TrueHits(fs, opts)
  BY <1>3, <1>5
<1>8. ~res.truncated => \A h \in TrueHits(fs, opts) \ got : Last(Root) \in opts.exclude \/ Unseen(fs, h)
  BY <1>4, <1>5
<1>9. res.truncated => Len(res.matches) = MaxResults /\ got # TrueHits(fs, opts)
  BY <1>3, <1>5
<1>10. SearchIsTrue(fs, opts, res)
  BY <1>6, <1>7, <1>8, <1>9 DEF SearchIsTrue, got
<1> QED BY <1>10 DEF res

-----------------------------------------------------------------------------
(* What is true of a job while it is done                                  *)

\* The job does not change, and what is out is what its operation returned.
Produced ==
  /\ job \in Jobs
  /\ \/ out = None
     \/ job.op = "read"   /\ out = ReadFile(job.fs, job.req)
     \/ job.op = "reads"  /\ out = ReadFiles(job.fs, job.reqs)
     \/ job.op = "search" /\ out = Search(job.fs, job.opts)
     \/ job.op = "diff"   /\ out = FromProposed(job.changes, job.old)
     \/ job.op = "wire"   /\ out = ToProto(job.env)
     \/ job.op = "serve"  /\ out = HandleEnvelope(job.env, job.handler)
     \/ job.op = "chat"   /\ out = ValidateSubmit(job.data)
     \/ job.op = "test"   /\ out = TestResult(Log(job.classes), ExitCode(job.classes, job.opts))
     \/ job.op = "status" /\ out = parsePorcelain(job.lines)

LEMMA Production == Spec => []Produced
<1>1. Init => Produced
  BY DEF Init, Produced
<1>2. Produced /\ [Next]_<<job, out>> => Produced'
  <2> SUFFICES ASSUME Produced, [Next]_<<job, out>> PROVE Produced'
    OBVIOUS
  <2>1. CASE UNCHANGED <<job, out>>
    BY <2>1 DEF Produced
  <2>2. CASE Read
    BY <2>2 DEF Read, Do, Produced
  <2>3. CASE ReadMany
    BY <2>3 DEF ReadMany, Do, Produced
  <2>4. CASE Find
    BY <2>4 DEF Find, Do, Produced
  <2>5. CASE Propose
    BY <2>5 DEF Propose, Do, Produced
  <2>6. CASE Carry
    BY <2>6 DEF Carry, Do, Produced
  <2>7. CASE Serve
    BY <2>7 DEF Serve, Do, Produced
  <2>8. CASE Submit
    BY <2>8 DEF Submit, Do, Produced
  <2>9. CASE Test
    BY <2>9 DEF Test, Do, Produced
  <2>10. CASE Status
    BY <2>10 DEF Status, Do, Produced
  <2> QED BY <2>1, <2>2, <2>3, <2>4, <2>5, <2>6, <2>7, <2>8, <2>9, <2>10 DEF Next
<1> QED BY <1>1, <1>2, PTL DEF Spec

-----------------------------------------------------------------------------
(* The promises                                                            *)

\* ToProto and FromProto (adapt.go) carry every valid message of any content
\* unchanged, but for timeouts that are no positive int32, and make no invalid one
\* valid.
THEOREM WireCarries == Spec => []WireIsFaithful
<1>1. Produced => WireIsFaithful
  BY WireLemma, JobsAssumption DEF Produced, WireIsFaithful, Done
<1> QED BY <1>1, Production, PTL

\* Whatever envelope reaches HandleEnvelope (agent.go) and whatever the handler of
\* the tool does (dispatcher.go), the response is one the server accepts and names
\* the call if the request did.  The server's caller (GrpcToolSession) is told the
\* status and the error code that the handler reported, but a PARTIAL as a SUCCESS,
\* and FAILED with a known code when no handler reported anything.
THEOREM EveryCallIsAnswered == Spec => []AnswersReachCalls
<1>1. Produced => AnswersReachCalls
  BY AnswersLemma, JobsAssumption DEF Produced, AnswersReachCalls, Done
<1> QED BY <1>1, Production, PTL

\* A chat that the agent's ValidateSubmit (validate.go) accepts is turned down by
\* the server (IdeContextGuard, ChatIntake) only if its message is made of control
\* characters or it is about a work item that there is not, however deep the two
\* guards walk; and when the server asks for a file, every answer of one line is
\* enough, whatever else the chat holds.
THEOREM ChatsPassBoth == Spec => []AcceptedIsAccepted
<1>1. Produced => AcceptedIsAccepted
  BY GuardsLemma, JobsAssumption DEF Produced, AcceptedIsAccepted, Done
<1> QED BY <1>1, Production, PTL

\* No chat with a key for source code, at any depth, passes ValidateSubmit.
THEOREM NoSourceInChats == Spec => [](Done("chat") /\ out => ~HidesKey(job.data))
<1>1. Produced => (Done("chat") /\ out => ~HidesKey(job.data))
  BY GuardsLemma, JobsAssumption DEF Produced, Done
<1> QED BY <1>1, Production, PTL

\* What test.run and git.status report (maven.go, git.go) is true, of any number
\* of classes and of lines: a failed test is reported as one, the counts add up,
\* and every path is in the lists its two columns call for, once.
THEOREM ReportsAreTrue == Spec => []ResultsAreReported
<1>1. Produced => ResultsAreReported
  BY ReportLemma, StatusLemma, JobsAssumption DEF Produced, ResultsAreReported, Done
<1> QED BY <1>1, Production, PTL

\* What workspace.read_file and read_files (path.go, read.go, read_files.go) answer
\* is what the file system has, for every file system and request: whatever the
\* links on the way, content is only read from a file that lies in the workspace,
\* and each refusal gives a reason that holds.
THEOREM ReadsAreReal == Spec => []ReadsReality
<1>1. Produced => ReadsReality
  BY ReadLemma, ReadsLemma, JobsAssumption DEF Produced, ReadsReality, Done
<1> QED BY <1>1, Production, PTL

\* What workspace.search (search.go) reports is there, each hit once; it has all there
\* is when it does not say that it stopped, but for what the limits of a file hide
\* (Unseen) and a workspace whose own directory has an excluded name.  For every tree,
\* however deep, and for every set of options.
THEOREM SearchesFind == Spec => []FindsWhatIsThere
<1>1. Produced => FindsWhatIsThere
  BY SearchLemma, JobsAssumption DEF Produced, FindsWhatIsThere, Done
<1> QED BY <1>1, Production, PTL

\* The diff that the user approves by its hash (lcsOps, UnifiedFile, FromProposed):
\* it tells apart any two change sets that differ in a line of a file, shows no
\* line as changed that could have been kept, and the Hub's diffHasContentChange
\* sees every change but those of ++ and -- lines.
THEOREM HashesDecide == Spec => []HashDecides
<1>1. Produced => HashDecides
  BY DecidesLemma, UnchangedLemma, JobsAssumption DEF Produced, HashDecides, Done
<1> QED BY <1>1, Production, PTL

\* One hash, one change: change sets with the same diff leave the lines of a file
\* as they are, both, or find the same lines in it and make the same of them.  So
\* the hash of an approval cannot be that of a proposal which writes other lines.
THEOREM OneHashOneChange ==
  ASSUME NEW changes, NEW old, IsChangeSet(changes, old),
         NEW others, NEW before, IsChangeSet(others, before),
         FromProposed(changes, old) = FromProposed(others, before),
         NEW p \in DOMAIN old, p \in DOMAIN before
  PROVE  \/ /\ After(changes, old)[p] = old[p]
            /\ After(others, before)[p] = before[p]
         \/ /\ old[p].lines = before[p].lines
            /\ After(changes, old)[p].lines = After(others, before)[p].lines
<1> DEFINE diff == FromProposed(changes, old)
           new == After(changes, old)
           made == After(others, before)
<1>1. DiffAt(diff, p, old[p], new[p]) /\ DiffAt(diff, p, before[p], made[p])
  BY ProposedIs
<1> HIDE DEF diff, new, made
<1>2. CASE HereIn(diff, p) = {}
  BY <1>1, <1>2 DEF DiffAt, new, made
<1>3. CASE HereIn(diff, p) # {}
  <2>1. PICK x \in DOMAIN diff : HereIn(diff, p) = {x} /\ Between(diff[x], p, old[p].lines, new[p].lines)
    BY <1>1, <1>3 DEF DiffAt
  <2>2. PICK y \in DOMAIN diff : HereIn(diff, p) = {y} /\ Between(diff[y], p, before[p].lines, made[p].lines)
    BY <1>1, <1>3 DEF DiffAt
  <2>3. x = y
    BY <2>1, <2>2
  <2> QED BY <2>1, <2>2, <2>3 DEF Between, IsDiffOf, new, made
<1> QED BY <1>2, <1>3

=============================================================================
