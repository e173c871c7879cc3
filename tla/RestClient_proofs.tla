--------------------------- MODULE RestClient_proofs ---------------------------
(***************************************************************************)
(* RestClient, for any callers, functions, parameters and replies, and for *)
(* any bounds: what success, each error, a signature and a stamp mean.     *)
(***************************************************************************)
EXTENDS RestClient, TLAPS

(***************************************************************************)
(* The invariant.  A handle's client: the checker is that of the builder   *)
(* that made it, and the key is that of the kind of credentials it uses.   *)
(***************************************************************************)
Clients ==
    [check : {"checkResponseBody", "checkV3ResponseBody", "checkV5ResponseBody"},
     key : {"", "hmacKey", "rsaKey"}, secret : {"", "hmacKey"},
     privateKey : {"", "rsaKey"}, useRSA : BOOLEAN, url : Urls \cup {"good"}, delta : Int]

KeyFits(cl) ==
    IF cl.useRSA THEN cl.key = "rsaKey" /\ cl.privateKey = "rsaKey"
    ELSE cl.key \in {"", "hmacKey"}

ClientInv ==
    /\ client \in [Handles -> Clients \cup {NoClient}]
    /\ client["base"] # NoClient
    /\ \A h \in Handles : client[h] # NoClient =>
          client[h].check = CheckerOf(h) /\ KeyFits(client[h])

\* The clock: a handle that has the delta of the last synchronisation, while the
\* local clock was not set since, lags by what that reply took.
ClockInv ==
    /\ configs \in 0..MaxConfigs
    /\ now \in 0..MaxNow
    /\ skew \in Skews
    /\ steps \in 0..MaxSteps
    /\ synced \in [lag : 0..MaxNow, steps : 0..MaxSteps, handles : SUBSET Handles]
    /\ synced.steps <= steps
    /\ \A h \in synced.handles :
          client[h] # NoClient
          /\ (synced.steps = steps => skew - client[h].delta = -synced.lag)

\* A call of a service function: its function has a client.
IsJob(j) ==
    /\ j.fn \in Functions \cup {ServerTime}
    /\ j.param \in Params(j.fn, Exponents)
    /\ j.sync \in BOOLEAN
    /\ j = [fn |-> j.fn, param |-> j.param, sync |-> j.sync]
    /\ j.sync => j.fn = ServerTime
    /\ client[j.fn.handle] # NoClient

\* A request on its way: the checks let it through, the server can verify it but
\* for the two cases of SignatureVerifies, and its stamp is that of a handle in step.
Legacy(f) == f.via \in {"getPrivately", "postJSON", "postForm", "deletePrivately"}

IsRequest(r, f, p) ==
    /\ r.key \in {"", "hmacKey", "rsaKey"}
    /\ Verifies(f, r) <=>
          ~ \/ Legacy(f) /\ r.key = "rsaKey"
            \/ f.via = "postJSON" /\ f.numbers /\ ~SameText(p.exp)
    /\ Private(f) /\ r.inSync =>
          r.timestamp \in (r.sentAt - r.lag)..r.sentAt

IsReply(a, f, p) ==
    \/ a \in Refusals \cup BareStatuses \cup LostResults
    \/ /\ a \in [status : {200}, code : {0}, shape : Shapes(f) \cup {"garbled"},
                time : 0..now, done : {TRUE}]
       /\ p.category \in Categories \cup {"none"}

\* What a reply comes to, by the checker of the handle.
Verdict(f, a) == Result([check |-> CheckerOf(f.handle)], f, a)

\* A call that the reply ended; one that ended before it.
Answered(c) ==
    /\ IsReply(reply[c], job[c].fn, job[c].param)
    /\ Accepts(job[c].fn, job[c].param)
    /\ outcome[c] \in
          {"transport",
           IF job[c].sync /\ Verdict(job[c].fn, reply[c]) = "none" /\ reply[c].shape # "whole"
           THEN "empty time" ELSE Verdict(job[c].fn, reply[c])}

Unanswered(c) ==
    /\ reply[c] = NoReply
    /\ \/ outcome[c] \in {"refused", "no auth", "bad url", "transport"}
       \/ outcome[c] = "none" /\ job[c].fn.via = "postForm"

Idle(c) ==
    pc[c] = "idle" /\ job[c] = NoJob /\ request[c] = NoRequest /\ reply[c] = NoReply
    /\ outcome[c] = "none"

InFlight(c) ==
    /\ pc[c] = "flight" /\ IsJob(job[c]) /\ reply[c] = NoReply /\ outcome[c] = "none"
    /\ Accepts(job[c].fn, job[c].param)
    /\ IsRequest(request[c], job[c].fn, job[c].param)

Arrived(c) ==
    /\ pc[c] = "answered" /\ IsJob(job[c]) /\ request[c] = NoRequest /\ outcome[c] = "none"
    /\ Accepts(job[c].fn, job[c].param)
    /\ IsReply(reply[c], job[c].fn, job[c].param)

Over(c) ==
    /\ pc[c] = "done" /\ IsJob(job[c]) /\ request[c] = NoRequest
    /\ Answered(c) \/ Unanswered(c)

CallInv(c) == Idle(c) \/ InFlight(c) \/ Arrived(c) \/ Over(c)

Functional ==
    /\ pc \in [Callers -> {"idle", "flight", "answered", "done"}]
    /\ DOMAIN job = Callers /\ DOMAIN request = Callers /\ DOMAIN reply = Callers
    /\ outcome \in [Callers -> Outcomes]

IInv == ClientInv /\ ClockInv /\ Functional /\ \A c \in Callers : CallInv(c)

------------------------------------------------------------------------------
(* The operators: texts, signatures, obstacles, verdicts *)

AllFunctions == Functions \cup {ServerTime}

LEMMA TextsAgree ==
    ASSUME NEW e \in Int
    PROVE  JsonText(e) = VerbText(e) <=> SameText(e)
BY SMT DEF JsonText, VerbText, SameText

LEMMA ParamType ==
    ASSUME NEW f \in AllFunctions, NEW p \in Params(f, Exponents)
    PROVE  p.exp \in Int /\ p.category \in f.asks
<1>1. p.category \in f.asks /\ p.exp \in IF f.numbers THEN Exponents ELSE {0}
  BY DEF Params
<1>2. CASE f.numbers
  BY <1>1, <1>2, NumberAssumption
<1>3. CASE ~f.numbers
  BY <1>1, <1>3
<1> QED BY <1>2, <1>3

LEMMA FunctionKinds ==
    ASSUME NEW f \in AllFunctions
    PROVE  /\ f.via \in Helpers
           /\ f.handle \in Handles
           /\ f.decoder \in Decoders
           /\ f.numbers \in BOOLEAN
           /\ f # NoFunction
BY FunctionAssumption DEF AllFunctions, NoFunction, Helpers

\* Credentials that are complete have the key of their kind, and the key signs.
LEMMA KeySigns ==
    ASSUME NEW cl \in Clients, KeyFits(cl), HasAuth(cl)
    PROVE  \/ /\ cl.useRSA /\ cl.key = "rsaKey" /\ cl.privateKey = "rsaKey"
              /\ cl.secret # "rsaKey"
           \/ ~cl.useRSA /\ cl.key = "hmacKey" /\ cl.secret = "hmacKey"
BY DEF Clients, KeyFits, HasAuth

\* The server can verify what a client with complete credentials signs, but for
\* the two cases of SignatureVerifies.
LEMMA SignsVerifiably ==
    ASSUME NEW cl \in Clients, KeyFits(cl), NEW f \in AllFunctions,
           NEW p \in Params(f, Exponents), Private(f) => HasAuth(cl),
           NEW r, r.key = cl.key, r.signature = Signature(cl, f, p),
           r.sent = SentText(f, p)
    PROVE  Verifies(f, r) <=>
              ~ \/ Legacy(f) /\ r.key = "rsaKey"
                \/ f.via = "postJSON" /\ f.numbers /\ ~SameText(p.exp)
<1>1. CASE ~Private(f)
  BY <1>1 DEF Private, Verifies, Legacy
<1>2. CASE Private(f) /\ f.via \in {"getV5Privately", "postV5JSON"}
  <2>1. r.signature = V5Signature(cl, f, p)
    BY <1>2 DEF Signature, Private
  <2>2. r.signature.by = r.key /\ r.signature.over = r.sent
    BY <1>2, <2>1, KeySigns DEF V5Signature
  <2> QED BY <1>2, <2>2 DEF Verifies, Legacy
<1>3. CASE Private(f) /\ f.via \in {"getPrivately", "postJSON", "postForm", "deletePrivately"}
  <2>1. r.signature = LegacySignature(cl, f, p)
    BY <1>3 DEF Signature, Private
  <2>2. r.signature.by = r.key <=> r.key # "rsaKey"
    BY <1>3, <2>1, KeySigns DEF LegacySignature
  <2>3. CASE f.via = "postJSON" /\ f.numbers
    <3>1. r.signature.over = VerbText(p.exp) /\ r.sent = JsonText(p.exp)
      BY <2>1, <2>3 DEF LegacySignature, SentText
    <3>2. r.signature.over = r.sent <=> SameText(p.exp)
      BY <3>1, TextsAgree, ParamType
    <3> QED BY <1>3, <2>2, <2>3, <3>2 DEF Verifies, Legacy
  <2>4. CASE ~(f.via = "postJSON" /\ f.numbers)
    <3>1. r.signature.over = r.sent
      BY <2>1, <2>4 DEF LegacySignature
    <3> QED BY <1>3, <2>2, <2>4, <3>1 DEF Verifies, Legacy
  <2> QED BY <2>3, <2>4
<1> QED BY <1>1, <1>2, <1>3, FunctionKinds DEF Private, Helpers

LEMMA ObstacleKinds ==
    ASSUME NEW cl, NEW f, NEW p
    PROVE  /\ Obstacle(cl, f, p) \in {"refused", "no auth", "bad url", "none", "clear"}
           /\ Obstacle(cl, f, p) = "none" => f.via = "postForm"
           /\ Obstacle(cl, f, p) = "clear" => Accepts(f, p) /\ (Private(f) => HasAuth(cl))
<1>1. CASE ~Accepts(f, p)
  BY <1>1 DEF Obstacle
<1>2. CASE Accepts(f, p) /\ Private(f) /\ ~HasAuth(cl)
  BY <1>2 DEF Obstacle
<1>3. CASE Accepts(f, p) /\ (Private(f) => HasAuth(cl)) /\ cl.url = "malformed"
  BY <1>3 DEF Obstacle
<1>4. CASE Accepts(f, p) /\ (Private(f) => HasAuth(cl)) /\ cl.url # "malformed"
  BY <1>4 DEF Obstacle
<1> QED BY <1>1, <1>2, <1>3, <1>4

------------------------------------------------------------------------------
(* What a reply comes to *)

CodeCheck(f, code) == Check([check |-> CheckerOf(f.handle)], f, code)

LEMMA RefusalCode ==
    ASSUME NEW code \in ErrorCodes
    PROVE  code \in Int /\ code # 0
BY RefusalAssumption

LEMMA ReplyKinds ==
    ASSUME NEW f, NEW p, NEW a, IsReply(a, f, p)
    PROVE  /\ a # NoReply
           /\ a.code \in Int
           /\ a.status # 200 =>
                 a.shape = "none" /\ (a.done => a.status \notin Rejections \cup {200})
           /\ a.status = 200 /\ a.code # 0 => a.shape \in {"none", "garbled"} /\ ~a.done
           /\ a.status = 200 /\ a.code = 0 =>
                 /\ a.shape \in Shapes(f) \cup {"garbled"} /\ a.time \in 0..now /\ a.done
                 /\ p.category \in Categories \cup {"none"}
<1>1. CASE a \in Refusals
  <2>1. a.status = 200 /\ a.code \in ErrorCodes /\ a.shape \in {"none", "garbled"} /\ ~a.done
    BY <1>1 DEF Refusals
  <2>2. a # NoReply
    BY <2>1 DEF NoReply
  <2>3. a.code \in Int /\ a.code # 0
    BY <2>1, RefusalCode
  <2> QED BY <2>1, <2>2, <2>3
<1>2. CASE a \in BareStatuses
  <2>1. a.status # 200 /\ a.code = 0 /\ a.shape = "none" /\ ~a.done
    BY <1>2 DEF BareStatuses
  <2>2. a # NoReply
    BY <1>2 DEF BareStatuses, NoReply
  <2> QED BY <2>1, <2>2
<1>3. CASE a \in LostResults
  <2>1. a.status \notin Rejections \cup {200} /\ a.code = 0 /\ a.shape = "none" /\ a.done
    BY <1>3 DEF LostResults
  <2>2. a # NoReply
    BY <2>1 DEF NoReply
  <2> QED BY <2>1, <2>2
<1>4. CASE /\ a \in [status : {200}, code : {0}, shape : Shapes(f) \cup {"garbled"},
                     time : 0..now, done : {TRUE}]
           /\ p.category \in Categories \cup {"none"}
  <2>1. /\ a.status = 200 /\ a.code = 0 /\ a.done
        /\ a.shape \in Shapes(f) \cup {"garbled"} /\ a.time \in 0..now
    BY <1>4
  <2>2. a # NoReply
    BY <2>1 DEF NoReply
  <2> QED BY <1>4, <2>1, <2>2
<1> QED BY <1>1, <1>2, <1>3, <1>4 DEF IsReply

\* A shape that the decoder of f may hand on as data.
Passes(f, shape) ==
    \/ shape \in {"whole", "null"}
    \/ shape = "element_null" /\ f.decoder \in {"typed", "unchecked"}
    \/ shape = "long" /\ f.decoder = "unchecked"

LEMMA ShapesDecode ==
    ASSUME NEW f, f.decoder \in Decoders, NEW shape \in Shapes(f)
    PROVE  /\ shape \notin {"none", "garbled"}
           /\ DecodeResult(f, shape) \in {"ok", "error", "panic"}
           /\ DecodeResult(f, shape) = "ok" => Passes(f, shape)
           /\ shape \in {"whole", "null"} => DecodeResult(f, shape) = "ok"
           /\ f.decoder \notin {"asserted", "unchecked"} => DecodeResult(f, shape) # "panic"
<1> USE DEF DecodeResult, Shapes, ResultShapes, RowShapes, Passes
<1>1. CASE f.decoder = "struct"
  BY <1>1 DEF DecodeStruct
<1>2. CASE f.decoder = "category"
  BY <1>2 DEF DecodeByCategory, DecodeStruct
<1>3. CASE f.decoder = "asserted"
  BY <1>3 DEF DecodeAsserted
<1>4. CASE f.decoder = "typed"
  BY <1>4 DEF DecodeTyped
<1>5. CASE f.decoder = "unchecked"
  BY <1>5 DEF DecodeUnchecked
<1> QED BY <1>1, <1>2, <1>3, <1>4, <1>5 DEF Decoders

\* The checker of a handle reads the code of the replies that its functions get,
\* but for the server's time.
LEMMA CodesChecked ==
    ASSUME NEW f \in AllFunctions, NEW code \in Int
    PROVE  /\ CodeCheck(f, code) \in {"none", "api", "rate limit"}
           /\ code = 0 => CodeCheck(f, code) = "none"
           /\ f # ServerTime =>
                 /\ CodeCheck(f, code) = "none" => code = 0
                 /\ CodeCheck(f, code) = "rate limit" <=> code \in Limits(f.handle)
<1>1. CASE f.handle = "base"
  BY <1>1 DEF CodeCheck, Check, CheckerOf, Envelope, Limits, CheckResponseBody
<1>2. CASE f.handle = "v5"
  BY <1>2 DEF CodeCheck, Check, CheckerOf, Envelope, Limits, CheckV5ResponseBody
<1>3. CASE f.handle = "derivative"
  BY <1>3 DEF CodeCheck, Check, CheckerOf, Envelope, Limits, CheckV3ResponseBody
<1> QED BY <1>1, <1>2, <1>3, FunctionKinds DEF Handles

LEMMA SuccessPasses ==
    ASSUME NEW f \in AllFunctions
    PROVE  CodeCheck(f, 0) = "none"
<1>1. 0 \in Int
  OBVIOUS
<1> QED BY <1>1, CodesChecked, Zenon

LEMMA VerdictIs ==
    ASSUME NEW f, NEW a
    PROVE  /\ a.status # 200 => Verdict(f, a) = StatusError(a.status)
           /\ a.status = 200 /\ a.shape = "garbled" => Verdict(f, a) = "error"
           /\ a.status = 200 /\ a.shape # "garbled" /\ CodeCheck(f, a.code) # "none" =>
                 Verdict(f, a) = CodeCheck(f, a.code)
           /\ a.status = 200 /\ a.shape # "garbled" /\ CodeCheck(f, a.code) = "none" =>
                 Verdict(f, a) = Decode(f, a)
BY DEF Verdict, Result, CodeCheck

LEMMA StatusErrors ==
    ASSUME NEW status
    PROVE  /\ StatusError(status) \in
                 {"bad request", "invalid request", "forbidden", "path not found",
                  "unexpected status"}
           /\ status \notin Rejections => StatusError(status) = "unexpected status"
BY DEF StatusError, Rejections

Verdicts ==
    {"none", "bad request", "invalid request", "forbidden", "path not found",
     "unexpected status", "api", "rate limit", "error", "panic"}

\* The verdict is a rate limit when the code is one to the handle.
Graded(f, a) == Verdict(f, a) = "rate limit" <=> a.code \in Limits(f.handle)

\* A reply that carries no result is an error, but for the server's time; its
\* kind is told by the handle.
LEMMA RefusalVerdict ==
    ASSUME NEW f \in AllFunctions, NEW p, NEW a, IsReply(a, f, p),
           ~(a.status = 200 /\ a.code = 0)
    PROVE  /\ Verdict(f, a) \in Verdicts
           /\ a.shape \in {"none", "garbled"}
           /\ Verdict(f, a) = "none" => f = ServerTime
           /\ a.status = 200 /\ a.shape # "garbled" /\ f # ServerTime => Graded(f, a)
<1>1. CASE a.status # 200
  BY <1>1, VerdictIs, StatusErrors, ReplyKinds DEF Verdicts
<1>2. CASE a.status = 200 /\ a.shape = "garbled"
  <2>1. Verdict(f, a) = "error"
    BY <1>2, VerdictIs
  <2>2. "error" \in Verdicts /\ "error" # "none"
    BY DEF Verdicts
  <2> QED BY <1>2, <2>1, <2>2
<1>3. CASE a.status = 200 /\ a.shape # "garbled"
  <2>1. a.code # 0 /\ a.shape = "none" /\ a.code \in Int
    BY <1>3, ReplyKinds
  <2>2. Decode(f, a) = "none"
    BY <2>1 DEF Decode
  <2>3. CASE CodeCheck(f, a.code) = "none"
    <3>1. f = ServerTime
      BY <2>1, <2>3, CodesChecked
    <3>2. Verdict(f, a) = "none"
      BY <1>3, <2>2, <2>3, VerdictIs
    <3>3. "none" \in Verdicts
      BY DEF Verdicts
    <3> QED BY <2>1, <3>1, <3>2, <3>3
  <2>4. CASE CodeCheck(f, a.code) # "none"
    <3>1. Verdict(f, a) = CodeCheck(f, a.code)
      BY <1>3, <2>4, VerdictIs
    <3>2. CodeCheck(f, a.code) \in Verdicts
      BY <2>1, CodesChecked DEF Verdicts
    <3>3. f # ServerTime =>
            (CodeCheck(f, a.code) = "rate limit" <=> a.code \in Limits(f.handle))
      BY <2>1, CodesChecked
    <3>4. f # ServerTime => Graded(f, a)
      BY <3>1, <3>3 DEF Graded
    <3> QED BY <2>1, <2>4, <3>1, <3>2, <3>4
  <2> QED BY <2>3, <2>4
<1> QED BY <1>1, <1>2, <1>3

\* The reply with a result is what the result decodes to.
LEMMA ResultVerdict ==
    ASSUME NEW f \in AllFunctions, NEW p, NEW a, IsReply(a, f, p),
           a.status = 200, a.code = 0
    PROVE  /\ Verdict(f, a) \in {"none", "error", "panic"}
           /\ a.shape # "none"
           /\ Verdict(f, a) = "none" => Passes(f, a.shape)
           /\ Verdict(f, a) = "error" => a.shape \notin {"whole", "null"}
           /\ f.decoder \notin {"asserted", "unchecked"} => Verdict(f, a) # "panic"
           /\ p.category \in Categories \cup {"none"}
           /\ a.time \in 0..now
           /\ 0 \notin Limits(f.handle)
<1>1. /\ a.shape \in Shapes(f) \cup {"garbled"} /\ a.time \in 0..now
      /\ p.category \in Categories \cup {"none"}
  BY ReplyKinds
<1>2. f.decoder \in Decoders /\ f.handle \in Handles
  BY FunctionKinds
<1>3. 0 \notin Limits(f.handle)
  BY <1>2 DEF Limits, Handles
<1>4. CASE a.shape = "garbled"
  BY <1>1, <1>3, <1>4, VerdictIs
<1>5. CASE a.shape # "garbled"
  <2>1. CodeCheck(f, 0) = "none"
    BY SuccessPasses
  <2>2. CodeCheck(f, a.code) = "none"
    BY <2>1
  <2>3. Verdict(f, a) = Decode(f, a)
    BY <1>5, <2>2, VerdictIs
  <2>4. a.shape # "none" /\ DecodeResult(f, a.shape) \in {"ok", "error", "panic"}
    BY <1>1, <1>2, <1>5, ShapesDecode
  <2>5. Decode(f, a) =
          IF DecodeResult(f, a.shape) = "ok" THEN "none" ELSE DecodeResult(f, a.shape)
    BY <2>4 DEF Decode
  <2> QED BY <1>1, <1>2, <1>3, <1>5, <2>3, <2>4, <2>5, ShapesDecode
<1> QED BY <1>4, <1>5

LEMMA VerdictKinds ==
    ASSUME NEW f \in AllFunctions, NEW p, NEW a, IsReply(a, f, p)
    PROVE  Verdict(f, a) \in Verdicts
<1>1. CASE a.status = 200 /\ a.code = 0
  <2>1. Verdict(f, a) \in {"none", "error", "panic"}
    BY <1>1, ResultVerdict
  <2> QED BY <2>1 DEF Verdicts
<1>2. CASE ~(a.status = 200 /\ a.code = 0)
  BY <1>2, RefusalVerdict
<1> QED BY <1>1, <1>2

------------------------------------------------------------------------------
(* What one step leaves alone *)

LEMMA ClientKinds ==
    ASSUME ClientInv, NEW h \in Handles, client[h] # NoClient
    PROVE  client[h] \in Clients /\ client[h].check = CheckerOf(h) /\ KeyFits(client[h])
BY DEF ClientInv

LEMMA NoClientIsNone ==
    ASSUME NEW cl \in Clients
    PROVE  cl # NoClient
<1>1. cl.check # "none"
  BY DEF Clients
<1> QED BY <1>1 DEF NoClient

\* A reply stays a reply as time goes on.
LEMMA ReplyKept ==
    ASSUME NEW a, NEW f, NEW p, IsReply(a, f, p), now \in Int, now' \in Int, now <= now'
    PROVE  IsReply(a, f, p)'
<1>1. CASE a \in Refusals \cup BareStatuses \cup LostResults
  BY <1>1 DEF IsReply
<1>2. CASE /\ a \in [status : {200}, code : {0}, shape : Shapes(f) \cup {"garbled"},
                     time : 0..now, done : {TRUE}]
           /\ p.category \in Categories \cup {"none"}
  <2>1. 0..now \subseteq 0..now'
    OBVIOUS
  <2>2. a \in [status : {200}, code : {0}, shape : Shapes(f) \cup {"garbled"},
               time : 0..now', done : {TRUE}]
    BY <1>2, <2>1
  <2> QED BY <1>2, <2>2 DEF IsReply
<1> QED BY <1>1, <1>2 DEF IsReply

\* A call keeps its invariant through a step of another.
LEMMA CallFrame ==
    ASSUME NEW c \in Callers, CallInv(c), job[c].fn.handle \in Handles,
           pc'[c] = pc[c], job'[c] = job[c], request'[c] = request[c],
           reply'[c] = reply[c], outcome'[c] = outcome[c],
           now \in Int, now' \in Int, now <= now',
           \A h \in Handles : client[h] # NoClient => client'[h] # NoClient
    PROVE  CallInv(c)'
<1>1. IsJob(job[c]) => IsJob(job[c])'
  BY DEF IsJob
<1>2. CASE Idle(c)
  BY <1>2 DEF Idle, CallInv
<1>3. CASE InFlight(c)
  BY <1>1, <1>3 DEF InFlight, CallInv
<1>4. CASE Arrived(c)
  <2>1. IsReply(reply[c], job[c].fn, job[c].param)'
    BY <1>4, ReplyKept DEF Arrived
  <2> QED BY <1>1, <1>4, <2>1 DEF Arrived, CallInv
<1>5. CASE Over(c)
  <2>1. Answered(c) => Answered(c)'
    BY ReplyKept DEF Answered
  <2>2. Unanswered(c) => Unanswered(c)'
    BY DEF Unanswered
  <2> QED BY <1>1, <1>5, <2>1, <2>2 DEF Over, CallInv
<1> QED BY <1>2, <1>3, <1>4, <1>5 DEF CallInv

LEMMA JobHandle ==
    ASSUME NEW c \in Callers, CallInv(c)
    PROVE  job[c].fn.handle \in Handles
<1>1. CASE Idle(c)
  BY <1>1 DEF Idle, NoJob, NoFunction, Handles
<1>2. CASE IsJob(job[c])
  BY <1>2, FunctionKinds DEF IsJob, AllFunctions
<1> QED BY <1>1, <1>2 DEF CallInv, InFlight, Arrived, Over

\* A step that concerns no call keeps the invariants of all.
LEMMA CallsKept ==
    ASSUME IInv, UNCHANGED callVars, now' \in Int, now <= now',
           \A h \in Handles : client[h] # NoClient => client'[h] # NoClient
    PROVE  Functional' /\ \A c \in Callers : CallInv(c)'
<1>1. Functional'
  BY DEF IInv, Functional, callVars
<1>2. ASSUME NEW c \in Callers PROVE CallInv(c)'
  BY CallFrame, JobHandle DEF IInv, callVars, ClockInv
<1> QED BY <1>1, <1>2

------------------------------------------------------------------------------
(* The builders and the clocks *)

LEMMA ConfigureStep ==
    ASSUME IInv, Configure, synced' = synced,
           NEW cl \in Clients, cl.check = "checkResponseBody", KeyFits(cl),
           cl.delta = client["base"].delta, client' = [client EXCEPT !["base"] = cl]
    PROVE  IInv'
<1> USE DEF Handles
<1>1. ClientInv'
  BY NoClientIsNone DEF IInv, ClientInv, CheckerOf
<1>2. ClockInv'
  <2>1. ASSUME NEW h \in synced.handles
        PROVE  client'[h] # NoClient /\ client'[h].delta = client[h].delta
    BY NoClientIsNone DEF IInv, ClientInv, ClockInv
  <2>2. configs' \in 0..MaxConfigs
    BY BoundAssumption DEF IInv, ClockInv, Configure
  <2> QED BY <2>1, <2>2 DEF IInv, ClockInv, Configure, clockVars
<1>3. Functional' /\ \A c \in Callers : CallInv(c)'
  <2>1. \A h \in Handles : client[h] # NoClient => client'[h] # NoClient
    BY NoClientIsNone DEF IInv, ClientInv
  <2>2. now' = now /\ now \in Int /\ now <= now
    BY DEF IInv, ClockInv, Configure, clockVars
  <2>3. UNCHANGED callVars
    BY DEF Configure
  <2> QED BY <2>1, <2>2, <2>3, CallsKept
<1> QED BY <1>1, <1>2, <1>3 DEF IInv

LEMMA BaseClient ==
    ASSUME IInv
    PROVE  /\ client["base"] \in Clients
           /\ client["base"].check = "checkResponseBody"
           /\ KeyFits(client["base"])
BY DEF IInv, ClientInv, CheckerOf, Handles

LEMMA WithAuthStep ==
    ASSUME IInv, NEW secret \in Secrets, WithAuth(secret)
    PROVE  IInv'
<1> DEFINE cl == [client["base"] EXCEPT !.key = "hmacKey", !.secret = secret, !.useRSA = FALSE]
<1>1. client' = [client EXCEPT !["base"] = cl]
  BY BaseClient DEF WithAuth, IInv, ClientInv, Clients
<1>2. cl \in Clients /\ cl.check = "checkResponseBody" /\ cl.delta = client["base"].delta
  BY BaseClient, OwnerAssumption DEF Clients
<1>3. KeyFits(cl)
  BY BaseClient DEF Clients, KeyFits
<1> HIDE DEF cl
<1> QED BY <1>1, <1>2, <1>3, ConfigureStep DEF WithAuth

LEMMA WithAuthRSAStep ==
    ASSUME IInv, WithAuthRSA
    PROVE  IInv'
<1> DEFINE cl == [client["base"] EXCEPT !.key = "rsaKey", !.useRSA = TRUE, !.privateKey = "rsaKey"]
<1>1. client' = [client EXCEPT !["base"] = cl]
  BY BaseClient DEF WithAuthRSA, IInv, ClientInv, Clients
<1>2. cl \in Clients /\ cl.check = "checkResponseBody" /\ cl.delta = client["base"].delta
  BY BaseClient DEF Clients
<1>3. KeyFits(cl)
  BY BaseClient DEF Clients, KeyFits
<1> HIDE DEF cl
<1> QED BY <1>1, <1>2, <1>3, ConfigureStep DEF WithAuthRSA

LEMMA WithBaseURLStep ==
    ASSUME IInv, NEW url \in Urls, WithBaseURL(url)
    PROVE  IInv'
<1> DEFINE cl == [client["base"] EXCEPT !.url = url]
<1>1. client' = [client EXCEPT !["base"] = cl]
  BY BaseClient DEF WithBaseURL, IInv, ClientInv, Clients
<1>2. cl \in Clients /\ cl.check = "checkResponseBody" /\ cl.delta = client["base"].delta
  BY BaseClient DEF Clients
<1>3. KeyFits(cl)
  BY BaseClient DEF Clients, KeyFits
<1> HIDE DEF cl
<1> QED BY <1>1, <1>2, <1>3, ConfigureStep DEF WithBaseURL

\* A handle that is taken from the base keeps its credentials and its delta, and
\* has the checker of its kind.
LEMMA HandleStep ==
    ASSUME IInv, Configure, NEW handle \in {"v5", "derivative"},
           client' = WithCheckResponseBody(handle, CheckerOf(handle)), Inherit(handle)
    PROVE  IInv'
<1> USE DEF Handles
<1> DEFINE cl == [client["base"] EXCEPT !.check = CheckerOf(handle)]
<1>1. client' = [client EXCEPT ![handle] = cl]
  BY DEF WithCheckResponseBody
<1>2. cl \in Clients /\ cl.check = CheckerOf(handle) /\ cl.delta = client["base"].delta
  BY BaseClient DEF Clients, CheckerOf
<1>3. KeyFits(cl)
  BY BaseClient DEF Clients, KeyFits
<1> HIDE DEF cl
<1>4. cl # NoClient
  BY <1>2, NoClientIsNone
<1>5. ClientInv'
  BY <1>1, <1>2, <1>3, <1>4 DEF IInv, ClientInv
<1>6. ClockInv'
  <2>1. synced' = [synced EXCEPT !.handles =
                      IF "base" \in @ THEN @ \cup {handle} ELSE @ \ {handle}]
    BY DEF Inherit
  <2>2. synced \in [lag : 0..MaxNow, steps : 0..MaxSteps, handles : SUBSET Handles]
    BY DEF IInv, ClockInv
  <2>3. synced' \in [lag : 0..MaxNow, steps : 0..MaxSteps, handles : SUBSET Handles]
        /\ synced'.lag = synced.lag /\ synced'.steps = synced.steps
    BY <2>1, <2>2
  <2>4. \/ "base" \in synced.handles /\ synced'.handles = synced.handles \cup {handle}
        \/ synced'.handles = synced.handles \ {handle}
    BY <2>1, <2>2
  <2>5. ASSUME NEW h \in synced'.handles
        PROVE  client'[h] # NoClient
               /\ (synced.steps = steps => skew - client'[h].delta = -synced.lag)
    <3>1. CASE h = handle
      <4>1. "base" \in synced.handles
        BY <2>4, <3>1
      <4>2. client'[h] = cl
        BY <1>1, <3>1 DEF IInv, ClientInv
      <4> QED BY <1>2, <1>4, <4>1, <4>2 DEF IInv, ClockInv
    <3>2. CASE h # handle
      <4>1. h \in synced.handles /\ client'[h] = client[h]
        BY <1>1, <2>3, <2>4, <3>2 DEF IInv, ClientInv
      <4> QED BY <4>1 DEF IInv, ClockInv
    <3> QED BY <3>1, <3>2
  <2>6. configs' \in 0..MaxConfigs
    BY BoundAssumption DEF IInv, ClockInv, Configure
  <2> QED BY <2>3, <2>5, <2>6 DEF IInv, ClockInv, Configure, clockVars
<1>7. Functional' /\ \A c \in Callers : CallInv(c)'
  <2>1. \A h \in Handles : client[h] # NoClient => client'[h] # NoClient
    BY <1>1, <1>4 DEF IInv, ClientInv
  <2>2. now' = now /\ now \in Int /\ now <= now
    BY DEF IInv, ClockInv, Configure, clockVars
  <2>3. UNCHANGED callVars
    BY DEF Configure
  <2> QED BY <2>1, <2>2, <2>3, CallsKept
<1> QED BY <1>5, <1>6, <1>7 DEF IInv

LEMMA TickStep ==
    ASSUME IInv, Tick
    PROVE  IInv'
<1>1. ClientInv'
  BY DEF IInv, ClientInv, Tick
<1>2. ClockInv'
  BY BoundAssumption DEF IInv, ClockInv, Tick
<1>3. Functional' /\ \A c \in Callers : CallInv(c)'
  <2>1. now' \in Int /\ now <= now'
    BY DEF IInv, ClockInv, Tick
  <2>2. UNCHANGED callVars /\ client' = client
    BY DEF Tick
  <2> QED BY <2>1, <2>2, CallsKept
<1> QED BY <1>1, <1>2, <1>3 DEF IInv

\* After the local clock was set, no handle is in step.
LEMMA ClockStepStep ==
    ASSUME IInv, ClockStep
    PROVE  IInv'
<1>1. ClientInv'
  BY DEF IInv, ClientInv, ClockStep
<1>2. ClockInv'
  <2>1. synced.steps # steps'
    BY DEF IInv, ClockInv, ClockStep
  <2>2. steps' \in 0..MaxSteps /\ synced.steps <= steps' /\ skew' \in Skews
    BY BoundAssumption DEF IInv, ClockInv, ClockStep
  <2> QED BY <2>1, <2>2 DEF IInv, ClockInv, ClockStep
<1>3. Functional' /\ \A c \in Callers : CallInv(c)'
  <2>1. now' = now /\ now \in Int /\ now <= now
    BY DEF IInv, ClockInv, ClockStep
  <2>2. UNCHANGED callVars /\ client' = client
    BY DEF ClockStep
  <2> QED BY <2>1, <2>2, CallsKept
<1> QED BY <1>1, <1>2, <1>3 DEF IInv

------------------------------------------------------------------------------
(* The steps of a call *)

\* A step of one caller changes nothing of another's call, and takes no client away.
CallerStep(c) ==
    /\ \A d \in Callers \ {c} :
          /\ pc'[d] = pc[d] /\ job'[d] = job[d] /\ request'[d] = request[d]
          /\ reply'[d] = reply[d] /\ outcome'[d] = outcome[d]
    /\ \A h \in Handles : client[h] # NoClient => client'[h] # NoClient
    /\ now' = now

LEMMA OthersKept ==
    ASSUME IInv, NEW c \in Callers, CallerStep(c), CallInv(c)'
    PROVE  \A d \in Callers : CallInv(d)'
<1>1. now \in Int /\ now' \in Int /\ now <= now'
  BY DEF IInv, ClockInv, CallerStep
<1>2. ASSUME NEW d \in Callers, d # c PROVE CallInv(d)'
  BY <1>1, <1>2, CallFrame, JobHandle DEF IInv, CallerStep
<1> QED BY <1>2

LEMMA BeginFacts ==
    ASSUME IInv, NEW c \in Callers, NEW f \in AllFunctions, NEW p \in Params(f, Exponents),
           NEW sync \in BOOLEAN, sync => f = ServerTime, pc[c] = "idle", Begin(c, f, p, sync)
    PROVE  /\ IsJob(job[c])'
           /\ job'[c].fn = f /\ job'[c].param = p /\ job'[c].sync = sync
           /\ request[c] = NoRequest /\ reply'[c] = NoReply /\ outcome[c] = "none"
           /\ ClientInv' /\ ClockInv'
           /\ DOMAIN job' = Callers /\ DOMAIN reply' = Callers
           /\ f.handle \in Handles
<1>1. job'[c] = [fn |-> f, param |-> p, sync |-> sync] /\ DOMAIN job' = Callers
  BY DEF Begin, IInv, Functional
<1>2. Idle(c)
  BY DEF IInv, CallInv, InFlight, Arrived, Over
<1>3. client'[f.handle] # NoClient
  BY DEF Begin
<1>4. IsJob(job[c])'
  BY <1>1, <1>3 DEF IsJob, AllFunctions
<1>5. ClientInv'
  BY DEF IInv, ClientInv, Begin
<1>6. ClockInv'
  BY DEF IInv, ClockInv, Begin, clockVars
<1> QED BY <1>1, <1>2, <1>4, <1>5, <1>6, FunctionKinds DEF Idle, Begin, IInv, Functional

LEMMA StopStep ==
    ASSUME IInv, NEW c \in Callers, NEW f \in AllFunctions, NEW p \in Params(f, Exponents),
           NEW sync \in BOOLEAN, sync => f = ServerTime, pc[c] = "idle", Stop(c, f, p, sync)
    PROVE  IInv'
<1> DEFINE why == Obstacle(client[f.handle], f, p)
<1>1. Begin(c, f, p, sync)
  BY DEF Stop
<1>2. why \in {"refused", "no auth", "bad url", "none"} /\ (why = "none" => f.via = "postForm")
  BY ObstacleKinds DEF Stop
<1>3. pc' = [pc EXCEPT ![c] = "done"] /\ outcome' = [outcome EXCEPT ![c] = why]
      /\ request' = request
  BY DEF Stop
<1> HIDE DEF why
<1>4. pc'[c] = "done" /\ outcome'[c] = why /\ request'[c] = NoRequest
  BY <1>1, <1>3, BeginFacts DEF IInv, Functional
<1>5. CallInv(c)'
  <2>1. IsJob(job[c])' /\ job'[c].fn = f /\ reply'[c] = NoReply
    BY <1>1, BeginFacts
  <2>2. Unanswered(c)'
    BY <1>2, <1>4, <2>1 DEF Unanswered
  <2> QED BY <1>4, <2>1, <2>2 DEF CallInv, Over
<1>6. Functional'
  BY <1>1, <1>2, <1>3, BeginFacts DEF IInv, Functional, Outcomes
<1>7. CallerStep(c)
  BY <1>1, <1>3 DEF CallerStep, Begin, IInv, Functional, clockVars
<1> QED BY <1>1, <1>5, <1>6, <1>7, OthersKept, BeginFacts DEF IInv

LEMMA SendStep ==
    ASSUME IInv, NEW c \in Callers, NEW f \in AllFunctions, NEW p \in Params(f, Exponents),
           NEW sync \in BOOLEAN, sync => f = ServerTime, pc[c] = "idle", Send(c, f, p, sync)
    PROVE  IInv'
<1> DEFINE cl == client[f.handle]
           r == [key |-> cl.key, signature |-> Signature(cl, f, p), sent |-> SentText(f, p),
                 timestamp |-> IF Private(f) THEN Timestamp(cl) ELSE 0,
                 sentAt |-> now, lag |-> synced.lag, inSync |-> InSync(f.handle)]
<1>1. Begin(c, f, p, sync)
  BY DEF Send
<1>2. Accepts(f, p) /\ (Private(f) => HasAuth(cl))
  BY ObstacleKinds DEF Send
<1>3. pc' = [pc EXCEPT ![c] = "flight"] /\ request' = [request EXCEPT ![c] = r]
      /\ outcome' = outcome
  BY DEF Send
<1>4. cl \in Clients /\ KeyFits(cl)
  BY <1>1, ClientKinds, FunctionKinds DEF Begin, IInv
<1>5. Verifies(f, r) <=>
          ~ \/ Legacy(f) /\ r.key = "rsaKey"
            \/ f.via = "postJSON" /\ f.numbers /\ ~SameText(p.exp)
  <2> HIDE DEF cl
  <2>1. r.key = cl.key /\ r.signature = Signature(cl, f, p) /\ r.sent = SentText(f, p)
    OBVIOUS
  <2> HIDE DEF r
  <2> QED BY <1>2, <1>4, <2>1, SignsVerifiably
<1>6. Private(f) /\ r.inSync => r.timestamp \in (r.sentAt - r.lag)..r.sentAt
  <2> SUFFICES ASSUME Private(f), InSync(f.handle)
               PROVE  now + skew - cl.delta \in (now - synced.lag)..now
    BY DEF Timestamp
  <2>1. skew - cl.delta = -synced.lag
    BY DEF InSync, IInv, ClockInv
  <2> HIDE DEF cl
  <2>2. cl.delta \in Int
    BY <1>4 DEF Clients
  <2>3. skew \in Int /\ now \in Int
    BY NumberAssumption, BoundAssumption DEF IInv, ClockInv
  <2>4. synced.lag \in Nat
    BY BoundAssumption DEF IInv, ClockInv
  <2> QED BY <2>1, <2>2, <2>3, <2>4
<1>7. IsRequest(r, f, p)
  BY <1>4, <1>5, <1>6 DEF IsRequest, Clients
<1>8. r # NoRequest
  BY <1>4 DEF Clients, NoRequest
<1> HIDE DEF r, cl
<1>9. pc'[c] = "flight" /\ request'[c] = r /\ outcome'[c] = "none"
  BY <1>1, <1>3, BeginFacts DEF IInv, Functional
<1>10. CallInv(c)'
  BY <1>1, <1>2, <1>7, <1>9, BeginFacts DEF CallInv, InFlight
<1>11. Functional'
  BY <1>1, <1>3, BeginFacts DEF IInv, Functional
<1>12. CallerStep(c)
  BY <1>1, <1>3 DEF CallerStep, Begin, IInv, Functional, clockVars
<1> QED BY <1>1, <1>10, <1>11, <1>12, OthersKept, BeginFacts DEF IInv

LEMMA ServeStep ==
    ASSUME IInv, NEW c \in Callers, Serve(c)
    PROVE  IInv'
<1> DEFINE f == job[c].fn
           p == job[c].param
<1>1. InFlight(c)
  BY DEF Serve, IInv, CallInv, Idle, Arrived, Over
<1>2. PICK a \in Answers(f, p, request[c]) : reply' = [reply EXCEPT ![c] = a]
  BY DEF Serve
<1>3. IsReply(a, f, p)
  <2>1. now \in 0..now
    BY DEF IInv, ClockInv
  <2> QED BY <1>2, <2>1 DEF Answers, Results, IsReply
<1> HIDE DEF f, p
<1>4. pc'[c] = "answered" /\ job'[c] = job[c] /\ request'[c] = NoRequest
      /\ outcome'[c] = "none" /\ reply'[c] = a
  BY <1>1, <1>2 DEF Serve, IInv, Functional, InFlight
<1>5. IsReply(reply[c], job[c].fn, job[c].param)'
  BY <1>3, <1>4, ReplyKept DEF Serve, clockVars, f, p, IInv, ClockInv, IsReply
<1>6. IsJob(job[c])'
  BY <1>1, <1>4 DEF InFlight, IsJob, Serve
<1>7. CallInv(c)'
  BY <1>1, <1>4, <1>5, <1>6 DEF CallInv, Arrived, InFlight
<1>8. Functional'
  BY <1>2 DEF IInv, Functional, Serve
<1>9. CallerStep(c)
  BY <1>2 DEF CallerStep, Serve, IInv, Functional, clockVars
<1>10. ClientInv' /\ ClockInv'
  BY DEF Serve, IInv, ClientInv, ClockInv, clockVars
<1> QED BY <1>7, <1>8, <1>9, <1>10, OthersKept DEF IInv

LEMMA ResultIsVerdict ==
    ASSUME IInv, NEW j, IsJob(j), NEW a
    PROVE  Result(client[j.fn.handle], j.fn, a) = Verdict(j.fn, a)
<1>1. client[j.fn.handle].check = CheckerOf(j.fn.handle)
  BY ClientKinds, FunctionKinds DEF IsJob, IInv, AllFunctions
<1>2. ASSUME NEW code PROVE Check(client[j.fn.handle], j.fn, code) = CodeCheck(j.fn, code)
  BY <1>1 DEF CodeCheck, Check
<1> QED BY <1>2 DEF Result, Verdict, CodeCheck

LEMMA VerdictOutcomes == Verdicts \cup {"transport", "empty time"} \subseteq Outcomes
BY DEF Verdicts, Outcomes

\* A call that has ended on its reply.
LEMMA FinishArrived ==
    ASSUME IInv, NEW c \in Callers, Arrived(c), NEW result, Finish(c, result),
           result \in
              {"transport",
               IF job[c].sync /\ Verdict(job[c].fn, reply[c]) = "none" /\ reply[c].shape # "whole"
               THEN "empty time" ELSE Verdict(job[c].fn, reply[c])},
           ClientInv', ClockInv',
           \A h \in Handles : client[h] # NoClient => client'[h] # NoClient
    PROVE  IInv'
<1>1. pc'[c] = "done" /\ outcome'[c] = result /\ request'[c] = NoRequest
      /\ job'[c] = job[c] /\ reply'[c] = reply[c] /\ now' = now /\ job' = job /\ reply' = reply
  BY DEF Finish, IInv, Functional, clockVars
<1>2. IsReply(reply[c], job[c].fn, job[c].param)'
  <2>1. IsReply(reply[c], job[c].fn, job[c].param)
    BY DEF Arrived
  <2> QED BY <1>1, <2>1 DEF IsReply
<1>3. Answered(c)'
  BY <1>1, <1>2 DEF Answered, Arrived
<1>4. IsJob(job[c])'
  BY <1>1, FunctionKinds DEF Arrived, IsJob, AllFunctions
<1>5. CallInv(c)'
  BY <1>1, <1>3, <1>4 DEF CallInv, Over
<1>6. result \in Outcomes
  BY VerdictKinds, VerdictOutcomes DEF Arrived, IsJob, AllFunctions
<1>7. Functional'
  BY <1>1, <1>6 DEF IInv, Functional, Finish
<1>8. CallerStep(c)
  BY <1>1 DEF CallerStep, Finish, IInv, Functional
<1> QED BY <1>5, <1>7, <1>8, OthersKept DEF IInv

LEMMA ArrivedCall ==
    ASSUME IInv, NEW c \in Callers, pc[c] = "answered"
    PROVE  Arrived(c)
BY DEF IInv, CallInv, Idle, InFlight, Over

LEMMA ReceiveStep ==
    ASSUME IInv, NEW c \in Callers, Receive(c)
    PROVE  IInv'
<1>1. Arrived(c)
  BY ArrivedCall DEF Receive
<1>2. Finish(c, Verdict(job[c].fn, reply[c])) /\ ~job[c].sync
  BY <1>1, ResultIsVerdict DEF Receive, Arrived
<1>3. client' = client /\ synced' = synced
  BY DEF Receive
<1>4. ClientInv' /\ ClockInv'
  BY <1>2, <1>3 DEF IInv, ClientInv, ClockInv, Finish, clockVars
<1> QED BY <1>1, <1>2, <1>3, <1>4, FinishArrived

\* The base handle takes the delta of the reply; the copies keep theirs.
LEMMA ReceiveTimeStep ==
    ASSUME IInv, NEW c \in Callers, ReceiveTime(c)
    PROVE  IInv'
<1> DEFINE a == reply[c]
           result == Verdict(job[c].fn, a)
<1>1. Arrived(c) /\ IsJob(job[c]) /\ job[c].sync /\ job[c].fn = ServerTime
  BY ArrivedCall DEF ReceiveTime, Arrived, IsJob
<1>2. Result(client["base"], ServerTime, a) = result
  BY <1>1, ResultIsVerdict, ServerTimeAssumption
<1>3. CASE result = "none" /\ a.shape = "whole"
  <2>1. /\ client' = [client EXCEPT !["base"].delta = now + skew - a.time]
        /\ synced' = [lag |-> now - a.time, steps |-> steps, handles |-> {"base"}]
        /\ Finish(c, "none")
    BY <1>2, <1>3 DEF ReceiveTime
  <2>2. a.time \in 0..now /\ ServerTime \in AllFunctions
    <3>1. ServerTime \in AllFunctions /\ IsReply(a, ServerTime, job[c].param)
      BY <1>1 DEF Arrived, AllFunctions
    <3> HIDE DEF a
    <3>2. a.status = 200 /\ a.code = 0
      BY <1>3, <3>1, RefusalVerdict
    <3> QED BY <3>1, <3>2, ResultVerdict
  <2>3. now \in 0..MaxNow /\ skew \in Int /\ steps \in 0..MaxSteps
    BY NumberAssumption DEF IInv, ClockInv
  <2>4. now + skew - a.time \in Int /\ now - a.time \in 0..MaxNow
    BY <2>2, <2>3, BoundAssumption
  <2> DEFINE cl == [client["base"] EXCEPT !.delta = now + skew - a.time]
  <2>5. client' = [client EXCEPT !["base"] = cl]
    BY <2>1, BaseClient DEF IInv, ClientInv
  <2>6. /\ cl \in Clients /\ KeyFits(cl) /\ cl.check = "checkResponseBody"
        /\ cl.delta = now + skew - a.time
    BY <2>4, BaseClient DEF Clients, KeyFits
  <2> HIDE DEF cl
  <2>7. cl # NoClient
    BY <2>6, NoClientIsNone
  <2>8. ClientInv'
    BY <2>5, <2>6, <2>7 DEF IInv, ClientInv, CheckerOf, Handles
  <2>9. ClockInv'
    <3>1. synced'.lag = now - a.time /\ synced'.steps = steps /\ synced'.handles = {"base"}
      BY <2>1
    <3>2. synced' \in [lag : 0..MaxNow, steps : 0..MaxSteps, handles : SUBSET Handles]
      BY <2>1, <2>3, <2>4 DEF Handles
    <3>3. client'["base"] = cl
      BY <2>5 DEF IInv, ClientInv, Handles
    <3>4. skew - cl.delta = -(now - a.time)
      BY <2>2, <2>3, <2>6
    <3>5. UNCHANGED <<configs, now, skew, steps>>
      BY <2>1 DEF Finish, clockVars
    <3>6. synced'.steps <= steps'
      BY <2>3, <3>1, <3>5
    <3> HIDE DEF a
    <3> QED BY <2>7, <3>1, <3>2, <3>3, <3>4, <3>5, <3>6 DEF IInv, ClockInv
  <2>10. \A h \in Handles : client[h] # NoClient => client'[h] # NoClient
    BY <2>5, <2>7 DEF IInv, ClientInv
  <2> QED BY <1>1, <1>3, <2>1, <2>8, <2>9, <2>10, FinishArrived
<1>4. CASE ~(result = "none" /\ a.shape = "whole")
  <2>1. /\ Finish(c, IF result = "none" THEN "empty time" ELSE result)
        /\ client' = client /\ synced' = synced
    BY <1>2, <1>4 DEF ReceiveTime
  <2>2. ClientInv' /\ ClockInv'
    BY <2>1 DEF IInv, ClientInv, ClockInv, Finish, clockVars
  <2> QED BY <1>1, <1>4, <2>1, <2>2, FinishArrived
<1> QED BY <1>3, <1>4

LEMMA FailStep ==
    ASSUME IInv, NEW c \in Callers, Fail(c)
    PROVE  IInv'
<1>1. Finish(c, "transport") /\ client' = client /\ synced' = synced
  BY DEF Fail
<1>2. ClientInv' /\ ClockInv'
  BY <1>1 DEF IInv, ClientInv, ClockInv, Finish, clockVars
<1>3. CASE pc[c] = "answered"
  BY <1>1, <1>2, <1>3, ArrivedCall, FinishArrived
<1>4. CASE pc[c] = "flight"
  <2>1. InFlight(c)
    BY <1>4 DEF IInv, CallInv, Idle, Arrived, Over
  <2>2. pc'[c] = "done" /\ outcome'[c] = "transport" /\ request'[c] = NoRequest
        /\ job'[c] = job[c] /\ reply'[c] = NoReply
    BY <1>1, <2>1 DEF Finish, IInv, Functional, InFlight
  <2>3. IsJob(job[c])'
    BY <1>1, <2>1, <2>2 DEF InFlight, IsJob
  <2>4. CallInv(c)'
    BY <2>2, <2>3 DEF CallInv, Over, Unanswered
  <2>5. Functional'
    BY <1>1 DEF IInv, Functional, Finish, Outcomes
  <2>6. CallerStep(c)
    BY <1>1 DEF CallerStep, Finish, IInv, Functional, clockVars
  <2> QED BY <1>2, <2>4, <2>5, <2>6, OthersKept DEF IInv
<1> QED BY <1>3, <1>4 DEF Fail

LEMMA ReturnStep ==
    ASSUME IInv, NEW c \in Callers, Return(c)
    PROVE  IInv'
<1>1. Over(c)
  BY DEF Return, IInv, CallInv, Idle, InFlight, Arrived
<1>2. CallInv(c)'
  BY <1>1 DEF Return, CallInv, Idle, Over, IInv, Functional
<1>3. Functional'
  BY DEF Return, IInv, Functional, Outcomes
<1>4. CallerStep(c)
  BY DEF CallerStep, Return, IInv, Functional, clockVars
<1>5. ClientInv' /\ ClockInv'
  BY DEF Return, IInv, ClientInv, ClockInv, clockVars
<1> QED BY <1>2, <1>3, <1>4, <1>5, OthersKept DEF IInv

\* A fresh process.
LEMMA NewClientFits ==
    /\ NewClient \in Clients /\ NewClient # NoClient
    /\ NewClient.check = CheckerOf("base") /\ KeyFits(NewClient)
<1>1. NewClient \in Clients
  BY DEF NewClient, Clients
<1>2. NewClient.check = CheckerOf("base") /\ KeyFits(NewClient)
  BY DEF NewClient, CheckerOf, KeyFits
<1> QED BY <1>1, <1>2, NoClientIsNone

LEMMA RestartStep ==
    ASSUME IInv, Restart
    PROVE  IInv'
<1>3. ClientInv'
  BY NewClientFits DEF ClientInv, Handles, Restart
<1>4. ClockInv'
  BY BoundAssumption DEF IInv, ClockInv, Restart, clockVars
<1>5. Functional'
  BY DEF Functional, Restart, Outcomes
<1>6. ASSUME NEW c \in Callers PROVE CallInv(c)'
  BY DEF Restart, CallInv, Idle
<1> QED BY <1>3, <1>4, <1>5, <1>6 DEF IInv

LEMMA InitInv == Init => IInv
<1> SUFFICES ASSUME Init PROVE IInv
  OBVIOUS
<1>1. ClientInv
  BY NewClientFits DEF ClientInv, Handles, Init
<1>2. ClockInv
  BY BoundAssumption DEF Init, ClockInv
<1>3. Functional
  BY DEF Functional, Init, Outcomes
<1>4. ASSUME NEW c \in Callers PROVE CallInv(c)
  BY DEF Init, CallInv, Idle
<1> QED BY <1>1, <1>2, <1>3, <1>4 DEF IInv

LEMMA StutterStep ==
    ASSUME IInv, UNCHANGED vars
    PROVE  IInv'
<1>1. ClientInv' /\ ClockInv'
  BY DEF vars, clockVars, IInv, ClientInv, ClockInv
<1>2. Functional' /\ \A c \in Callers : CallInv(c)'
  <2>1. UNCHANGED callVars /\ client' = client /\ now' = now /\ now \in Int /\ now <= now
    BY DEF vars, clockVars, IInv, ClockInv
  <2> QED BY <2>1, CallsKept
<1> QED BY <1>1, <1>2 DEF IInv

LEMMA CallStep ==
    ASSUME IInv, NEW c \in Callers, Call(c)
    PROVE  IInv'
<1>1. PICK f \in Functions : \E p \in Params(f, Exponents) :
        Stop(c, f, p, FALSE) \/ Send(c, f, p, FALSE)
  BY DEF Call
<1>2. PICK p \in Params(f, Exponents) : Stop(c, f, p, FALSE) \/ Send(c, f, p, FALSE)
  BY <1>1
<1>3. f \in AllFunctions /\ pc[c] = "idle" /\ FALSE \in BOOLEAN
  BY DEF AllFunctions, Call
<1> QED BY <1>2, <1>3, StopStep, SendStep

LEMMA SyncStep ==
    ASSUME IInv, NEW c \in Callers, SyncServerTime(c)
    PROVE  IInv'
<1>1. PICK p \in Params(ServerTime, Exponents) :
        Stop(c, ServerTime, p, TRUE) \/ Send(c, ServerTime, p, TRUE)
  BY DEF SyncServerTime
<1>2. ServerTime \in AllFunctions /\ pc[c] = "idle" /\ TRUE \in BOOLEAN
  BY DEF AllFunctions, SyncServerTime
<1> QED BY <1>1, <1>2, StopStep, SendStep

LEMMA StepInv == IInv /\ [Next]_vars => IInv'
<1> SUFFICES ASSUME IInv, [Next]_vars PROVE IInv'
  OBVIOUS
<1>1. ASSUME NEW secret \in Secrets, WithAuth(secret) PROVE IInv'
  BY <1>1, WithAuthStep
<1>2. ASSUME WithAuthRSA PROVE IInv'
  BY <1>2, WithAuthRSAStep
<1>3. ASSUME NEW url \in Urls, WithBaseURL(url) PROVE IInv'
  BY <1>3, WithBaseURLStep
<1>4. ASSUME V5 PROVE IInv'
  <2>1. CheckerOf("v5") = "checkV5ResponseBody"
    BY DEF CheckerOf
  <2> QED BY <1>4, <2>1, HandleStep DEF V5
<1>5. ASSUME Derivative PROVE IInv'
  <2>1. CheckerOf("derivative") = "checkV3ResponseBody"
    BY DEF CheckerOf
  <2> QED BY <1>5, <2>1, HandleStep DEF Derivative
<1>6. ASSUME NEW c \in Callers,
             Call(c) \/ SyncServerTime(c) \/ Serve(c) \/ Receive(c) \/ ReceiveTime(c)
               \/ Fail(c) \/ Return(c)
      PROVE IInv'
  BY <1>6, CallStep, SyncStep, ServeStep, ReceiveStep, ReceiveTimeStep, FailStep, ReturnStep
<1>7. ASSUME Restart PROVE IInv'
  BY <1>7, RestartStep
<1>8. ASSUME Tick PROVE IInv'
  BY <1>8, TickStep
<1>9. ASSUME ClockStep PROVE IInv'
  BY <1>9, ClockStepStep
<1>10. ASSUME UNCHANGED vars PROVE IInv'
  BY <1>10, StutterStep
<1> QED BY <1>1, <1>2, <1>3, <1>4, <1>5, <1>6, <1>7, <1>8, <1>9, <1>10 DEF Next

\* Every state of RestClient satisfies the invariant.
THEOREM Invariant == Spec => []IInv
BY InitInv, StepInv, PTL DEF Spec

------------------------------------------------------------------------------
(* What the invariant says of the properties *)

LEMMA EndedCall ==
    ASSUME IInv, NEW c \in Callers, Finished(c)
    PROVE  IsJob(job[c]) /\ job[c].fn \in AllFunctions /\ (Answered(c) \/ Unanswered(c))
BY DEF IInv, CallInv, Finished, Idle, InFlight, Arrived, Over, IsJob, AllFunctions

LEMMA JobIsNotNone ==
    ASSUME NEW j, IsJob(j)
    PROVE  j # NoJob
BY FunctionKinds DEF IsJob, NoJob, AllFunctions

\* Nothing came back before the reply did.
LEMMA UnansweredNotExecuted ==
    ASSUME NEW c, Unanswered(c)
    PROVE  reply[c].status = 0 /\ ~Executed(c)
<1>1. reply[c] = NoReply /\ NoReply.status = 0 /\ ~NoReply.done
  BY DEF Unanswered, NoReply
<1> QED BY <1>1 DEF Executed

LEMMA TypeInv == IInv => TypeOK
<1> SUFFICES ASSUME IInv PROVE TypeOK
  OBVIOUS
<1>1. /\ DOMAIN client = Handles
      /\ client["base"] # NoClient
      /\ \A h \in Handles : client[h] # NoClient => client[h].check = CheckerOf(h)
  BY DEF IInv, ClientInv
<1>2. ASSUME NEW c \in Callers
      PROVE  /\ pc[c] = "idle" <=> job[c] = NoJob
             /\ pc[c] = "flight" <=> request[c] # NoRequest
             /\ pc[c] = "answered" => reply[c] # NoReply
             /\ pc[c] # "done" => outcome[c] = "none"
  <2>1. CASE Idle(c)
    BY <2>1 DEF Idle
  <2>2. CASE InFlight(c)
    <3>1. request[c] # NoRequest
      <4>1. request[c].key # "none"
        BY <2>2 DEF InFlight, IsRequest
      <4> QED BY <4>1 DEF NoRequest
    <3> QED BY <2>2, <3>1, JobIsNotNone DEF InFlight
  <2>3. CASE Arrived(c)
    <3>1. reply[c] # NoReply
      BY <2>3, ReplyKinds DEF Arrived
    <3> QED BY <2>3, <3>1, JobIsNotNone DEF Arrived
  <2>4. CASE Over(c)
    BY <2>4, JobIsNotNone DEF Over
  <2> QED BY <2>1, <2>2, <2>3, <2>4 DEF IInv, CallInv
<1> QED BY <1>1, <1>2 DEF TypeOK, IInv, ClockInv, Functional

LEMMA SuccessInv == IInv => SuccessMeansExecuted
<1> SUFFICES ASSUME IInv, NEW c \in Callers, Finished(c), outcome[c] = "none"
             PROVE  \/ Executed(c)
                    \/ job[c].fn = ServerTime /\ ~job[c].sync
                    \/ job[c].fn.via = "postForm" /\ reply[c] = NoReply
  BY DEF SuccessMeansExecuted
<1>1. CASE Unanswered(c)
  BY <1>1 DEF Unanswered
<1>2. CASE Answered(c) /\ ~Executed(c)
  <2>1. /\ reply[c].shape \in {"none", "garbled"}
        /\ Verdict(job[c].fn, reply[c]) = "none" => job[c].fn = ServerTime
    <3>1. IsReply(reply[c], job[c].fn, job[c].param) /\ job[c].fn \in AllFunctions
      BY <1>2, EndedCall DEF Answered
    <3>2. ~(reply[c].status = 200 /\ reply[c].code = 0)
      BY <1>2, <3>1, ReplyKinds DEF Executed
    <3> QED BY <3>1, <3>2, RefusalVerdict
  <2>2. Verdict(job[c].fn, reply[c]) = "none" /\ ~job[c].sync
    BY <1>2, <2>1 DEF Answered
  <2> QED BY <2>1, <2>2
<1> QED BY <1>1, <1>2, EndedCall

LEMMA SignatureInv == IInv => SignatureVerifies
<1> SUFFICES ASSUME IInv, NEW c \in Callers, pc[c] = "flight"
             PROVE  Verifies(job[c].fn, request[c]) <=>
                      ~ \/ Legacy(job[c].fn) /\ request[c].key = "rsaKey"
                        \/ /\ job[c].fn.via = "postJSON" /\ job[c].fn.numbers
                           /\ ~SameText(job[c].param.exp)
  BY DEF SignatureVerifies, Legacy
<1>1. InFlight(c)
  BY DEF IInv, CallInv, Idle, Arrived, Over
<1> QED BY <1>1 DEF InFlight, IsRequest

LEMMA ExecutedInv ==
    ASSUME \A f \in Functions : Quiet(f)
    PROVE  IInv => ExecutedReported
<1> SUFFICES ASSUME IInv, NEW c \in Callers, Finished(c), Private(job[c].fn), Executed(c)
             PROVE  \/ outcome[c] \in {"none", "transport"}
                    \/ /\ outcome[c] = "unexpected status"
                       /\ reply[c].status \notin Rejections \cup {200}
                    \/ outcome[c] = "error" /\ reply[c].shape \notin {"whole", "null"}
  BY DEF ExecutedReported
<1> DEFINE f == job[c].fn
           a == reply[c]
<1>1. Answered(c) /\ f \in AllFunctions /\ IsJob(job[c])
  BY EndedCall, UnansweredNotExecuted
<1>2. f.decoder \notin {"asserted", "unchecked"} /\ ~job[c].sync
  BY <1>1, ServerTimeAssumption DEF AllFunctions, Quiet, Private, IsJob
<1>3. IsReply(a, f, job[c].param) /\ outcome[c] \in {"transport", Verdict(f, a)} /\ a.done
  BY <1>1, <1>2 DEF Answered, Executed
<1> HIDE DEF f, a
<1>4. CASE a.status = 200
  <2>1. a.code = 0
    BY <1>3, <1>4, ReplyKinds
  <2>2. /\ Verdict(f, a) \in {"none", "error"}
        /\ Verdict(f, a) = "error" => a.shape \notin {"whole", "null"}
    BY <1>1, <1>2, <1>3, <1>4, <2>1, ResultVerdict
  <2> QED BY <1>3, <2>2 DEF a
<1>5. CASE a.status # 200
  <2>1. a.status \notin Rejections \cup {200}
    BY <1>3, <1>5, ReplyKinds
  <2>2. Verdict(f, a) = "unexpected status"
    BY <1>5, <2>1, VerdictIs, StatusErrors
  <2> QED BY <1>3, <2>1, <2>2 DEF a
<1> QED BY <1>4, <1>5

\* The verdict on a reply is a rate limit when its code is one to the handle.
LEMMA VerdictLimits ==
    ASSUME NEW f \in AllFunctions, f # ServerTime, NEW p, NEW a, IsReply(a, f, p),
           a.status = 200, a.shape # "garbled"
    PROVE  Graded(f, a)
<1>1. CASE a.code = 0
  <2>1. Verdict(f, a) \in {"none", "error", "panic"} /\ 0 \notin Limits(f.handle)
    BY <1>1, ResultVerdict
  <2> QED BY <1>1, <2>1 DEF Graded
<1>2. CASE a.code # 0
  BY <1>2, RefusalVerdict
<1> QED BY <1>1, <1>2

LEMMA RateLimitInv == IInv => RateLimitTyped
<1> SUFFICES ASSUME IInv, NEW c \in Callers, Finished(c), outcome[c] # "transport",
                    reply[c].status = 200, reply[c].shape # "garbled",
                    job[c].fn # ServerTime
             PROVE  outcome[c] = "rate limit" <=>
                       reply[c].code \in Limits(job[c].fn.handle)
  BY DEF RateLimitTyped
<1>1. Answered(c) /\ job[c].fn \in AllFunctions /\ IsJob(job[c])
  BY EndedCall, UnansweredNotExecuted
<1>2. /\ outcome[c] = Verdict(job[c].fn, reply[c])
      /\ IsReply(reply[c], job[c].fn, job[c].param)
  BY <1>1 DEF Answered, IsJob
<1> DEFINE f == job[c].fn
           p == job[c].param
           a == reply[c]
<1>3. /\ f \in AllFunctions /\ f # ServerTime /\ IsReply(a, f, p)
      /\ a.status = 200 /\ a.shape # "garbled"
  BY <1>1, <1>2
<1>4. outcome[c] = Verdict(f, a)
  BY <1>2
<1> HIDE DEF f, p, a
<1>5. Graded(f, a)
  BY <1>3, VerdictLimits
<1> QED BY <1>4, <1>5 DEF Graded, f, a

\* A call without an error that the server carried out has a result that its
\* decoder takes for data.
LEMMA CarriedOut ==
    ASSUME IInv, NEW c \in Callers, Finished(c), outcome[c] = "none", Executed(c)
    PROVE  /\ job[c].param.category \in Categories \cup {"none"}
           /\ Accepts(job[c].fn, job[c].param)
           /\ Passes(job[c].fn, reply[c].shape)
<1>1. Answered(c) /\ job[c].fn \in AllFunctions
  BY EndedCall, UnansweredNotExecuted
<1>2. Verdict(job[c].fn, reply[c]) = "none" /\ reply[c].done
      /\ IsReply(reply[c], job[c].fn, job[c].param)
  BY <1>1 DEF Answered, Executed
<1>3. reply[c].status = 200
  BY <1>2, VerdictIs, StatusErrors
<1>4. reply[c].code = 0
  BY <1>2, <1>3, ReplyKinds
<1> QED BY <1>1, <1>2, <1>3, <1>4, ResultVerdict DEF Answered

LEMMA MalformedInv == IInv => MalformedRefused
BY CarriedOut DEF MalformedRefused, Passes

LEMMA LayoutInv ==
    ASSUME \A f \in AllFunctions : Fits(f)
    PROVE  IInv => LayoutMatches
<1> SUFFICES ASSUME IInv, NEW c \in Callers, Finished(c), outcome[c] = "none", Executed(c)
             PROVE  job[c].param.category \in job[c].fn.decodes \cup {"none"}
  BY DEF LayoutMatches
<1>1. Fits(job[c].fn)
  BY EndedCall
<1>2. job[c].param.category \in job[c].fn.accepts
  BY CarriedOut DEF Accepts
<1> QED BY <1>1, <1>2, CarriedOut DEF Fits

LEMMA IdentifiedInv ==
    ASSUME \A f \in AllFunctions \ Unnamed : Identifies(f)
    PROVE  IInv => IdentifiedOrder
<1> SUFFICES ASSUME IInv, NEW c \in Callers, pc[c] = "flight", job[c].fn.ids # {},
                    job[c].fn \notin Unnamed
             PROVE  job[c].fn.ids \cap job[c].param.given # {}
  BY DEF IdentifiedOrder
<1>1. InFlight(c)
  BY DEF IInv, CallInv, Idle, Arrived, Over
<1>2. Identifies(job[c].fn) /\ Accepts(job[c].fn, job[c].param)
  BY <1>1 DEF InFlight, IsJob, AllFunctions
<1>3. PICK n \in job[c].fn.needs :
        n.facts \subseteq job[c].fn.ids /\ job[c].fn.accepts \subseteq n.cats
  BY <1>2 DEF Identifies
<1>4. n.facts \cap job[c].param.given # {}
  BY <1>2, <1>3 DEF Accepts
<1> QED BY <1>3, <1>4

LEMMA StampInv == IInv => StampBounded
<1> SUFFICES ASSUME IInv, NEW c \in Callers, pc[c] = "flight", Private(job[c].fn),
                    request[c].inSync
             PROVE  request[c].timestamp \in
                       (request[c].sentAt - request[c].lag)..request[c].sentAt
  BY DEF StampBounded
<1>1. InFlight(c)
  BY DEF IInv, CallInv, Idle, Arrived, Over
<1> QED BY <1>1 DEF InFlight, IsRequest

------------------------------------------------------------------------------
(* The theorems *)

\* Every variable has its type, and a caller has a request, a reply and an
\* outcome when its step says so.
THEOREM TypeCorrect == Spec => []TypeOK
BY Invariant, TypeInv, PTL

\* A call that returns no error was carried out by the server, whatever builders
\* the owner called before it and in which order: no handle reads an envelope
\* that its services are not answered in.
THEOREM Success == Spec => []SuccessMeansExecuted
BY Invariant, SuccessInv, PTL

\* The server can verify every signed request, for all credentials, functions
\* and numbers, but for the key of WithAuthRSA in the helpers before V5 and the
\* numbers that %v and encoding/json write apart.
THEOREM Signed == Spec => []SignatureVerifies
BY Invariant, SignatureInv, PTL

\* What the server carried out comes back as success, as a loss, as a status that
\* says nothing or as the error of a decoder, and never as a refusal or a panic,
\* if no private function has a decoder that may panic.
THEOREM Reported ==
    ASSUME \A f \in Functions : Quiet(f)
    PROVE  Spec => []ExecutedReported
BY Invariant, ExecutedInv, PTL

\* Callers are told of a rate limit just when the server answered, in a body that
\* can be decoded, with the code of one that the handle knows.
THEOREM Limited == Spec => []RateLimitTyped
BY Invariant, RateLimitInv, PTL

\* A result that its type does not expect is an error or a panic and never data,
\* but for null in the place of a value or of an element read as a string, and the
\* long rows of the decoder that does not look at their length.
THEOREM Refused == Spec => []MalformedRefused
BY Invariant, MalformedInv, PTL

\* A result is decoded by a type of its category, if the functions let through
\* none but the categories their types fit.
THEOREM Matched ==
    ASSUME \A f \in AllFunctions : Fits(f)
    PROVE  Spec => []LayoutMatches
BY Invariant, LayoutInv, PTL

\* A change of one order names the order, if all functions but those of
\* `Unnamed` check that the caller names it.
THEOREM Identified ==
    ASSUME \A f \in AllFunctions \ Unnamed : Identifies(f)
    PROVE  Spec => []IdentifiedOrder
BY Invariant, IdentifiedInv, PTL

\* A private request from a handle in step with the server is stamped with a
\* time no later than the server's, and earlier by at most the latency of the
\* synchronisation.
THEOREM Stamped == Spec => []StampBounded
BY Invariant, StampInv, PTL
=============================================================================
