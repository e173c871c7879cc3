----------------------------- MODULE RestClient -----------------------------
(***************************************************************************)
(* The Go REST client: a Client that its owner configures, the copies that *)
(* V5() and Derivative() make of it, and callers that run the functions of *)
(* their services concurrently.  A call checks its parameter, reads the    *)
(* credentials and the clock of its handle, signs, sends, and turns the    *)
(* reply into a result or an error.                                        *)
(*                                                                         *)
(* The server is external: it recomputes the signature over the parameters *)
(* it received, with the credential registered for the key, and answers in *)
(* the envelope of the path's API version.                                 *)
(***************************************************************************)
EXTENDS EndpointKinds

CONSTANTS
    Callers,            \* goroutines that call service functions
    Functions,          \* the functions of the services that callers use
    ServerTime,         \* the function SyncServerTime calls
    Unnamed,            \* those that change one order and do not look whether
                        \* the caller named it
    Exponents,          \* decimal exponents of the numbers callers pass
    Secrets,            \* arguments of WithAuth, "" among them or not
    Urls,               \* base URLs, "malformed" among them or not
    Statuses,           \* HTTP statuses of replies
    ErrorCodes,         \* return codes of refusals: 10006 and 10018 are rate
                        \* limits, 1 stands for any other
    Skews,              \* local clock minus server clock
    MaxNow,             \* bound on the server's clock
    MaxSteps,           \* bound on the steps the local clock takes
    MaxConfigs          \* bound on the builder calls of one process

Handles == {"base", "v5", "derivative"}

\* The helpers of the Client that send.
Helpers ==
    {"getPublicly", "getPrivately", "getV5Privately", "postV5JSON", "postJSON",
     "postForm", "deletePrivately"}

\* A function goes through one helper of one handle; the server's time is
\* public and on the base handle.
ASSUME FunctionAssumption ==
    \A f \in Functions \cup {ServerTime} :
        /\ f.via \in Helpers
        /\ f.handle \in Handles
        /\ f.decoder \in Decoders
        /\ f.numbers \in BOOLEAN
ASSUME ServerTimeAssumption ==
    ServerTime.via = "getPublicly" /\ ServerTime.handle = "base"

\* An owner has one secret or passes none, a refusal has a code, and numbers
\* and times are integers.
ASSUME OwnerAssumption == Secrets \subseteq {"", "hmacKey"}
ASSUME RefusalAssumption == ErrorCodes \subseteq Int \ {0}
ASSUME NumberAssumption == Exponents \subseteq Int /\ Skews \subseteq Int
ASSUME BoundAssumption == MaxNow \in Nat /\ MaxSteps \in Nat /\ MaxConfigs \in Nat

NoClient == [check |-> "none"]
NoFunction == [via |-> "none", handle |-> "base"]
NoParam == [category |-> "none", given |-> {}, exp |-> 0]
NoRequest == [key |-> "none"]
NoReply == [status |-> 0, done |-> FALSE]

VARIABLES
    client,     \* the Client behind each handle
    configs,    \* builder calls made so far
    now,        \* the server's clock
    skew,       \* local clock minus server clock
    steps,      \* steps the local clock took
    synced,     \* the last successful SyncServerTime: its reply's latency, and
                \* the handles that have its delta (history)
    pc,         \* per caller: idle, flight, answered, done
    job,        \* per caller: the function, its parameter, and for whom
    request,    \* per caller: what is on its way to the server
    reply,      \* per caller: what the server answered
    outcome     \* per caller: nil, or the kind of error

clockVars == <<now, skew, steps>>
callVars == <<pc, job, request, reply, outcome>>
vars == <<client, configs, clockVars, synced, callVars>>

NoJob == [fn |-> NoFunction, param |-> NoParam, sync |-> FALSE]

------------------------------------------------------------------------------
(* The Client and its builders *)

\* NewClient
NewClient ==
    [check |-> "checkResponseBody", key |-> "", secret |-> "", privateKey |-> "",
     useRSA |-> FALSE, url |-> "good", delta |-> 0]

Init ==
    /\ client = [h \in Handles |-> IF h = "base" THEN NewClient ELSE NoClient]
    /\ configs = 0
    /\ now = 0
    /\ skew \in Skews
    /\ steps = 0
    /\ synced = [lag |-> 0, steps |-> 0, handles |-> {}]
    /\ pc = [c \in Callers |-> "idle"]
    /\ job = [c \in Callers |-> NoJob]
    /\ request = [c \in Callers |-> NoRequest]
    /\ reply = [c \in Callers |-> NoReply]
    /\ outcome = [c \in Callers |-> "none"]

Configure ==
    /\ configs < MaxConfigs
    /\ configs' = configs + 1
    /\ UNCHANGED <<clockVars, callVars>>

\* WithAuth keeps the private key of an earlier WithAuthRSA and stops using it.
WithAuth(secret) ==
    /\ Configure
    /\ client' = [client EXCEPT !["base"].key = "hmacKey", !["base"].secret = secret,
                                !["base"].useRSA = FALSE]
    /\ UNCHANGED synced

\* WithAuthRSA keeps the secret of an earlier WithAuth.
WithAuthRSA ==
    /\ Configure
    /\ client' = [client EXCEPT !["base"].key = "rsaKey", !["base"].useRSA = TRUE,
                                !["base"].privateKey = "rsaKey"]
    /\ UNCHANGED synced

WithBaseURL(url) ==
    /\ Configure
    /\ client' = [client EXCEPT !["base"].url = url]
    /\ UNCHANGED synced

\* With a pointer receiver, the base client gets the checker of the handle too.
WithCheckResponseBodySharedBug(handle, check) ==
    [h \in Handles |-> IF h \in {handle, "base"} THEN [client["base"] EXCEPT !.check = check]
                       ELSE client[h]]

\* The copy keeps the checker it was copied with.
WithCheckResponseBodyBug(handle, check) ==
    [client EXCEPT ![handle] = client["base"]]

\* withCheckResponseBody has a value receiver: the handle gets a copy.
WithCheckResponseBody(handle, check) ==
    [client EXCEPT ![handle] = [client["base"] EXCEPT !.check = check]]

\* The new handle has the delta that the base has now.
Inherit(handle) ==
    synced' = [synced EXCEPT !.handles =
        IF "base" \in @ THEN @ \cup {handle} ELSE @ \ {handle}]

V5 ==
    /\ Configure
    /\ client' = WithCheckResponseBody("v5", "checkV5ResponseBody")
    /\ Inherit("v5")

Derivative ==
    /\ Configure
    /\ client' = WithCheckResponseBody("derivative", "checkV3ResponseBody")
    /\ Inherit("derivative")

------------------------------------------------------------------------------
(* Signing *)

\* hasAuth
HasAuth(c) == c.key # "" /\ IF c.useRSA THEN c.privateKey # "" ELSE c.secret # ""

\* The delta has the other sign.
TimestampBug(c) == now + skew + c.delta

\* getTimestamp: the local clock, less the delta.
Timestamp(c) == now + skew - c.delta

\* A number 10^e as encoding/json writes it into the body, and as fmt's %v
\* writes it into the text that populateSignatureForBody signs.
JsonText(e) ==
    [exponent |-> e < -6 \/ e >= 21, digits |-> IF e \in -9..-7 THEN 1 ELSE 2]
VerbText(e) ==
    [exponent |-> e < -4 \/ e >= 6, digits |-> 2]

\* What the body or the query carries of the caller's numbers; 10^0 stands for
\* a request that has none.
SentText(f, p) == IF f.numbers THEN JsonText(p.exp) ELSE JsonText(0)

\* populateSignature, populateSignatureForBody: always HMAC with the secret,
\* over the query as it is sent, or over the fields of the body printed anew.
LegacySignature(c, f, p) ==
    [by |-> c.secret, over |-> IF f.via = "postJSON" /\ f.numbers
                               THEN VerbText(p.exp) ELSE SentText(f, p)]

\* The secret signs whatever the kind of the credentials.
V5SignatureBug(c, f, p) == [by |-> c.secret, over |-> SentText(f, p)]

\* getV5Signature... : over the query or the body as it is sent.
V5Signature(c, f, p) ==
    [by |-> IF c.useRSA THEN c.privateKey ELSE c.secret, over |-> SentText(f, p)]

Private(f) == f.via # "getPublicly"

\* Three facts about the tables that a function f of theirs may have.  No decoder
\* that may panic reads the result of f if it is private; the categories it lets
\* through are those its result type fits; a check of its parameter makes the
\* caller name the order.
Quiet(f) == Private(f) => f.decoder \notin {"asserted", "unchecked"}
Fits(f) == f.accepts \cap Categories \subseteq f.decodes
Identifies(f) ==
    f.ids # {} => \E n \in f.needs : n.facts \subseteq f.ids /\ f.accepts \subseteq n.cats

Unsigned == [by |-> "nobody"]

Signature(c, f, p) ==
    CASE f.via = "getPublicly" -> Unsigned
      [] f.via \in {"getV5Privately", "postV5JSON"} -> V5Signature(c, f, p)
      [] f.via \in {"getPrivately", "postJSON", "postForm", "deletePrivately"} ->
            LegacySignature(c, f, p)

------------------------------------------------------------------------------
(* A call, up to the request *)

\* The checks of a call before it sends, in their order: those of the function,
\* hasAuth in the private helpers, and the parse of the base URL, whose error
\* postForm returns as nil.
Obstacle(c, f, p) ==
    CASE ~Accepts(f, p) -> "refused"
      [] Accepts(f, p) /\ Private(f) /\ ~HasAuth(c) -> "no auth"
      [] Accepts(f, p) /\ (Private(f) => HasAuth(c)) /\ c.url = "malformed" ->
            IF f.via = "postForm" THEN "none" ELSE "bad url"
      [] OTHER -> "clear"

Begin(caller, f, p, sync) ==
    /\ client[f.handle] # NoClient
    /\ job' = [job EXCEPT ![caller] =
                  [fn |-> f, param |-> p, sync |-> sync]]
    /\ UNCHANGED <<client, configs, clockVars, synced, reply>>

Stop(caller, f, p, sync) ==
    LET c == client[f.handle] IN
    /\ Begin(caller, f, p, sync)
    /\ Obstacle(c, f, p) # "clear"
    /\ pc' = [pc EXCEPT ![caller] = "done"]
    /\ outcome' = [outcome EXCEPT ![caller] = Obstacle(c, f, p)]
    /\ UNCHANGED request

\* The handle's delta is that of the last sync, and the clock ran evenly since.
InSync(handle) == handle \in synced.handles /\ synced.steps = steps

Send(caller, f, p, sync) ==
    LET c == client[f.handle] IN
    /\ Begin(caller, f, p, sync)
    /\ Obstacle(c, f, p) = "clear"
    /\ pc' = [pc EXCEPT ![caller] = "flight"]
    /\ request' = [request EXCEPT ![caller] =
          [key |-> c.key, signature |-> Signature(c, f, p), sent |-> SentText(f, p),
           timestamp |-> IF Private(f) THEN Timestamp(c) ELSE 0, sentAt |-> now, lag |-> synced.lag,
           inSync |-> InSync(f.handle)]]
    /\ UNCHANGED outcome

Call(caller) ==
    /\ pc[caller] = "idle"
    /\ \E f \in Functions : \E p \in Params(f, Exponents) :
        Stop(caller, f, p, FALSE) \/ Send(caller, f, p, FALSE)

\* SyncServerTime calls GetServerTime on its own Client.
SyncServerTime(caller) ==
    /\ pc[caller] = "idle"
    /\ \E p \in Params(ServerTime, Exponents) :
        Stop(caller, ServerTime, p, TRUE) \/ Send(caller, ServerTime, p, TRUE)

------------------------------------------------------------------------------
(* The server (external) *)

Verifies(f, r) == Private(f) => r.signature.by = r.key /\ r.signature.over = r.sent

\* The field that carries the code of a reply.
Envelope(f) ==
    IF f.handle = "base" /\ f # ServerTime THEN "ret_code" ELSE "retCode"

\* Statuses of a server that did not carry out the request.
Rejections == {400, 401, 403, 404}

\* A reply says whether the request was carried out (`done`), or does not.  The
\* body of a 200 is the envelope with its result, or decodes to no envelope.
Refusals ==
    [status : {200}, code : ErrorCodes, shape : {"none", "garbled"}, time : {0}, done : {FALSE}]
BareStatuses ==
    [status : Statuses \ {200}, code : {0}, shape : {"none"}, time : {0}, done : {FALSE}]
LostResults ==
    [status : Statuses \ (Rejections \cup {200}), code : {0}, shape : {"none"}, time : {0},
     done : {TRUE}]
Results(f) ==
    [status : {200}, code : {0}, shape : Shapes(f) \cup {"garbled"}, time : {now},
     done : {TRUE}]

Answers(f, p, r) ==
    IF Verifies(f, r) /\ p.category \in Categories \cup {"none"}
    THEN Refusals \cup BareStatuses \cup LostResults \cup Results(f)
    ELSE Refusals \cup BareStatuses

Serve(caller) ==
    /\ pc[caller] = "flight"
    /\ pc' = [pc EXCEPT ![caller] = "answered"]
    /\ \E a \in Answers(job[caller].fn, job[caller].param, request[caller]) :
        reply' = [reply EXCEPT ![caller] = a]
    /\ request' = [request EXCEPT ![caller] = NoRequest]
    /\ UNCHANGED <<client, configs, clockVars, synced, job, outcome>>

------------------------------------------------------------------------------
(* The reply *)

CheckResponseBody(code) ==
    IF code = 10006 THEN "rate limit" ELSE IF code # 0 THEN "api" ELSE "none"
CheckV3ResponseBody(code) ==
    IF code # 0 THEN "api" ELSE "none"
CheckV5ResponseBodyBug(code) ==
    IF code = 10006 THEN "rate limit" ELSE IF code # 0 THEN "api" ELSE "none"
CheckV5ResponseBody(code) ==
    IF code \in {10006, 10018} THEN "rate limit" ELSE IF code # 0 THEN "api" ELSE "none"

\* A checker sees 0 when the reply has not the field it reads.
Check(c, f, code) ==
    CASE c.check = "checkResponseBody" ->
            CheckResponseBody(IF Envelope(f) = "ret_code" THEN code ELSE 0)
      [] c.check = "checkV3ResponseBody" ->
            CheckV3ResponseBody(IF Envelope(f) = "retCode" THEN code ELSE 0)
      [] c.check = "checkV5ResponseBody" ->
            CheckV5ResponseBody(IF Envelope(f) = "retCode" THEN code ELSE 0)

\* The second json.Unmarshal, into the response of the function: a refusal that
\* the checker let through has no result.
Decode(f, a) ==
    IF a.shape = "none" \/ DecodeResult(f, a.shape) = "ok" THEN "none"
    ELSE DecodeResult(f, a.shape)

StatusError(status) ==
    CASE status = 400 -> "bad request"
      [] status = 401 -> "invalid request"
      [] status = 403 -> "forbidden"
      [] status = 404 -> "path not found"
      [] OTHER -> "unexpected status"

\* Request: the checker is the first to unmarshal the body.
Result(c, f, a) ==
    CASE a.status # 200 -> StatusError(a.status)
      [] a.status = 200 /\ a.shape = "garbled" -> "error"
      [] a.status = 200 /\ a.shape # "garbled" /\ Check(c, f, a.code) # "none" ->
            Check(c, f, a.code)
      [] OTHER -> Decode(f, a)

Finish(caller, result) ==
    /\ pc' = [pc EXCEPT ![caller] = "done"]
    /\ outcome' = [outcome EXCEPT ![caller] = result]
    /\ request' = [request EXCEPT ![caller] = NoRequest]
    /\ UNCHANGED <<configs, clockVars, job, reply>>

Receive(caller) ==
    LET j == job[caller]
    IN /\ pc[caller] = "answered"
       /\ ~j.sync
       /\ Finish(caller, Result(client[j.fn.handle], j.fn, reply[caller]))
       /\ UNCHANGED <<client, synced>>

\* SyncServerTime fails on an empty time, else updateSyncTimeDelta.  A time that
\* is not a number is mistyped here, where it is parsed one step later.
ReceiveTime(caller) ==
    LET a == reply[caller]
        result == Result(client["base"], ServerTime, a)
    IN /\ pc[caller] = "answered"
       /\ job[caller].sync
       /\ IF result = "none" /\ a.shape = "whole"
          THEN /\ client' = [client EXCEPT !["base"].delta = now + skew - a.time]
               /\ synced' = [lag |-> now - a.time, steps |-> steps, handles |-> {"base"}]
               /\ Finish(caller, "none")
          ELSE /\ Finish(caller, IF result = "none" THEN "empty time" ELSE result)
               /\ UNCHANGED <<client, synced>>

\* The request or the reply is lost, or reading or closing the body fails.
Fail(caller) ==
    /\ pc[caller] \in {"flight", "answered"}
    /\ Finish(caller, "transport")
    /\ UNCHANGED <<client, synced>>

Return(caller) ==
    /\ pc[caller] = "done"
    /\ outcome[caller] # "panic"
    /\ pc' = [pc EXCEPT ![caller] = "idle"]
    /\ job' = [job EXCEPT ![caller] = NoJob]
    /\ reply' = [reply EXCEPT ![caller] = NoReply]
    /\ outcome' = [outcome EXCEPT ![caller] = "none"]
    /\ UNCHANGED <<client, configs, clockVars, synced, request>>

\* A panic ends the process; the next one starts afresh.
Restart ==
    /\ \E c \in Callers : outcome[c] = "panic"
    /\ client' = [h \in Handles |-> IF h = "base" THEN NewClient ELSE NoClient]
    /\ configs' = 0
    /\ synced' = [lag |-> 0, steps |-> 0, handles |-> {}]
    /\ pc' = [c \in Callers |-> "idle"]
    /\ job' = [c \in Callers |-> NoJob]
    /\ request' = [c \in Callers |-> NoRequest]
    /\ reply' = [c \in Callers |-> NoReply]
    /\ outcome' = [c \in Callers |-> "none"]
    /\ UNCHANGED clockVars

------------------------------------------------------------------------------
(* Time *)

Tick ==
    /\ now < MaxNow
    /\ now' = now + 1
    /\ UNCHANGED <<client, configs, skew, steps, synced, callVars>>

\* The local clock is set.
ClockStep ==
    /\ steps < MaxSteps
    /\ steps' = steps + 1
    /\ skew' \in Skews \ {skew}
    /\ UNCHANGED <<client, configs, now, synced, callVars>>

Next ==
    \/ \E secret \in Secrets : WithAuth(secret)
    \/ WithAuthRSA
    \/ \E url \in Urls : WithBaseURL(url)
    \/ V5
    \/ Derivative
    \/ \E c \in Callers :
        \/ Call(c)
        \/ SyncServerTime(c)
        \/ Serve(c)
        \/ Receive(c)
        \/ ReceiveTime(c)
        \/ Fail(c)
        \/ Return(c)
    \/ Restart
    \/ Tick
    \/ ClockStep

Spec == Init /\ [][Next]_vars

------------------------------------------------------------------------------
(* Properties *)

Outcomes ==
    {"none", "refused", "no auth", "bad url", "transport", "bad request",
     "invalid request", "forbidden", "path not found", "unexpected status",
     "api", "rate limit", "error", "panic", "empty time"}

\* The checker of a handle is that of the envelope its services are answered in.
CheckerOf(handle) ==
    CASE handle = "base" -> "checkResponseBody"
      [] handle = "v5" -> "checkV5ResponseBody"
      [] handle = "derivative" -> "checkV3ResponseBody"

\* Every variable has its type; only the base handle exists from the start, the
\* clients of the handles share no checker, and a caller has a request, a reply
\* and an outcome when its step says so.
TypeOK ==
    /\ DOMAIN client = Handles
    /\ client["base"] # NoClient
    /\ \A h \in Handles : client[h] # NoClient => client[h].check = CheckerOf(h)
    /\ configs \in 0..MaxConfigs
    /\ now \in 0..MaxNow
    /\ skew \in Skews
    /\ steps \in 0..MaxSteps
    /\ synced \in [lag : 0..MaxNow, steps : 0..MaxSteps, handles : SUBSET Handles]
    /\ pc \in [Callers -> {"idle", "flight", "answered", "done"}]
    /\ outcome \in [Callers -> Outcomes]
    /\ \A c \in Callers :
          /\ pc[c] = "idle" <=> job[c] = NoJob
          /\ pc[c] = "flight" <=> request[c] # NoRequest
          /\ pc[c] = "answered" => reply[c] # NoReply
          /\ pc[c] # "done" => outcome[c] = "none"

\* The server carried out the function that c called.
Executed(c) == reply[c].done

Finished(c) == pc[c] = "done"

\* A call that returns no error was carried out by the server: whatever the
\* owner did to the client and in which order, the handle's checker reads the
\* envelope its services are answered in.  Two cases apart: GetServerTime is
\* answered in an envelope the base checker does not read (SyncServerTime makes
\* up for it), and postForm returns nil when the base URL does not parse.
SuccessMeansExecuted ==
    \A c \in Callers :
        Finished(c) /\ outcome[c] = "none" =>
            \/ Executed(c)
            \/ job[c].fn = ServerTime /\ ~job[c].sync
            \/ job[c].fn.via = "postForm" /\ reply[c] = NoReply

\* What the caller of a private function is told when the server carried out what
\* it asked for: success; or a loss of the reply; or a status that says nothing;
\* or the error of a decoder, for a reply that is not what the type expects.  All
\* other errors tell the caller that nothing was done, and decoding never panics
\* after the fact.
ExecutedReported ==
    \A c \in Callers :
        Finished(c) /\ Private(job[c].fn) /\ Executed(c) =>
            \/ outcome[c] \in {"none", "transport"}
            \/ outcome[c] = "unexpected status" /\ reply[c].status \notin Rejections \cup {200}
            \/ outcome[c] = "error" /\ reply[c].shape \notin {"whole", "null"}

\* The codes that are rate limits to a handle.
Limits(handle) ==
    CASE handle = "base" -> {10006}
      [] handle = "v5" -> {10006, 10018}
      [] handle = "derivative" -> {}

\* A rate limit of the server that can be decoded comes back as a rate limit,
\* which callers back off from, through the base client (10006) and V5 (10006,
\* 10018), and nothing else does; Derivative() has no such error.
RateLimitTyped ==
    \A c \in Callers :
        Finished(c) /\ outcome[c] # "transport" /\ reply[c].status = 200
            /\ reply[c].shape # "garbled" /\ job[c].fn # ServerTime =>
                (outcome[c] = "rate limit" <=> reply[c].code \in Limits(job[c].fn.handle))

\* The numbers that encoding/json and %v write alike.
SameText(e) == e <= -10 \/ e \in -4..5 \/ e >= 21

\* The server can verify the signature of a request, whichever of WithAuth and
\* WithAuthRSA came last, except: the helpers before V5 sign with the HMAC
\* secret under the key of WithAuthRSA, and a JSON body before V5 is signed
\* over another text of its numbers than it carries.
SignatureVerifies ==
    \A c \in Callers :
        pc[c] = "flight" =>
            LET f == job[c].fn
                legacy == f.via \in {"getPrivately", "postJSON", "postForm", "deletePrivately"}
            IN Verifies(f, request[c]) <=>
                  ~ \/ legacy /\ request[c].key = "rsaKey"
                    \/ f.via = "postJSON" /\ f.numbers /\ ~SameText(job[c].param.exp)

\* A result is decoded by the type that fits the category it is about.
LayoutMatches ==
    \A c \in Callers :
        Finished(c) /\ outcome[c] = "none" /\ Executed(c) =>
            job[c].param.category \in job[c].fn.decodes \cup {"none"}

\* A result that is not what its type expects is an error or a panic and never
\* data, but for what the decoders do not look at: null or nothing in the place of
\* a value, null in the place of an element that is unmarshalled to a string, and
\* rows that are too long for the decoder that does not count.
MalformedRefused ==
    \A c \in Callers :
        Finished(c) /\ outcome[c] = "none" /\ Executed(c) =>
            LET decoder == job[c].fn.decoder
                shape == reply[c].shape
            IN \/ shape \in {"whole", "null"}
               \/ shape = "element_null" /\ decoder \in {"typed", "unchecked"}
               \/ shape = "long" /\ decoder = "unchecked"

\* A request that changes or cancels one order names the order.
IdentifiedOrder ==
    \A c \in Callers :
        pc[c] = "flight" /\ job[c].fn.ids # {} /\ job[c].fn \notin Unnamed =>
            job[c].fn.ids \cap job[c].param.given # {}

\* On a handle that has the delta of the last synchronisation, and while the
\* local clock has not been set since, a request is stamped with a time of the
\* server's that is not ahead of it, and behind it by no more than that reply
\* took to arrive.
StampBounded ==
    \A c \in Callers :
        pc[c] = "flight" /\ Private(job[c].fn) /\ request[c].inSync =>
            request[c].timestamp \in (request[c].sentAt - request[c].lag)..request[c].sentAt
=============================================================================
