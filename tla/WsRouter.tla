------------------------------ MODULE WsRouter ------------------------------
(***************************************************************************)
(* What the websocket services say to the server and make of what it       *)
(* says: topics and keys, the registry of handlers, logins, and the        *)
(* dispatch of Run over replies, pongs and data.  Six services share this  *)
(* scheme and differ in their dispatch; a behaviour runs one of them.      *)
(*                                                                         *)
(* WsService looks at the goroutines of one service, its locks and         *)
(* deadlines; here a step of the application, of the server or of the      *)
(* reader is atomic, connections stay up until the reader ends, which      *)
(* closes them, and nothing more happens then.                             *)
(***************************************************************************)
EXTENDS Naturals, Sequences

WithLogin == {"v5_private", "v5_trade", "spot_private"}
V5Services == {"v5_public", "v5_private", "v5_trade"}

CONSTANTS
    Services,       \* the services to run, of those below
    Channels,       \* what the application subscribes to: [stream, key]
    MaxCalls,       \* bound on its subscriptions, logins and orders
    MaxQueue        \* bound on the messages on their way, each direction

------------------------------------------------------------------------------
(* Streams: a name, and how many parameters follow it in a topic *)

Stream(service, name, arity) == [service |-> service, name |-> name, arity |-> arity]

OrderBook == Stream("v5_public", "orderbook", 2)
Kline == Stream("v5_public", "kline", 2)
Ticker == Stream("v5_public", "tickers", 1)
Trade == Stream("v5_public", "publicTrade", 1)
Liquidation == Stream("v5_public", "liquidation", 1)
AllLiquidation == Stream("v5_public", "allLiquidation", 1)

Order == Stream("v5_private", "order", 0)
Position == Stream("v5_private", "position", 0)
Execution == Stream("v5_private", "execution", 0)
Wallet == Stream("v5_private", "wallet", 0)

\* The spot services send the symbol in a field of its own.
SpotTradeV1 == Stream("spot_public_v1", "trade", 1)
SpotTradeV2 == Stream("spot_public_v2", "trade", 1)
OutboundAccountInfo == Stream("spot_private", "outboundAccountInfo", 0)

\* The order in which judgeTopic looks for the names of the public streams.
PublicStreams == <<OrderBook, Kline, Ticker, Trade, Liquidation, AllLiquidation>>
PrivateStreams == {Order, Position, Execution, Wallet}

Streams ==
    {PublicStreams[i] : i \in DOMAIN PublicStreams} \cup PrivateStreams
        \cup {SpotTradeV1, SpotTradeV2, OutboundAccountInfo}

Channel(stream, key) == [stream |-> stream, key |-> key]

ASSUME ServicesAssumption == Services \subseteq {s.service : s \in Streams} \cup {"v5_trade"}

\* The parameters of a channel are as many as its stream asks for, and none of
\* them is called like a stream.
ASSUME ChannelsAssumption ==
    \A c \in Channels :
        /\ c.stream \in Streams
        /\ c.key \in Seq(STRING \ {s.name : s \in Streams})
        /\ Len(c.key) = c.stream.arity
        /\ c = Channel(c.stream, c.key)

ASSUME RouterAssumption == MaxCalls \in Nat /\ MaxQueue \in Nat

\* A topic is the sequence of what stands between its dots.
Topic(channel) == <<channel.stream.name>> \o channel.key

\* Key of a response: the zero key unless the topic has the stream's shape.
Key(stream, topic) ==
    IF topic[1] = stream.name /\ Len(topic) = stream.arity + 1
    THEN Tail(topic)
    ELSE [i \in 1..stream.arity |-> ""]

\* The search ignores case.
ContainsBug(topic, name) ==
    \E i \in DOMAIN topic :
        topic[i] \in {name} \cup (IF name = "liquidation" THEN {"allLiquidation"} ELSE {})

\* strings.Contains.  No stream's name is part of another's: the "Liquidation"
\* in allLiquidation has a capital, and no symbol or interval has such names.
Contains(topic, name) == \E i \in DOMAIN topic : topic[i] = name

------------------------------------------------------------------------------
(* Messages of the server *)

NoTopic == <<>>

Message(type, topic) ==
    [type |-> type, topic |-> topic, success |-> TRUE, rows |-> 1]

Push(channel) == Message("data", Topic(channel))
Pong == Message("pong", NoTopic)

\* A reply to `op`, "sub", "cancel" or "auth"; the spot services echo the topic.
Reply(op, topic, success) ==
    [type |-> op, topic |-> topic, success |-> success, rows |-> 1]

\* A reply to an order has a code and no "success".
OrderReply == Message("order", NoTopic)

\* How a message meets the types it is read into: it fits; a value of its data
\* does not, or is no data of that stream; it lacks the field, "ret_msg" or "e",
\* that judgeTopic asserts to be a text.  judgeTopic cannot unmarshal a message
\* that is "garbled".
Forms == {"good", "mistyped", "bare"}

------------------------------------------------------------------------------
VARIABLES
    service,    \* the service that runs
    creds,      \* the WebSocketClient's credentials
    handlers,   \* the channels in its registry
    calls,      \* subscriptions, logins and orders so far
    up,         \* requests on their way to the server
    down,       \* messages on their way to the reader
    authed,     \* the server accepted a login
    streamed,   \* the channels the server streams
    reader,     \* "running", or why it ended; "panic" is the end of the process
    delivered,  \* what Run took last and, if it handed it on, to which channel
    withdrawn,  \* history: channels whose subscription was ever cancelled
    refused     \* history: what the server ever refused

appVars == <<service, creds, handlers, calls>>
serverVars == <<authed, streamed, refused>>
readerVars == <<reader, delivered>>
vars == <<appVars, up, down, serverVars, readerVars, withdrawn>>

Nothing == [type |-> "none"]

NoCredentials == [key |-> "", secret |-> "", privateKey |-> "", useRSA |-> FALSE]

\* The WebSocketClient after any one or two of its WithAuth and WithAuthRSA.
Credentials ==
    [key : {"hmacKey"}, secret : {"hmacKey"}, privateKey : {"", "rsaKey"}, useRSA : {FALSE}]
    \cup [key : {"rsaKey"}, secret : {"", "hmacKey"}, privateKey : {"rsaKey"}, useRSA : {TRUE}]
    \cup {NoCredentials}

Init ==
    /\ service \in Services
    /\ creds \in IF service \in WithLogin THEN Credentials ELSE {NoCredentials}
    /\ handlers = {}
    /\ calls = 0
    /\ up = <<>>
    /\ down = <<>>
    /\ authed = FALSE
    /\ streamed = {}
    /\ reader = "running"
    /\ delivered = Nothing
    /\ withdrawn = {}
    /\ refused = {}

------------------------------------------------------------------------------
(* The application *)

Write(request) ==
    /\ reader = "running"
    /\ Len(up) < MaxQueue
    /\ up' = Append(up, request)

Count ==
    /\ calls < MaxCalls
    /\ calls' = calls + 1

\* hasAuth asks for a secret, RSA or not.
HasAuth == creds.key # "" /\ creds.secret # ""

\* The secret signs whatever the kind of the credentials.
AuthParamBug ==
    [op |-> "auth", topic |-> NoTopic, key |-> creds.key, by |-> creds.secret]

\* buildAuthParam
AuthParam ==
    [op |-> "auth", topic |-> NoTopic, key |-> creds.key,
     by |-> IF creds.useRSA THEN creds.privateKey ELSE creds.secret]

\* Subscribe of the private services, Login of the trade service.
Login ==
    /\ service \in WithLogin
    /\ HasAuth
    /\ Count
    /\ Write(AuthParam)
    /\ UNCHANGED <<service, creds, handlers, down, serverVars, readerVars, withdrawn>>

\* addParam...Func and what follows it.  A channel that is registered is an error.
Subscribe(channel) ==
    /\ channel.stream.service = service /\ service # "spot_private"
    /\ channel \notin handlers
    /\ Count
    /\ handlers' = handlers \cup {channel}
    /\ Write([op |-> "sub", topic |-> Topic(channel)])
    /\ UNCHANGED <<service, creds, down, serverVars, readerVars, withdrawn>>

\* The channel of another service is registered.
RegisterFuncBug(channel) ==
    /\ service = "spot_private"
    /\ channel \notin handlers
    /\ Count
    /\ reader = "running"
    /\ handlers' = handlers \cup {channel}
    /\ UNCHANGED <<service, creds, up, down, serverVars, readerVars, withdrawn>>

\* RegisterFuncOutboundAccountInfo sends nothing, and nothing undoes it.
RegisterFunc(channel) ==
    /\ channel.stream.service = service /\ service = "spot_private"
    /\ channel \notin handlers
    /\ Count
    /\ reader = "running"
    /\ handlers' = handlers \cup {channel}
    /\ UNCHANGED <<service, creds, up, down, serverVars, readerVars, withdrawn>>

\* The function Subscribe returned.
Unsubscribe(channel) ==
    /\ channel \in handlers /\ service # "spot_private"
    /\ Write([op |-> "cancel", topic |-> Topic(channel)])
    /\ handlers' = handlers \ {channel}
    /\ withdrawn' = withdrawn \cup {channel}
    /\ UNCHANGED <<service, creds, calls, down, serverVars, readerVars>>

\* CreateOrder and CancelOrder of the trade service.
SendOrder ==
    /\ service = "v5_trade"
    /\ Count
    /\ Write([op |-> "order", topic |-> NoTopic])
    /\ UNCHANGED <<service, creds, handlers, down, serverVars, readerVars, withdrawn>>

\* The text message of Ping; spot services send a control frame only.
Ping ==
    /\ service \in V5Services
    /\ Write([op |-> "ping", topic |-> NoTopic])
    /\ UNCHANGED <<appVars, down, serverVars, readerVars, withdrawn>>

------------------------------------------------------------------------------
(* The server (external) *)

Say(message) ==
    /\ Len(down) < MaxQueue
    /\ down' = Append(down, message)

Requested(request) == {c \in Channels : c.stream.service = service /\ Topic(c) = request.topic}

\* It may refuse a request for reasons of its own.
MustRefuse(request) ==
    \/ request.op = "auth" /\ request.by # request.key
    \/ request.op = "sub" /\ service = "v5_private" /\ ~authed
    \/ request.op = "order" /\ ~authed

\* The topic in a reply: the public spot services echo it.
Echo(request) ==
    IF service \in {"spot_public_v1", "spot_public_v2"} THEN request.topic ELSE NoTopic

Grant(request) ==
    /\ ~MustRefuse(request)
    /\ authed' = (authed \/ request.op = "auth")
    /\ streamed' =
        CASE request.op = "sub" -> streamed \cup Requested(request)
          [] request.op = "cancel" -> streamed \ Requested(request)
          [] request.op = "auth" /\ service = "spot_private" ->
                {c \in Channels : c.stream.service = service}
          [] OTHER -> streamed
    /\ Say(CASE request.op = "ping" -> Pong
             [] request.op = "order" -> OrderReply
             [] OTHER -> Reply(request.op, Echo(request), TRUE))
    /\ UNCHANGED refused

Refuse(request) ==
    /\ request.op # "ping"
    /\ refused' = refused \cup {request.op}
    /\ Say(IF request.op = "order" THEN OrderReply
           ELSE Reply(request.op, NoTopic, FALSE))
    /\ UNCHANGED <<authed, streamed>>

Serve ==
    /\ reader = "running"
    /\ up # <<>>
    /\ up' = Tail(up)
    /\ Grant(Head(up)) \/ Refuse(Head(up))
    /\ UNCHANGED <<appVars, readerVars, withdrawn>>

\* Data of the private spot service comes in an array, of one event or more.
Publish ==
    /\ reader = "running"
    /\ \E c \in streamed : \E n \in IF service = "spot_private" THEN {1, 2} ELSE {1} :
        Say([Push(c) EXCEPT !.rows = n])
    /\ UNCHANGED <<appVars, up, serverVars, readerVars, withdrawn>>

------------------------------------------------------------------------------
(* The reader *)

Skip == [do |-> "skip"]
Answer == [do |-> "pong"]
End(why) == [do |-> "end", why |-> why]

\* parseResponse, then the handler for the key of what was parsed.
Hand(stream, topic, form) ==
    LET channel == Channel(stream, Key(stream, topic))
    IN CASE form = "mistyped" -> End("malformed")
         [] form # "mistyped" /\ channel \in handlers -> [do |-> "hand", channel |-> channel]
         [] OTHER -> End("func_not_found")

\* judgeTopic of the public service: the first stream its topic contains.
JudgePublic(m, form) ==
    LET found == {i \in DOMAIN PublicStreams : Contains(m.topic, PublicStreams[i].name)}
    IN IF found = {} THEN Skip
       ELSE LET first == CHOOSE i \in found : \A j \in found : i <= j
            IN Hand(PublicStreams[first], m.topic, form)

\* A pong here goes unrecognised; so does a refusal.
RunPublic(m, form) == IF m.topic = NoTopic THEN Skip ELSE JudgePublic(m, form)

\* The topic is the name of a stream.
JudgePrivate(m, form) ==
    LET found == {s \in PrivateStreams : m.topic = <<s.name>>}
    IN IF found = {} THEN Skip ELSE Hand(CHOOSE s \in found : TRUE, m.topic, form)

\* A refusal passes.
RunPrivateBug(m, form) ==
    CASE m.type = "pong" -> Answer
      [] m.type # "pong" /\ m.topic # NoTopic -> JudgePrivate(m, form)
      [] OTHER -> Skip

\* The error of a refusal is built from its ret_msg.
Refused(form) == IF form = "bare" THEN End("panic") ELSE End("auth_failed")

RunPrivate(m, form) ==
    CASE m.type = "pong" -> Answer
      [] m.type # "pong" /\ m.topic # NoTopic -> JudgePrivate(m, form)
      [] OTHER -> IF m.success THEN Skip ELSE Refused(form)

\* Replies to orders are not looked at.
RunTrade(m, form) ==
    CASE m.type = "pong" -> Answer
      [] m.type # "pong" /\ ~m.success -> Refused(form)
      [] OTHER -> Skip

\* Whatever has the topic is data, replies included.
RunSpotV1(m, form) == IF m.topic = NoTopic THEN Skip ELSE Hand(SpotTradeV1, m.topic, form)

\* The event of a reply is not looked at.
RunSpotV2Bug(m, form) ==
    IF m.topic = NoTopic THEN Skip ELSE Hand(SpotTradeV2, m.topic, form)

\* ... but for the reply to a subscription.
RunSpotV2(m, form) ==
    IF m.topic = NoTopic \/ m.type = "sub" THEN Skip ELSE Hand(SpotTradeV2, m.topic, form)

\* A login's reply is an object, data is an array of exactly one event with a name.
RunSpotPrivate(m, form) ==
    CASE m.type = "auth" -> IF m.success THEN Skip ELSE End("auth_failed")
      [] m.type = "data" /\ m.rows # 1 -> End("unexpected_response")
      [] m.type = "data" /\ m.rows = 1 ->
            IF form = "bare" THEN End("panic") ELSE Hand(OutboundAccountInfo, m.topic, form)

Dispatch(m, form) ==
    CASE service = "v5_public" -> RunPublic(m, form)
      [] service = "v5_private" -> RunPrivate(m, form)
      [] service = "v5_trade" -> RunTrade(m, form)
      [] service = "spot_public_v1" -> RunSpotV1(m, form)
      [] service = "spot_public_v2" -> RunSpotV2(m, form)
      [] service = "spot_private" -> RunSpotPrivate(m, form)

\* What the reader took, and its form.
Taken(m, form) == [type |-> m.type, topic |-> m.topic, form |-> form]

\* Run: one message, of any form; a handler may fail, and every error ends the
\* reader.
Run ==
    /\ reader = "running"
    /\ down # <<>>
    /\ down' = Tail(down)
    /\ \E form \in Forms :
        LET m == Head(down)
            d == Dispatch(m, form)
        IN CASE d.do \in {"skip", "pong"} -> delivered' = Nothing /\ UNCHANGED reader
             [] d.do = "end" -> reader' = d.why /\ delivered' = Taken(m, form)
             [] d.do = "hand" ->
                   /\ delivered' = [type |-> m.type, topic |-> m.topic, to |-> d.channel]
                   /\ reader' \in {"running", "handler_failed"}
    /\ UNCHANGED <<appVars, up, serverVars, withdrawn>>

\* Run: a message that judgeTopic cannot unmarshal, sent and read before the next
\* of those on their way.
RunGarbled ==
    /\ reader = "running"
    /\ reader' = "malformed"
    /\ delivered' = [type |-> "garbled", topic |-> NoTopic, form |-> "garbled"]
    /\ UNCHANGED <<appVars, up, down, serverVars, withdrawn>>

Next ==
    \/ Login
    \/ \E c \in Channels : Subscribe(c) \/ RegisterFunc(c) \/ Unsubscribe(c)
    \/ SendOrder
    \/ Ping
    \/ Serve
    \/ Publish
    \/ Run
    \/ RunGarbled

Spec == Init /\ [][Next]_vars

\* The server answers what it receives and the reader reads on.
FairSpec == Spec /\ WF_vars(Serve) /\ WF_vars(Run)

------------------------------------------------------------------------------
(* Properties *)

Ends ==
    {"auth_failed", "func_not_found", "unexpected_response", "handler_failed", "malformed",
     "panic"}

\* Every variable has its type, and the registry holds channels of the service.
TypeOK ==
    /\ service \in Services
    /\ creds \in Credentials
    /\ handlers \subseteq {c \in Channels : c.stream.service = service}
    /\ calls \in 0..MaxCalls
    /\ Len(up) <= MaxQueue /\ Len(down) <= MaxQueue
    /\ authed \in BOOLEAN
    /\ streamed \subseteq Channels
    /\ reader \in {"running"} \cup Ends
    /\ refused \subseteq {"auth", "sub", "cancel", "order"}

\* What a handler gets was sent for the channel it is registered for, and is
\* data; the public spot services alone hand it replies as well, the first any,
\* the second that to a cancellation which it overtook by subscribing again.
OwnHandler ==
    "to" \in DOMAIN delivered =>
        /\ delivered.topic = Topic(delivered.to)
        /\ \/ delivered.type = "data"
           \/ service = "spot_public_v1"
           \/ service = "spot_public_v2" /\ delivered.type = "cancel"

\* The reader ends for a cause that its service knows: a refusal, on those that
\* look at refusals; a message for a channel the application gave up, or never
\* registered where the server streams without being asked; a batch of private
\* spot events; a message that cannot be unmarshalled, or data of a stream of the
\* service that cannot; a handler.  A panic takes a refusal without its text or a
\* private spot event without its name.
EndExplained ==
    /\ reader = "auth_failed" => service \in WithLogin /\ refused \ {"order"} # {}
    /\ reader = "func_not_found" =>
          \/ \E c \in withdrawn : Topic(c) = delivered.topic
          \/ service = "spot_private" /\ handlers = {}
    /\ reader = "unexpected_response" => service = "spot_private"
    /\ reader = "malformed" =>
          \/ delivered.form = "garbled"
          \/ /\ delivered.form = "mistyped"
             /\ \E c \in Channels : c.stream.service = service /\ Topic(c) = delivered.topic
    /\ reader = "panic" =>
          /\ delivered.form = "bare"
          /\ \/ service \in {"v5_private", "v5_trade"} /\ refused \ {"order"} # {}
             \/ service = "spot_private" /\ delivered.type = "data"

\* A login that leaves carries the signature of the credentials that were
\* configured last.
AuthVerifies ==
    \A i \in DOMAIN up : up[i].op = "auth" => up[i].by = up[i].key

\* On the services with a login a refusal, of the login or of a subscription,
\* ends the reader, and Start with it; refused orders are not noticed.
RefusalSurfaces ==
    service \in WithLogin /\ refused \ {"order"} # {} ~> reader # "running"
=============================================================================
