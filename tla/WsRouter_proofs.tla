--------------------------- MODULE WsRouter_proofs ---------------------------
(***************************************************************************)
(* WsRouter, for any services, channels and bounds: a handler gets what is *)
(* its own, the end of the reader has one of its causes, and a login is    *)
(* signed by the credentials it names.                                     *)
(***************************************************************************)
EXTENDS WsRouter, SequenceTheorems, TLAPS

(***************************************************************************)
(* The invariant.  What is on its way: a request about a channel concerns  *)
(* one that the application registered at some time, and a message with a  *)
(* topic came of such a request; the private spot service alone streams    *)
(* what was never asked for, and it has one channel.                       *)
(***************************************************************************)
Topics == {Topic(c) : c \in Channels}

Requests ==
    [op : {"auth"}, topic : {NoTopic}, key : {"", "hmacKey", "rsaKey"},
     by : {"", "hmacKey", "rsaKey"}]
        \cup [op : {"sub", "cancel"}, topic : Topics]
        \cup [op : {"order", "ping"}, topic : {NoTopic}]

Messages ==
    [type : {"data", "pong", "order", "auth", "sub", "cancel"},
     topic : Topics \cup {NoTopic}, success : BOOLEAN, rows : {1, 2}]

OfService == {c \in Channels : c.stream.service = service}

\* The topic of a channel that is, or was, registered; spot private streams any.
Known(topic) ==
    \E c \in OfService :
        /\ topic = Topic(c)
        /\ service = "spot_private" \/ c \in handlers \cup withdrawn

RequestInv(r) ==
    /\ r.op = "auth" => service \in WithLogin /\ r.by = r.key
    /\ r.op \in {"sub", "cancel"} => service # "spot_private" /\ Known(r.topic)
    /\ r.op = "order" => service = "v5_trade"
    /\ r.op = "ping" => service \in V5Services

Echoing == {"spot_public_v1", "spot_public_v2"}

MessageInv(m) ==
    /\ m.topic # NoTopic => Known(m.topic) /\ m.type \in {"data", "sub", "cancel"}
    /\ m.topic # NoTopic /\ m.type # "data" => service \in Echoing
    /\ ~m.success => m.type \in refused \ {"order"}
    /\ m.type = "data" => m.topic # NoTopic
    /\ service = "spot_private" => m.type \in {"auth", "data"}

TypeInv ==
    /\ service \in Services
    /\ creds \in Credentials
    /\ handlers \subseteq OfService
    /\ calls \in 0..MaxCalls
    /\ up \in Seq(Requests) /\ Len(up) <= MaxQueue
    /\ down \in Seq(Messages) /\ Len(down) <= MaxQueue
    /\ authed \in BOOLEAN
    /\ streamed \subseteq OfService
    /\ reader \in {"running"} \cup Ends
    /\ withdrawn \subseteq OfService
    /\ refused \subseteq {"auth", "sub", "cancel", "order"}

WireInv ==
    /\ \A i \in 1..Len(up) : RequestInv(up[i])
    /\ \A i \in 1..Len(down) : MessageInv(down[i])
    /\ \A c \in streamed : Known(Topic(c))

IInv == TypeInv /\ WireInv /\ OwnHandler /\ EndExplained

------------------------------------------------------------------------------
(* Channels, their topics and their keys *)

LEMMA StreamKinds ==
    ASSUME NEW s \in Streams
    PROVE  \/ s = OrderBook \/ s = Kline \/ s = Ticker \/ s = Trade \/ s = Liquidation
           \/ s = AllLiquidation \/ s = Order \/ s = Position \/ s = Execution \/ s = Wallet
           \/ s = SpotTradeV1 \/ s = SpotTradeV2 \/ s = OutboundAccountInfo
BY DEF Streams, PublicStreams, PrivateStreams

\* What stands between the dots of a topic.
Words == STRING \cup {s.name : s \in Streams}

\* A stream has its service and its arity.
IsStream(s) ==
    /\ s.arity \in Nat
    /\ s.service \in {"v5_public", "v5_private", "spot_public_v1", "spot_public_v2",
                      "spot_private"}

HasFields(s, svc, name, arity) == s.service = svc /\ s.name = name /\ s.arity = arity

LEMMA FieldsOf ==
    ASSUME NEW svc, NEW name, NEW arity
    PROVE  HasFields(Stream(svc, name, arity), svc, name, arity)
BY DEF HasFields, Stream

\* The streams of the public service.
LEMMA PublicFields ==
    /\ HasFields(OrderBook, "v5_public", "orderbook", 2)
    /\ HasFields(Kline, "v5_public", "kline", 2)
    /\ HasFields(Ticker, "v5_public", "tickers", 1)
    /\ HasFields(Trade, "v5_public", "publicTrade", 1)
    /\ HasFields(Liquidation, "v5_public", "liquidation", 1)
    /\ HasFields(AllLiquidation, "v5_public", "allLiquidation", 1)
BY FieldsOf DEF OrderBook, Kline, Ticker, Trade, Liquidation, AllLiquidation

\* The streams of the private service.
LEMMA PrivateFields ==
    /\ HasFields(Order, "v5_private", "order", 0)
    /\ HasFields(Position, "v5_private", "position", 0)
    /\ HasFields(Execution, "v5_private", "execution", 0)
    /\ HasFields(Wallet, "v5_private", "wallet", 0)
BY FieldsOf DEF Order, Position, Execution, Wallet

\* The streams of the spot services.
LEMMA SpotFields ==
    /\ HasFields(SpotTradeV1, "spot_public_v1", "trade", 1)
    /\ HasFields(SpotTradeV2, "spot_public_v2", "trade", 1)
    /\ HasFields(OutboundAccountInfo, "spot_private", "outboundAccountInfo", 0)
BY FieldsOf DEF SpotTradeV1, SpotTradeV2, OutboundAccountInfo

LEMMA StreamType ==
    ASSUME NEW s \in Streams
    PROVE  IsStream(s)
BY StreamKinds, PublicFields, PrivateFields, SpotFields DEF HasFields, IsStream

LEMMA ChannelType ==
    ASSUME NEW c \in Channels
    PROVE  /\ c.stream \in Streams
           /\ c.key \in Seq(Words) /\ Len(c.key) = c.stream.arity
           /\ c = Channel(c.stream, c.key)
           /\ \A i \in 1..Len(c.key) : \A s \in Streams : c.key[i] # s.name
<1>1. c.key \in Seq(STRING \ {s.name : s \in Streams})
  BY ChannelsAssumption
<1>2. ASSUME NEW i \in 1..Len(c.key)
      PROVE  c.key[i] \in STRING \ {s.name : s \in Streams}
  BY <1>1, ElementOfSeq
<1>3. c.key \in Seq(Words)
  BY <1>1, SeqMonotonic DEF Words
<1>4. ASSUME NEW i \in 1..Len(c.key)
      PROVE  \A s \in Streams : c.key[i] # s.name
  BY <1>2
<1> QED BY <1>3, <1>4, ChannelsAssumption

LEMMA TopicShape ==
    ASSUME NEW c \in Channels
    PROVE  /\ Topic(c) \in Seq(Words) /\ Topic(c) # NoTopic
           /\ Len(Topic(c)) = c.stream.arity + 1
           /\ Topic(c)[1] = c.stream.name
           /\ Tail(Topic(c)) = c.key
           /\ \A i \in 1..Len(c.key) : Topic(c)[i + 1] = c.key[i]
<1>1. c.stream.name \in Words /\ c.stream.arity \in Nat
      /\ c.key \in Seq(Words) /\ Len(c.key) = c.stream.arity
  BY ChannelType, StreamType DEF IsStream, Words
<1> DEFINE n == c.stream.name
           k == c.key
<1>2. Topic(c) = <<n>> \o k
  BY DEF Topic
<1> HIDE DEF n, k
<1>3. n \in Words /\ k \in Seq(Words)
  BY <1>1 DEF n, k
<1>4. /\ <<n>> \o k \in Seq(Words) /\ Len(<<n>> \o k) = Len(k) + 1
      /\ (<<n>> \o k)[1] = n
      /\ \A i \in 1..Len(k) : (<<n>> \o k)[i + 1] = k[i]
  <2>1. <<n>> \in Seq(Words) /\ Len(<<n>>) = 1 /\ <<n>>[1] = n /\ Len(k) \in Nat
    <3>1. <<n>> = Append(<<>>, n)
      OBVIOUS
    <3> QED BY <1>3, <3>1, EmptySeq, AppendProperties, LenProperties
  <2>2. /\ <<n>> \o k \in Seq(Words) /\ Len(<<n>> \o k) = 1 + Len(k)
        /\ \A i \in 1..1 + Len(k) :
              (<<n>> \o k)[i] = IF i <= 1 THEN <<n>>[i] ELSE k[i - 1]
    BY <1>3, <2>1, ConcatProperties
  <2>3. (<<n>> \o k)[1] = n
    BY <2>1, <2>2
  <2>4. ASSUME NEW i \in 1..Len(k) PROVE (<<n>> \o k)[i + 1] = k[i]
    BY <2>1, <2>2
  <2> QED BY <2>1, <2>2, <2>3, <2>4
<1>5. Tail(<<n>> \o k) = k
  BY <1>3, <1>4
<1>6. <<n>> \o k # <<>>
  BY <1>4, <1>3
<1> QED BY <1>1, <1>2, <1>4, <1>5, <1>6 DEF n, k, NoTopic

\* The key that is read from a topic is that of the channel it was written from.
LEMMA KeyOfTopic ==
    ASSUME NEW c \in Channels
    PROVE  Channel(c.stream, Key(c.stream, Topic(c))) = c
BY TopicShape, ChannelType DEF Key

\* A topic names one stream of its service: the one it starts with.
LEMMA TopicContains ==
    ASSUME NEW c \in Channels, NEW s \in Streams
    PROVE  Contains(Topic(c), s.name) <=> s.name = c.stream.name
<1>1. Len(Topic(c)) = Len(c.key) + 1 /\ Len(c.key) \in Nat /\ DOMAIN Topic(c) = 1..Len(Topic(c))
  BY TopicShape, ChannelType, StreamType, LenProperties DEF IsStream
<1>2. ASSUME NEW i \in DOMAIN Topic(c), i # 1
      PROVE  Topic(c)[i] # s.name
  <2>1. i - 1 \in 1..Len(c.key) /\ i = (i - 1) + 1
    BY <1>1, <1>2
  <2>2. Topic(c)[(i - 1) + 1] = c.key[i - 1]
    BY <2>1, TopicShape
  <2> QED BY <2>1, <2>2, ChannelType
<1>3. 1 \in DOMAIN Topic(c) /\ Topic(c)[1] = c.stream.name
  BY <1>1, TopicShape
<1> QED BY <1>2, <1>3 DEF Contains

------------------------------------------------------------------------------
(* The dispatch *)

LEMMA PublicKinds ==
    ASSUME NEW s \in Streams, s.service = "v5_public"
    PROVE  \/ s = OrderBook \/ s = Kline \/ s = Ticker \/ s = Trade \/ s = Liquidation
           \/ s = AllLiquidation
BY StreamKinds, PrivateFields, SpotFields DEF HasFields

LEMMA PublicOrder ==
    /\ DOMAIN PublicStreams = 1..6
    /\ PublicStreams[1] = OrderBook /\ PublicStreams[2] = Kline /\ PublicStreams[3] = Ticker
    /\ PublicStreams[4] = Trade /\ PublicStreams[5] = Liquidation
    /\ PublicStreams[6] = AllLiquidation
BY DEF PublicStreams

LEMMA PublicNames ==
    /\ \A i \in 1..6 : PublicStreams[i] \in Streams
    /\ \A i, j \in 1..6 : PublicStreams[i].name = PublicStreams[j].name => i = j
<1>1. \A i \in 1..6 : PublicStreams[i] \in Streams
  BY PublicOrder DEF Streams
<1>2. \A i \in 1..6 : i \in {1, 2, 3, 4, 5, 6}
  OBVIOUS
<1>3. \A i, j \in {1, 2, 3, 4, 5, 6} :
        PublicStreams[i].name = PublicStreams[j].name => i = j
  BY PublicOrder, PublicFields DEF HasFields
<1> QED BY <1>1, <1>2, <1>3

LEMMA PrivateKinds ==
    ASSUME NEW s \in Streams, s.service = "v5_private"
    PROVE  s \in PrivateStreams /\ s.arity = 0
<1>1. s = Order \/ s = Position \/ s = Execution \/ s = Wallet
  BY StreamKinds, PublicFields, SpotFields DEF HasFields
<1> QED BY <1>1, PrivateFields DEF HasFields, PrivateStreams

LEMMA PrivateNames ==
    ASSUME NEW s \in PrivateStreams, NEW t \in PrivateStreams, s.name = t.name
    PROVE  s = t
BY PrivateFields DEF HasFields, PrivateStreams

LEMMA SpotKinds ==
    ASSUME NEW s \in Streams
    PROVE  /\ s.service = "spot_public_v1" => s = SpotTradeV1
           /\ s.service = "spot_public_v2" => s = SpotTradeV2
           /\ s.service = "spot_private" => s = OutboundAccountInfo /\ s.arity = 0
BY StreamKinds, PublicFields, PrivateFields, SpotFields DEF HasFields

\* A message about a channel that can be parsed goes to its handler, or to none.
LEMMA Handed ==
    ASSUME NEW c \in Channels, NEW form
    PROVE  /\ form = "mistyped" => Hand(c.stream, Topic(c), form) = End("malformed")
           /\ form # "mistyped" =>
                 Hand(c.stream, Topic(c), form) =
                    IF c \in handlers THEN [do |-> "hand", channel |-> c]
                    ELSE End("func_not_found")
BY KeyOfTopic DEF Hand

\* judgeTopic of the public service finds the stream of the topic and no other.
LEMMA PublicJudged ==
    ASSUME NEW c \in Channels, c.stream.service = "v5_public", NEW m, m.topic = Topic(c),
           NEW form
    PROVE  JudgePublic(m, form) = Hand(c.stream, Topic(c), form)
<1> DEFINE found == {i \in DOMAIN PublicStreams : Contains(m.topic, PublicStreams[i].name)}
<1>1. PICK n \in 1..6 : c.stream = PublicStreams[n]
  BY PublicKinds, PublicOrder, ChannelType
<1>2. ASSUME NEW i \in 1..6
      PROVE  Contains(m.topic, PublicStreams[i].name) <=> i = n
  BY <1>1, PublicNames, TopicContains
<1>3. found = {n}
  BY <1>2, PublicOrder
<1>4. (CHOOSE i \in {n} : \A j \in {n} : i <= j) = n
  OBVIOUS
<1> QED BY <1>1, <1>3, <1>4 DEF JudgePublic

LEMMA PrivateJudged ==
    ASSUME NEW c \in Channels, c.stream.service = "v5_private", NEW m, m.topic = Topic(c),
           NEW form
    PROVE  JudgePrivate(m, form) = Hand(c.stream, Topic(c), form)
<1> DEFINE found == {s \in PrivateStreams : m.topic = <<s.name>>}
<1>1. c.stream \in PrivateStreams /\ c.stream.arity = 0
  BY PrivateKinds, ChannelType
<1>2. Topic(c)[1] = c.stream.name
  BY TopicShape
<1>3. Topic(c) = <<c.stream.name>>
  <2>1. Len(Topic(c)) = 1 /\ Topic(c) \in Seq(Words)
    <3>1. Len(Topic(c)) = c.stream.arity + 1 /\ Topic(c) \in Seq(Words)
      BY TopicShape
    <3> QED BY <1>1, <3>1
  <2>2. DOMAIN Topic(c) = 1..1 /\ Topic(c) = [i \in 1..1 |-> Topic(c)[i]]
    BY <2>1, LenProperties
  <2>3. <<c.stream.name>> = [i \in 1..1 |-> c.stream.name]
    OBVIOUS
  <2>4. [i \in 1..1 |-> Topic(c)[i]] = [i \in 1..1 |-> c.stream.name]
    BY <1>2
  <2> QED BY <2>2, <2>3, <2>4
<1>4. ASSUME NEW s \in PrivateStreams
      PROVE  m.topic = <<s.name>> <=> s = c.stream
  <2>1. <<s.name>>[1] = s.name
    OBVIOUS
  <2> QED BY <1>1, <1>2, <1>3, <2>1, PrivateNames
<1>5. found = {c.stream}
  BY <1>1, <1>4
<1>6. (CHOOSE s \in found : TRUE) = c.stream
  BY <1>5
<1> QED BY <1>5, <1>6 DEF JudgePrivate

\* What a service makes of a message with a topic.
LEMMA TopicDispatched ==
    ASSUME TypeInv, NEW m \in Messages, MessageInv(m), NEW c \in OfService, m.topic = Topic(c),
           NEW form
    PROVE  \/ Dispatch(m, form) = Skip
           \/ /\ Dispatch(m, form) = Hand(c.stream, Topic(c), form)
              /\ \/ m.type = "data"
                 \/ service = "spot_public_v1"
                 \/ service = "spot_public_v2" /\ m.type = "cancel"
           \/ service = "spot_private" /\ Dispatch(m, form) = End("unexpected_response")
           \/ /\ service = "spot_private" /\ m.type = "data" /\ form = "bare"
              /\ Dispatch(m, form) = End("panic")
<1>1. c \in Channels /\ c.stream \in Streams /\ c.stream.service = service
      /\ m.topic # NoTopic /\ m.type \in {"data", "sub", "cancel"}
  BY ChannelType, TopicShape DEF OfService, MessageInv
<1>2. CASE service = "v5_public"
  BY <1>1, <1>2, PublicJudged DEF Dispatch, RunPublic, MessageInv, Echoing
<1>3. CASE service = "v5_private"
  <2>1. m.type = "data"
    BY <1>1, <1>3 DEF MessageInv, Echoing
  <2>2. Dispatch(m, form) = JudgePrivate(m, form)
    BY <1>1, <1>3, <2>1 DEF Dispatch, RunPrivate
  <2> QED BY <1>1, <1>3, <2>1, <2>2, PrivateJudged
<1>4. CASE service = "spot_public_v1"
  BY <1>1, <1>4, SpotKinds DEF Dispatch, RunSpotV1
<1>5. CASE service = "spot_public_v2"
  BY <1>1, <1>5, SpotKinds DEF Dispatch, RunSpotV2
<1>6. CASE service = "spot_private"
  <2>1. m.type = "data" /\ c.stream = OutboundAccountInfo
    BY <1>1, <1>6, SpotKinds DEF MessageInv, Echoing
  <2>2. Dispatch(m, form) = RunSpotPrivate(m, form)
    BY <1>6 DEF Dispatch
  <2>3. CASE m.rows # 1
    BY <1>6, <2>1, <2>2, <2>3 DEF RunSpotPrivate
  <2>4. CASE m.rows = 1
    <3>1. RunSpotPrivate(m, form) = IF form = "bare" THEN End("panic")
                                    ELSE Hand(OutboundAccountInfo, m.topic, form)
      BY <2>1, <2>4 DEF RunSpotPrivate
    <3> QED BY <1>6, <2>1, <2>2, <3>1
  <2> QED BY <2>3, <2>4
<1> QED BY <1>1, <1>2, <1>3, <1>4, <1>5, <1>6, StreamType DEF IsStream

\* ... and of one without.
LEMMA RestDispatched ==
    ASSUME TypeInv, NEW m \in Messages, MessageInv(m), m.topic = NoTopic, NEW form
    PROVE  \/ Dispatch(m, form) = Skip
           \/ Dispatch(m, form) = Answer
           \/ Dispatch(m, form) = End("auth_failed") /\ service \in WithLogin /\ ~m.success
           \/ /\ Dispatch(m, form) = End("panic") /\ form = "bare" /\ ~m.success
              /\ service \in {"v5_private", "v5_trade"}
<1>1. m.type # "data"
  BY DEF MessageInv
<1>2. Refused(form) = End("auth_failed") \/ (form = "bare" /\ Refused(form) = End("panic"))
  BY DEF Refused
<1>3. CASE service = "v5_public"
  BY <1>3 DEF Dispatch, RunPublic
<1>4. CASE service = "v5_private"
  <2>1. Dispatch(m, form) = RunPrivate(m, form)
    BY <1>4 DEF Dispatch
  <2>2. CASE m.type = "pong"
    BY <2>1, <2>2 DEF RunPrivate
  <2>3. CASE m.type # "pong"
    <3>1. Dispatch(m, form) = IF m.success THEN Skip ELSE Refused(form)
      BY <2>1, <2>3 DEF RunPrivate
    <3> QED BY <1>2, <1>4, <3>1 DEF WithLogin
  <2> QED BY <2>2, <2>3
<1>5. CASE service = "v5_trade"
  <2>1. Dispatch(m, form) = RunTrade(m, form)
    BY <1>5 DEF Dispatch
  <2>2. CASE m.type = "pong"
    BY <2>1, <2>2 DEF RunTrade
  <2>3. CASE m.type # "pong" /\ ~m.success
    <3>1. Dispatch(m, form) = Refused(form)
      BY <2>1, <2>3 DEF RunTrade
    <3> QED BY <1>2, <1>5, <2>3, <3>1 DEF WithLogin
  <2>4. CASE m.type # "pong" /\ m.success
    BY <2>1, <2>4 DEF RunTrade
  <2> QED BY <2>2, <2>3, <2>4
<1>6. CASE service = "spot_public_v1"
  BY <1>6 DEF Dispatch, RunSpotV1
<1>7. CASE service = "spot_public_v2"
  BY <1>7 DEF Dispatch, RunSpotV2
<1>8. CASE service = "spot_private"
  <2>1. m.type = "auth"
    BY <1>1, <1>8 DEF MessageInv
  <2>2. Dispatch(m, form) = IF m.success THEN Skip ELSE End("auth_failed")
    BY <1>8, <2>1 DEF Dispatch, RunSpotPrivate
  <2> QED BY <1>8, <2>2 DEF WithLogin
<1>9. service \in {s.service : s \in Streams} \cup {"v5_trade"}
  BY ServicesAssumption DEF TypeInv
<1> QED BY <1>3, <1>4, <1>5, <1>6, <1>7, <1>8, <1>9, StreamType DEF IsStream

------------------------------------------------------------------------------
(* What is on its way, through a step *)

\* Channels stay registered or withdrawn, and refusals are not forgotten.
Onward ==
    /\ service' = service
    /\ handlers \cup withdrawn \subseteq handlers' \cup withdrawn'
    /\ refused \subseteq refused'

LEMMA KnownKept ==
    ASSUME Onward, NEW t, Known(t)
    PROVE  Known(t)'
BY DEF Onward, Known, OfService

LEMMA RequestKept ==
    ASSUME Onward, NEW r, RequestInv(r)
    PROVE  RequestInv(r)'
BY KnownKept DEF Onward, RequestInv

LEMMA MessageKept ==
    ASSUME Onward, NEW m, MessageInv(m)
    PROVE  MessageInv(m)'
BY KnownKept DEF Onward, MessageInv

RequestsInv(s) == \A i \in 1..Len(s) : RequestInv(s[i])
MessagesInv(s) == \A i \in 1..Len(s) : MessageInv(s[i])

LEMMA RequestsKept ==
    ASSUME Onward, NEW s, RequestsInv(s)
    PROVE  RequestsInv(s)'
BY RequestKept DEF RequestsInv

LEMMA MessagesKept ==
    ASSUME Onward, NEW s, MessagesInv(s)
    PROVE  MessagesInv(s)'
BY MessageKept DEF MessagesInv

\* Sending appends a request, saying a message; serving and reading take the first.
LEMMA RequestSent ==
    ASSUME Onward, NEW s \in Seq(Requests), RequestsInv(s), NEW r \in Requests, RequestInv(r)',
           Len(s) < MaxQueue, NEW t, t = Append(s, r)
    PROVE  t \in Seq(Requests) /\ Len(t) <= MaxQueue /\ RequestsInv(t)'
<1>1. /\ t \in Seq(Requests) /\ Len(t) = Len(s) + 1 /\ Len(s) \in Nat
      /\ \A i \in 1..Len(s) : t[i] = s[i]
      /\ t[Len(s) + 1] = r
  BY AppendProperties, LenProperties
<1>2. ASSUME NEW i \in 1..Len(t) PROVE RequestInv(t[i])'
  <2>1. CASE i = Len(s) + 1
    BY <1>1, <2>1
  <2>2. CASE i # Len(s) + 1
    <3>1. i \in 1..Len(s)
      BY <1>1, <2>2
    <3> QED BY <1>1, <3>1, RequestKept DEF RequestsInv
  <2> QED BY <2>1, <2>2
<1> QED BY <1>1, <1>2, RouterAssumption DEF RequestsInv

LEMMA MessageSaid ==
    ASSUME Onward, NEW s \in Seq(Messages), MessagesInv(s), NEW m \in Messages, MessageInv(m)',
           Len(s) < MaxQueue, NEW t, t = Append(s, m)
    PROVE  t \in Seq(Messages) /\ Len(t) <= MaxQueue /\ MessagesInv(t)'
<1>1. /\ t \in Seq(Messages) /\ Len(t) = Len(s) + 1 /\ Len(s) \in Nat
      /\ \A i \in 1..Len(s) : t[i] = s[i]
      /\ t[Len(s) + 1] = m
  BY AppendProperties, LenProperties
<1>2. ASSUME NEW i \in 1..Len(t) PROVE MessageInv(t[i])'
  <2>1. CASE i = Len(s) + 1
    BY <1>1, <2>1
  <2>2. CASE i # Len(s) + 1
    <3>1. i \in 1..Len(s)
      BY <1>1, <2>2
    <3> QED BY <1>1, <3>1, MessageKept DEF MessagesInv
  <2> QED BY <2>1, <2>2
<1> QED BY <1>1, <1>2, RouterAssumption DEF MessagesInv

LEMMA RequestTaken ==
    ASSUME Onward, NEW s \in Seq(Requests), s # <<>>, RequestsInv(s), Len(s) <= MaxQueue,
           NEW t, t = Tail(s)
    PROVE  /\ Head(s) \in Requests /\ RequestInv(Head(s))
           /\ t \in Seq(Requests) /\ Len(t) <= MaxQueue /\ RequestsInv(t)'
<1>1. /\ t \in Seq(Requests) /\ Len(t) = Len(s) - 1 /\ Len(s) \in Nat /\ Len(s) # 0
      /\ \A i \in 1..Len(t) : t[i] = s[i + 1]
  BY HeadTailProperties, LenProperties, EmptySeq
<1>2. Head(s) \in Requests /\ Head(s) = s[1]
  BY HeadTailProperties, <1>1
<1>3. RequestInv(Head(s))
  BY <1>1, <1>2 DEF RequestsInv
<1>4. ASSUME NEW i \in 1..Len(t) PROVE RequestInv(t[i])'
  <2>1. i + 1 \in 1..Len(s)
    BY <1>1
  <2> QED BY <1>1, <2>1, RequestKept DEF RequestsInv
<1> QED BY <1>1, <1>2, <1>3, <1>4, RouterAssumption DEF RequestsInv

LEMMA MessageTaken ==
    ASSUME Onward, NEW s \in Seq(Messages), s # <<>>, MessagesInv(s), Len(s) <= MaxQueue,
           NEW t, t = Tail(s)
    PROVE  /\ Head(s) \in Messages /\ MessageInv(Head(s))
           /\ t \in Seq(Messages) /\ Len(t) <= MaxQueue /\ MessagesInv(t)'
<1>1. /\ t \in Seq(Messages) /\ Len(t) = Len(s) - 1 /\ Len(s) \in Nat /\ Len(s) # 0
      /\ \A i \in 1..Len(t) : t[i] = s[i + 1]
  BY HeadTailProperties, LenProperties, EmptySeq
<1>2. Head(s) \in Messages /\ Head(s) = s[1]
  BY HeadTailProperties, <1>1
<1>3. MessageInv(Head(s))
  BY <1>1, <1>2 DEF MessagesInv
<1>4. ASSUME NEW i \in 1..Len(t) PROVE MessageInv(t[i])'
  <2>1. i + 1 \in 1..Len(s)
    BY <1>1
  <2> QED BY <1>1, <2>1, MessageKept DEF MessagesInv
<1> QED BY <1>1, <1>2, <1>3, <1>4, RouterAssumption DEF MessagesInv

\* What the reader has done stays explained.
LEMMA ReaderKept ==
    ASSUME IInv, Onward, reader' = reader, delivered' = delivered,
           withdrawn \subseteq withdrawn', reader = "running" \/ handlers' = handlers
    PROVE  OwnHandler' /\ EndExplained'
<1>1. OwnHandler'
  BY DEF IInv, OwnHandler, Onward
<1>2. EndExplained'
  BY DEF IInv, EndExplained, Onward
<1> QED BY <1>1, <1>2

------------------------------------------------------------------------------
(* The application *)

\* A step of the application that sends r.
LEMMA SendStep ==
    ASSUME IInv, Onward, NEW r \in Requests, RequestInv(r)', Write(r),
           UNCHANGED <<creds, down, serverVars, readerVars>>,
           withdrawn \subseteq withdrawn', withdrawn' \subseteq OfService,
           handlers' \subseteq OfService, calls' \in 0..MaxCalls
    PROVE  IInv'
<1> USE DEF serverVars, readerVars
<1>1. reader = "running" /\ Len(up) < MaxQueue /\ up' = Append(up, r)
  BY DEF Write
<1>2. up' \in Seq(Requests) /\ Len(up') <= MaxQueue /\ RequestsInv(up)'
  <2>1. up \in Seq(Requests) /\ RequestsInv(up)
    BY DEF IInv, TypeInv, WireInv, RequestsInv
  <2>2. PICK t : t = up'
    OBVIOUS
  <2>3. t \in Seq(Requests) /\ Len(t) <= MaxQueue /\ RequestsInv(t)'
    BY <1>1, <2>1, <2>2, RequestSent
  <2> QED BY <2>2, <2>3 DEF RequestsInv
<1>3. MessagesInv(down)'
  <2>1. PICK t : t = down
    OBVIOUS
  <2>2. MessagesInv(t)
    BY <2>1 DEF IInv, WireInv, MessagesInv
  <2>3. MessagesInv(t)'
    BY <2>2, MessagesKept
  <2>4. down' = t
    BY <2>1
  <2> QED BY <2>3, <2>4 DEF MessagesInv
<1>4. TypeInv'
  BY <1>1, <1>2 DEF IInv, TypeInv, Onward, OfService
<1>5. WireInv'
  <2>1. \A c \in streamed' : Known(Topic(c))'
    BY KnownKept DEF IInv, WireInv
  <2> QED BY <1>2, <1>3, <2>1 DEF WireInv, RequestsInv, MessagesInv
<1>6. OwnHandler' /\ EndExplained'
  BY <1>1, ReaderKept
<1> QED BY <1>4, <1>5, <1>6 DEF IInv

LEMMA CredentialKinds ==
    ASSUME creds \in Credentials, HasAuth
    PROVE  /\ AuthParam \in Requests /\ AuthParam.op = "auth"
           /\ AuthParam.by = AuthParam.key
<1>1. \/ creds.key = "hmacKey" /\ creds.secret = "hmacKey" /\ creds.useRSA = FALSE
      \/ creds.key = "rsaKey" /\ creds.privateKey = "rsaKey" /\ creds.useRSA = TRUE
  <2>1. creds # NoCredentials
    <3>1. NoCredentials.key = ""
      BY DEF NoCredentials
    <3> QED BY <3>1 DEF HasAuth
  <2> QED BY <2>1 DEF Credentials
<1> QED BY <1>1 DEF AuthParam, Requests

LEMMA LoginStep ==
    ASSUME IInv, Login
    PROVE  IInv'
<1>1. Onward /\ calls' \in 0..MaxCalls
  BY RouterAssumption DEF Login, Onward, serverVars, Count, IInv, TypeInv
<1>2. PICK r : r = AuthParam
  OBVIOUS
<1>3. r \in Requests /\ r.op = "auth" /\ r.by = r.key
  BY <1>2, CredentialKinds DEF Login, IInv, TypeInv
<1>4. RequestInv(r)'
  BY <1>3 DEF RequestInv, Login
<1>5. Write(r)
  BY <1>2 DEF Login
<1> QED BY <1>1, <1>3, <1>4, <1>5, SendStep DEF Login, IInv, TypeInv

LEMMA TopicRequest ==
    ASSUME NEW c \in Channels, NEW op \in {"sub", "cancel"}
    PROVE  [op |-> op, topic |-> Topic(c)] \in Requests
BY DEF Requests, Topics

LEMMA SubscribeStep ==
    ASSUME IInv, NEW c \in Channels, Subscribe(c)
    PROVE  IInv'
<1> DEFINE r == [op |-> "sub", topic |-> Topic(c)]
<1>1. Onward /\ calls' \in 0..MaxCalls
  BY RouterAssumption DEF Subscribe, Onward, serverVars, Count, IInv, TypeInv
<1>2. r \in Requests /\ r.op = "sub" /\ r.topic = Topic(c) /\ Write(r)
  BY TopicRequest DEF Subscribe
<1> HIDE DEF r
<1>3. Known(Topic(c))'
  BY DEF Known, OfService, Subscribe
<1>4. RequestInv(r)'
  BY <1>2, <1>3 DEF RequestInv, Subscribe
<1>5. handlers' \subseteq OfService /\ withdrawn' = withdrawn /\ withdrawn \subseteq OfService
  BY DEF Subscribe, IInv, TypeInv, OfService
<1> QED BY <1>1, <1>2, <1>4, <1>5, SendStep DEF Subscribe

LEMMA UnsubscribeStep ==
    ASSUME IInv, NEW c \in Channels, Unsubscribe(c)
    PROVE  IInv'
<1> DEFINE r == [op |-> "cancel", topic |-> Topic(c)]
<1>1. Onward /\ calls' = calls /\ calls \in 0..MaxCalls
  BY DEF Unsubscribe, Onward, serverVars, IInv, TypeInv
<1>2. r \in Requests /\ r.op = "cancel" /\ r.topic = Topic(c) /\ Write(r)
  BY TopicRequest DEF Unsubscribe
<1> HIDE DEF r
<1>3. Known(Topic(c))'
  BY DEF Known, OfService, Unsubscribe, IInv, TypeInv
<1>4. RequestInv(r)'
  BY <1>2, <1>3 DEF RequestInv, Unsubscribe
<1>5. handlers' \subseteq OfService /\ withdrawn \subseteq withdrawn'
      /\ withdrawn' \subseteq OfService
  BY DEF Unsubscribe, IInv, TypeInv, OfService
<1> QED BY <1>1, <1>2, <1>4, <1>5, SendStep DEF Unsubscribe

LEMMA SendOrderStep ==
    ASSUME IInv, SendOrder
    PROVE  IInv'
<1> DEFINE r == [op |-> "order", topic |-> NoTopic]
<1>1. Onward /\ calls' \in 0..MaxCalls
  BY RouterAssumption DEF SendOrder, Onward, serverVars, Count, IInv, TypeInv
<1>2. r \in Requests /\ r.op = "order" /\ Write(r)
  BY DEF SendOrder, Requests
<1> HIDE DEF r
<1>3. RequestInv(r)'
  BY <1>2 DEF RequestInv, SendOrder
<1> QED BY <1>1, <1>2, <1>3, SendStep DEF SendOrder, IInv, TypeInv

LEMMA PingStep ==
    ASSUME IInv, Ping
    PROVE  IInv'
<1> DEFINE r == [op |-> "ping", topic |-> NoTopic]
<1>1. Onward
  BY DEF Ping, Onward, serverVars, appVars
<1>2. r \in Requests /\ r.op = "ping" /\ Write(r)
  BY DEF Ping, Requests
<1> HIDE DEF r
<1>3. RequestInv(r)'
  BY <1>2 DEF RequestInv, Ping, appVars
<1> QED BY <1>1, <1>2, <1>3, SendStep DEF Ping, IInv, TypeInv, appVars

\* A step that sends nothing and takes nothing off the wires.
LEMMA QuietStep ==
    ASSUME IInv, Onward, UNCHANGED <<creds, up, down, serverVars, readerVars, withdrawn>>,
           handlers' \subseteq OfService, calls' \in 0..MaxCalls,
           reader = "running" \/ handlers' = handlers
    PROVE  IInv'
<1> USE DEF serverVars, readerVars
<1>1. TypeInv'
  BY DEF IInv, TypeInv, Onward, OfService
<1>2. WireInv'
  <2>1. PICK u, d : u = up /\ d = down
    OBVIOUS
  <2>2. RequestsInv(u) /\ MessagesInv(d)
    BY <2>1 DEF IInv, WireInv, RequestsInv, MessagesInv
  <2>3. RequestsInv(u)' /\ MessagesInv(d)'
    BY <2>2, RequestsKept, MessagesKept
  <2>4. up' = u /\ down' = d
    BY <2>1
  <2>5. \A c \in streamed' : Known(Topic(c))'
    BY KnownKept DEF IInv, WireInv
  <2> QED BY <2>3, <2>4, <2>5 DEF WireInv, RequestsInv, MessagesInv
<1>3. OwnHandler' /\ EndExplained'
  BY ReaderKept
<1> QED BY <1>1, <1>2, <1>3 DEF IInv

LEMMA RegisterFuncStep ==
    ASSUME IInv, NEW c \in Channels, RegisterFunc(c)
    PROVE  IInv'
<1>1. Onward /\ calls' \in 0..MaxCalls
  BY RouterAssumption DEF RegisterFunc, Onward, serverVars, Count, IInv, TypeInv
<1>2. handlers' \subseteq OfService
  BY DEF RegisterFunc, IInv, TypeInv, OfService
<1> QED BY <1>1, <1>2, QuietStep DEF RegisterFunc

LEMMA StutterStep ==
    ASSUME IInv, UNCHANGED vars
    PROVE  IInv'
<1>1. Onward
  BY DEF vars, appVars, serverVars, Onward
<1> QED BY <1>1, QuietStep DEF vars, appVars, IInv, TypeInv

------------------------------------------------------------------------------
(* The server *)

\* A step of the server that says m and takes requests off the wire, or none.
LEMMA SayStep ==
    ASSUME IInv, Onward, NEW m \in Messages, MessageInv(m)', Say(m),
           UNCHANGED <<appVars, readerVars, withdrawn>>,
           up' \in Seq(Requests), Len(up') <= MaxQueue, RequestsInv(up)',
           authed' \in BOOLEAN, refused' \subseteq {"auth", "sub", "cancel", "order"},
           \A c \in streamed' : c \in OfService /\ Known(Topic(c))'
    PROVE  IInv'
<1> USE DEF appVars, readerVars
<1>1. Len(down) < MaxQueue /\ down' = Append(down, m)
  BY DEF Say
<1>2. down' \in Seq(Messages) /\ Len(down') <= MaxQueue /\ MessagesInv(down)'
  <2>1. down \in Seq(Messages) /\ MessagesInv(down)
    BY DEF IInv, TypeInv, WireInv, MessagesInv
  <2>2. PICK t : t = down'
    OBVIOUS
  <2>3. t \in Seq(Messages) /\ Len(t) <= MaxQueue /\ MessagesInv(t)'
    BY <1>1, <2>1, <2>2, MessageSaid
  <2> QED BY <2>2, <2>3 DEF MessagesInv
<1>3. TypeInv'
  BY <1>2 DEF IInv, TypeInv, OfService
<1>4. WireInv'
  BY <1>2 DEF WireInv, RequestsInv, MessagesInv
<1>5. OwnHandler' /\ EndExplained'
  BY ReaderKept
<1> QED BY <1>3, <1>4, <1>5 DEF IInv

LEMMA RequestKinds ==
    ASSUME NEW r \in Requests
    PROVE  /\ r.op \in {"auth", "sub", "cancel", "order", "ping"}
           /\ r.topic \in Topics \cup {NoTopic}
           /\ r.op \notin {"sub", "cancel"} => r.topic = NoTopic
BY DEF Requests

\* What the server answers a request with.
LEMMA AnswerKinds ==
    ASSUME NEW r \in Requests, RequestInv(r), service \in Services
    PROVE  /\ Pong \in Messages /\ OrderReply \in Messages
           /\ r.op = "ping" => MessageInv(Pong)
           /\ r.op = "order" => MessageInv(OrderReply)
           /\ r.op \in {"auth", "sub", "cancel"} =>
                 /\ Reply(r.op, Echo(r), TRUE) \in Messages
                 /\ MessageInv(Reply(r.op, Echo(r), TRUE))
<1>1. Pong \in Messages /\ OrderReply \in Messages
  BY DEF Pong, OrderReply, Message, Messages
<1>2. ASSUME r.op = "ping" PROVE MessageInv(Pong)
  <2>1. service # "spot_private"
    BY <1>2 DEF RequestInv, V5Services
  <2>2. Pong.type = "pong" /\ Pong.topic = NoTopic /\ Pong.success
    BY DEF Pong, Message
  <2> QED BY <2>1, <2>2 DEF MessageInv
<1>3. ASSUME r.op = "order" PROVE MessageInv(OrderReply)
  <2>1. service # "spot_private"
    BY <1>3 DEF RequestInv
  <2>2. OrderReply.type = "order" /\ OrderReply.topic = NoTopic /\ OrderReply.success
    BY DEF OrderReply, Message
  <2> QED BY <2>1, <2>2 DEF MessageInv
<1>4. ASSUME r.op \in {"auth", "sub", "cancel"}
      PROVE  Reply(r.op, Echo(r), TRUE) \in Messages /\ MessageInv(Reply(r.op, Echo(r), TRUE))
  <2> DEFINE m == Reply(r.op, Echo(r), TRUE)
  <2>1. Echo(r) \in Topics \cup {NoTopic}
    BY RequestKinds DEF Echo
  <2>2. m \in Messages /\ m.type = r.op /\ m.topic = Echo(r) /\ m.success
    BY <1>4, <2>1 DEF Reply, Messages
  <2> HIDE DEF m
  <2>3. Echo(r) # NoTopic =>
          service \in Echoing /\ Echo(r) = r.topic /\ r.op \in {"sub", "cancel"}
    BY RequestKinds DEF Echo, Echoing
  <2>4. service = "spot_private" => r.op = "auth"
    BY <1>4 DEF RequestInv
  <2>5. r.op \in {"sub", "cancel"} => Known(r.topic)
    BY DEF RequestInv
  <2>6. MessageInv(m)
    BY <1>4, <2>2, <2>3, <2>4, <2>5 DEF MessageInv
  <2> QED BY <2>2, <2>6 DEF m
<1> QED BY <1>1, <1>2, <1>3, <1>4

LEMMA RefusalKinds ==
    ASSUME NEW r \in Requests, RequestInv(r), r.op # "ping", r.op \in refused
    PROVE  /\ r.op # "order" => /\ Reply(r.op, NoTopic, FALSE) \in Messages
                                /\ MessageInv(Reply(r.op, NoTopic, FALSE))
<1> SUFFICES ASSUME r.op # "order"
             PROVE  /\ Reply(r.op, NoTopic, FALSE) \in Messages
                    /\ MessageInv(Reply(r.op, NoTopic, FALSE))
  OBVIOUS
<1> DEFINE m == Reply(r.op, NoTopic, FALSE)
<1>1. r.op \in {"auth", "sub", "cancel"}
  BY RequestKinds
<1>2. m \in Messages /\ m.type = r.op /\ m.topic = NoTopic /\ ~m.success
  BY <1>1 DEF Reply, Messages
<1>3. service = "spot_private" => r.op = "auth"
  BY <1>1 DEF RequestInv
<1> HIDE DEF m
<1>4. MessageInv(m)
  BY <1>1, <1>2, <1>3 DEF MessageInv
<1> QED BY <1>2, <1>4 DEF m

\* What the server streams after it granted r was asked for, or is private spot.
LEMMA StreamedKnown ==
    ASSUME IInv, NEW r \in Requests, RequestInv(r), Onward, Grant(r)
    PROVE  \A c \in streamed' : c \in OfService /\ Known(Topic(c))'
<1>1. \A c \in streamed : c \in OfService /\ Known(Topic(c))'
  BY KnownKept DEF IInv, TypeInv, WireInv
<1>2. CASE r.op = "sub"
  <2>1. streamed' = streamed \cup Requested(r)
    BY <1>2 DEF Grant
  <2>2. ASSUME NEW c \in Requested(r) PROVE c \in OfService /\ Known(Topic(c))'
    <3>1. c \in OfService /\ Topic(c) = r.topic
      BY DEF Requested, OfService
    <3>2. Known(r.topic)
      BY <1>2 DEF RequestInv
    <3>3. Known(Topic(c))
      BY <3>1, <3>2
    <3> QED BY <3>1, <3>3, KnownKept
  <2> QED BY <1>1, <2>1, <2>2
<1>3. CASE r.op = "cancel"
  <2>1. streamed' = streamed \ Requested(r)
    BY <1>3 DEF Grant
  <2> QED BY <1>1, <2>1
<1>4. CASE r.op = "auth" /\ service = "spot_private"
  <2>1. streamed' = OfService
    BY <1>4 DEF Grant, OfService
  <2>2. ASSUME NEW c \in OfService PROVE Known(Topic(c))'
    BY <1>4 DEF Known, OfService, Onward
  <2> QED BY <2>1, <2>2
<1>5. CASE ~(r.op \in {"sub", "cancel"} \/ (r.op = "auth" /\ service = "spot_private"))
  <2>1. streamed' = streamed
    BY <1>5 DEF Grant
  <2> QED BY <1>1, <2>1
<1> QED BY <1>2, <1>3, <1>4, <1>5

LEMMA ServeStep ==
    ASSUME IInv, Serve
    PROVE  IInv'
<1>1. Onward
  BY DEF Serve, Grant, Refuse, Onward, appVars
<1>2. PICK r : r = Head(up)
  OBVIOUS
<1>3. PICK u, t : u = up /\ t = up'
  OBVIOUS
<1>4. u \in Seq(Requests) /\ u # <<>> /\ RequestsInv(u) /\ Len(u) <= MaxQueue
      /\ t = Tail(u) /\ r = Head(u)
  BY <1>2, <1>3 DEF Serve, IInv, TypeInv, WireInv, RequestsInv
<1>5. /\ r \in Requests /\ RequestInv(r)
      /\ t \in Seq(Requests) /\ Len(t) <= MaxQueue /\ RequestsInv(t)'
  BY <1>1, <1>4, RequestTaken
<1>6. up' \in Seq(Requests) /\ Len(up') <= MaxQueue /\ RequestsInv(up)'
  BY <1>3, <1>5 DEF RequestsInv
<1>7. service \in Services /\ service' = service
      /\ UNCHANGED <<appVars, readerVars, withdrawn>>
  BY DEF Serve, appVars, IInv, TypeInv
<1>8. CASE Grant(r)
  <2>1. \A c \in streamed' : c \in OfService /\ Known(Topic(c))'
    BY <1>1, <1>5, <1>8, StreamedKnown
  <2>2. /\ authed' \in BOOLEAN /\ refused' = refused
        /\ refused \subseteq {"auth", "sub", "cancel", "order"}
    BY <1>8 DEF Grant, IInv, TypeInv
  <2>3. CASE r.op = "ping"
    <3>1. PICK m : m = Pong
      OBVIOUS
    <3>2. Say(m)
      BY <1>8, <2>3, <3>1 DEF Grant
    <3>3. m \in Messages /\ MessageInv(m)'
      BY <1>1, <1>5, <1>7, <2>3, <3>1, AnswerKinds, MessageKept
    <3> QED BY <1>1, <1>6, <1>7, <2>1, <2>2, <3>2, <3>3, SayStep
  <2>4. CASE r.op = "order"
    <3>1. PICK m : m = OrderReply
      OBVIOUS
    <3>2. Say(m)
      BY <1>8, <2>4, <3>1 DEF Grant
    <3>3. m \in Messages /\ MessageInv(m)'
      BY <1>1, <1>5, <1>7, <2>4, <3>1, AnswerKinds, MessageKept
    <3> QED BY <1>1, <1>6, <1>7, <2>1, <2>2, <3>2, <3>3, SayStep
  <2>5. CASE r.op \in {"auth", "sub", "cancel"}
    <3>1. PICK m : m = Reply(r.op, Echo(r), TRUE)
      OBVIOUS
    <3>2. Say(m)
      BY <1>8, <2>5, <3>1 DEF Grant
    <3>3. m \in Messages /\ MessageInv(m)'
      BY <1>1, <1>5, <1>7, <2>5, <3>1, AnswerKinds, MessageKept
    <3> QED BY <1>1, <1>6, <1>7, <2>1, <2>2, <3>2, <3>3, SayStep
  <2> QED BY <1>5, <2>3, <2>4, <2>5, RequestKinds
<1>9. CASE Refuse(r)
  <2>1. r.op # "ping" /\ refused' = refused \cup {r.op} /\ authed' = authed /\ streamed' = streamed
    BY <1>9 DEF Refuse
  <2>2. \A c \in streamed' : c \in OfService /\ Known(Topic(c))'
    BY <1>1, <2>1, KnownKept DEF IInv, TypeInv, WireInv
  <2>3. authed' \in BOOLEAN /\ refused' \subseteq {"auth", "sub", "cancel", "order"}
    BY <1>5, <2>1, RequestKinds DEF IInv, TypeInv
  <2>4. CASE r.op = "order"
    <3>1. PICK m : m = OrderReply
      OBVIOUS
    <3>2. Say(m)
      BY <1>9, <2>4, <3>1 DEF Refuse
    <3>3. m \in Messages /\ MessageInv(m)'
      BY <1>1, <1>5, <1>7, <2>4, <3>1, AnswerKinds, MessageKept
    <3> QED BY <1>1, <1>6, <1>7, <2>2, <2>3, <3>2, <3>3, SayStep
  <2>5. CASE r.op # "order"
    <3>1. PICK m : m = Reply(r.op, NoTopic, FALSE)
      OBVIOUS
    <3>2. Say(m)
      BY <1>9, <2>5, <3>1 DEF Refuse
    <3>3. m \in Messages /\ MessageInv(m)'
      <4>1. r.op \in {"auth", "sub", "cancel"}
        BY <1>5, <2>1, <2>5, RequestKinds
      <4>2. m \in Messages /\ m.type = r.op /\ m.topic = NoTopic
        BY <3>1, <4>1 DEF Reply, Messages
      <4>3. service = "spot_private" => r.op = "auth"
        BY <1>5, <4>1 DEF RequestInv
      <4>4. r.op \in refused' \ {"order"}
        BY <2>1, <2>5
      <4> QED BY <1>7, <4>1, <4>2, <4>3, <4>4 DEF MessageInv
    <3> QED BY <1>1, <1>6, <1>7, <2>2, <2>3, <3>2, <3>3, SayStep
  <2> QED BY <2>4, <2>5
<1> QED BY <1>2, <1>8, <1>9 DEF Serve

LEMMA PublishStep ==
    ASSUME IInv, Publish
    PROVE  IInv'
<1>1. Onward
  BY DEF Publish, Onward, appVars, serverVars
<1>2. PICK c \in streamed, n \in {1, 2} : Say([Push(c) EXCEPT !.rows = n])
  BY DEF Publish
<1>3. PICK m : m = [Push(c) EXCEPT !.rows = n]
  OBVIOUS
<1>4. c \in Channels /\ c \in OfService /\ Known(Topic(c))
  BY DEF IInv, TypeInv, WireInv, OfService
<1>5. m \in Messages /\ m.type = "data" /\ m.topic = Topic(c) /\ m.success
  BY <1>3, <1>4 DEF Push, Message, Messages, Topics
<1>6. MessageInv(m)
  BY <1>4, <1>5, TopicShape DEF MessageInv
<1>7. RequestsInv(up)'
  <2>1. PICK u : u = up
    OBVIOUS
  <2>2. RequestsInv(u)'
    BY <1>1, <2>1, RequestsKept DEF IInv, WireInv, RequestsInv
  <2>3. up' = u
    BY <2>1 DEF Publish
  <2> QED BY <2>2, <2>3 DEF RequestsInv
<1>8. \A d \in streamed' : d \in OfService /\ Known(Topic(d))'
  BY <1>1, KnownKept DEF IInv, TypeInv, WireInv, Publish, serverVars
<1>9. MessageInv(m)'
  BY <1>1, <1>6, MessageKept
<1>10. /\ up' \in Seq(Requests) /\ Len(up') <= MaxQueue /\ authed' \in BOOLEAN
       /\ refused' \subseteq {"auth", "sub", "cancel", "order"}
       /\ UNCHANGED <<appVars, readerVars, withdrawn>> /\ Say(m)
  BY <1>2, <1>3 DEF IInv, TypeInv, Publish, serverVars
<1> QED BY <1>1, <1>5, <1>7, <1>8, <1>9, <1>10, SayStep

------------------------------------------------------------------------------
(* The reader *)

\* The private spot service has one channel.
LEMMA OneSpot ==
    ASSUME service = "spot_private", NEW c \in OfService, NEW d \in OfService
    PROVE  c = d
<1>1. c \in Channels /\ d \in Channels /\ c.stream = OutboundAccountInfo
      /\ d.stream = OutboundAccountInfo /\ OutboundAccountInfo.arity = 0
  BY ChannelType, SpotKinds DEF OfService
<1>2. c.key \in Seq(Words) /\ Len(c.key) = 0 /\ d.key \in Seq(Words) /\ Len(d.key) = 0
  BY <1>1, ChannelType
<1>3. c.key = <<>> /\ d.key = <<>>
  BY <1>2, EmptySeq
<1>4. c = Channel(c.stream, c.key) /\ d = Channel(d.stream, d.key)
  BY <1>1, ChannelType
<1> QED BY <1>1, <1>3, <1>4

\* What Run does with what it dispatched.
LEMMA RunOutcome ==
    ASSUME NEW m, m = Head(down), Run
    PROVE  \E form \in Forms :
             /\ Dispatch(m, form) \in {Skip, Answer} =>
                   delivered' = Nothing /\ reader' = reader
             /\ \A why : Dispatch(m, form) = End(why) =>
                   reader' = why /\ delivered' = Taken(m, form)
             /\ \A c : Dispatch(m, form) = [do |-> "hand", channel |-> c] =>
                   /\ delivered' = [type |-> m.type, topic |-> m.topic, to |-> c]
                   /\ reader' \in {"running", "handler_failed"}
<1>1. PICK form \in Forms :
        LET d == Dispatch(m, form)
        IN CASE d.do \in {"skip", "pong"} -> delivered' = Nothing /\ UNCHANGED reader
             [] d.do = "end" -> reader' = d.why /\ delivered' = Taken(m, form)
             [] d.do = "hand" ->
                   /\ delivered' = [type |-> m.type, topic |-> m.topic, to |-> d.channel]
                   /\ reader' \in {"running", "handler_failed"}
  BY DEF Run
<1> DEFINE d == Dispatch(m, form)
<1>2. /\ d.do \in {"skip", "pong"} => delivered' = Nothing /\ UNCHANGED reader
      /\ d.do = "end" => reader' = d.why /\ delivered' = Taken(m, form)
      /\ d.do = "hand" =>
            /\ delivered' = [type |-> m.type, topic |-> m.topic, to |-> d.channel]
            /\ reader' \in {"running", "handler_failed"}
  BY <1>1
<1> HIDE DEF d
<1>3. d \in {Skip, Answer} => delivered' = Nothing /\ reader' = reader
  <2>1. d \in {Skip, Answer} => d.do \in {"skip", "pong"}
    BY DEF Skip, Answer
  <2> QED BY <1>2, <2>1
<1>4. ASSUME NEW why, d = End(why)
      PROVE  reader' = why /\ delivered' = Taken(m, form)
  <2>1. d.do = "end" /\ d.why = why
    BY <1>4 DEF End
  <2> QED BY <1>2, <2>1
<1>5. ASSUME NEW c, d = [do |-> "hand", channel |-> c]
      PROVE  /\ delivered' = [type |-> m.type, topic |-> m.topic, to |-> c]
             /\ reader' \in {"running", "handler_failed"}
  <2>1. d.do = "hand" /\ d.channel = c
    BY <1>5
  <2> QED BY <1>2, <2>1
<1> QED BY <1>3, <1>4, <1>5 DEF d

\* What the reader leaves behind when it hands nothing over and goes on.
LEMMA NothingDone ==
    ASSUME delivered' = Nothing, reader' = "running"
    PROVE  OwnHandler' /\ EndExplained'
BY DEF OwnHandler, EndExplained, Nothing

\* ... when it ends.
LEMMA EndDone ==
    ASSUME NEW m, NEW form, NEW why, reader' = why, delivered' = Taken(m, form),
           why = "auth_failed" => service' \in WithLogin /\ refused' \ {"order"} # {},
           why = "func_not_found" =>
              \/ \E c \in withdrawn' : Topic(c) = m.topic
              \/ service' = "spot_private" /\ handlers' = {},
           why = "unexpected_response" => service' = "spot_private",
           why = "malformed" =>
              \/ form = "garbled"
              \/ /\ form = "mistyped"
                 /\ \E c \in Channels : c.stream.service = service' /\ Topic(c) = m.topic,
           why = "panic" =>
              /\ form = "bare"
              /\ \/ service' \in {"v5_private", "v5_trade"} /\ refused' \ {"order"} # {}
                 \/ service' = "spot_private" /\ m.type = "data"
    PROVE  OwnHandler' /\ EndExplained'
<1>1. /\ "to" \notin DOMAIN delivered' /\ delivered'.topic = m.topic
      /\ delivered'.form = form /\ delivered'.type = m.type
  BY DEF Taken
<1> QED BY <1>1 DEF OwnHandler, EndExplained

\* ... and when it hands m to the handler of c.
LEMMA HandDone ==
    ASSUME NEW m, NEW c, delivered' = [type |-> m.type, topic |-> m.topic, to |-> c],
           reader' \in {"running", "handler_failed"}, m.topic = Topic(c),
           \/ m.type = "data"
           \/ service' = "spot_public_v1"
           \/ service' = "spot_public_v2" /\ m.type = "cancel"
    PROVE  OwnHandler' /\ EndExplained'
<1>1. delivered'.topic = m.topic /\ delivered'.to = c /\ delivered'.type = m.type
  OBVIOUS
<1> QED BY <1>1 DEF OwnHandler, EndExplained

LEMMA RunReader ==
    ASSUME IInv, Run, NEW m \in Messages, m = Head(down), MessageInv(m)
    PROVE  OwnHandler' /\ EndExplained' /\ reader' \in {"running"} \cup Ends
<1>1. service' = service /\ handlers' = handlers /\ withdrawn' = withdrawn
      /\ refused' = refused /\ reader = "running" /\ TypeInv
  BY DEF Run, appVars, serverVars, IInv
<1>2. PICK form \in Forms :
        /\ Dispatch(m, form) \in {Skip, Answer} => delivered' = Nothing /\ reader' = reader
        /\ \A why : Dispatch(m, form) = End(why) =>
              reader' = why /\ delivered' = Taken(m, form)
        /\ \A c : Dispatch(m, form) = [do |-> "hand", channel |-> c] =>
              /\ delivered' = [type |-> m.type, topic |-> m.topic, to |-> c]
              /\ reader' \in {"running", "handler_failed"}
  BY RunOutcome
<1>3. CASE m.topic = NoTopic
  <2>1. CASE Dispatch(m, form) \in {Skip, Answer}
    BY <1>1, <1>2, <2>1, NothingDone
  <2>2. CASE Dispatch(m, form) = End("auth_failed") /\ service \in WithLogin /\ ~m.success
    <3>1. reader' = "auth_failed" /\ delivered' = Taken(m, form)
      BY <1>2, <2>2
    <3>2. m.type \in refused \ {"order"}
      BY <2>2 DEF MessageInv
    <3>3. OwnHandler' /\ EndExplained'
      BY <1>1, <2>2, <3>1, <3>2, EndDone
    <3> QED BY <3>1, <3>3 DEF Ends
  <2>3. CASE /\ Dispatch(m, form) = End("panic") /\ form = "bare" /\ ~m.success
             /\ service \in {"v5_private", "v5_trade"}
    <3>1. reader' = "panic" /\ delivered' = Taken(m, form)
      BY <1>2, <2>3
    <3>2. m.type \in refused \ {"order"}
      BY <2>3 DEF MessageInv
    <3>3. OwnHandler' /\ EndExplained'
      BY <1>1, <2>3, <3>1, <3>2, EndDone
    <3> QED BY <3>1, <3>3 DEF Ends
  <2> QED BY <1>1, <1>3, <2>1, <2>2, <2>3, RestDispatched
<1>4. CASE m.topic # NoTopic
  <2>1. PICK c \in OfService :
              m.topic = Topic(c) /\ (service = "spot_private" \/ c \in handlers \cup withdrawn)
    BY <1>4 DEF MessageInv, Known
  <2>2. CASE Dispatch(m, form) = Skip
    BY <1>1, <1>2, <2>2, NothingDone
  <2>3. CASE service = "spot_private" /\ Dispatch(m, form) = End("unexpected_response")
    <3>1. reader' = "unexpected_response" /\ delivered' = Taken(m, form)
      BY <1>2, <2>3
    <3>2. OwnHandler' /\ EndExplained'
      BY <1>1, <2>3, <3>1, EndDone
    <3> QED BY <3>1, <3>2 DEF Ends
  <2>4. CASE /\ service = "spot_private" /\ m.type = "data" /\ form = "bare"
             /\ Dispatch(m, form) = End("panic")
    <3>1. reader' = "panic" /\ delivered' = Taken(m, form)
      BY <1>2, <2>4
    <3>2. OwnHandler' /\ EndExplained'
      BY <1>1, <2>4, <3>1, EndDone
    <3> QED BY <3>1, <3>2 DEF Ends
  <2>5. CASE /\ Dispatch(m, form) = Hand(c.stream, Topic(c), form)
             /\ \/ m.type = "data"
                \/ service = "spot_public_v1"
                \/ service = "spot_public_v2" /\ m.type = "cancel"
    <3>1. CASE form = "mistyped"
      <4>1. reader' = "malformed" /\ delivered' = Taken(m, form)
        BY <1>2, <2>5, <3>1, Handed DEF OfService
      <4>2. c \in Channels /\ c.stream.service = service
        BY DEF OfService
      <4>3. OwnHandler' /\ EndExplained'
        BY <1>1, <2>1, <3>1, <4>1, <4>2, EndDone
      <4> QED BY <4>1, <4>3 DEF Ends
    <3>2. CASE form # "mistyped" /\ c \in handlers
      <4>1. /\ delivered' = [type |-> m.type, topic |-> m.topic, to |-> c]
            /\ reader' \in {"running", "handler_failed"}
        BY <1>2, <2>5, <3>2, Handed DEF OfService
      <4>2. OwnHandler' /\ EndExplained'
        BY <1>1, <2>1, <2>5, <4>1, HandDone
      <4> QED BY <4>1, <4>2 DEF Ends
    <3>3. CASE form # "mistyped" /\ c \notin handlers
      <4>1. reader' = "func_not_found" /\ delivered' = Taken(m, form)
        BY <1>2, <2>5, <3>3, Handed DEF OfService
      <4>2. c \in withdrawn \/ (service = "spot_private" /\ handlers = {})
        <5>1. service = "spot_private" => \A d \in OfService : d = c
          BY OneSpot
        <5>2. handlers \subseteq OfService
          BY <1>1 DEF TypeInv
        <5> QED BY <2>1, <3>3, <5>1, <5>2
      <4>3. OwnHandler' /\ EndExplained'
        BY <1>1, <2>1, <4>1, <4>2, EndDone
      <4> QED BY <4>1, <4>3 DEF Ends
    <3> QED BY <3>1, <3>2, <3>3
  <2> QED BY <1>1, <2>1, <2>2, <2>3, <2>4, <2>5, TopicDispatched
<1> QED BY <1>3, <1>4

LEMMA RunStep ==
    ASSUME IInv, Run
    PROVE  IInv'
<1>1. Onward
  BY DEF Run, Onward, appVars, serverVars
<1>2. PICK s, t, m : s = down /\ t = down' /\ m = Head(down)
  OBVIOUS
<1>3. s \in Seq(Messages) /\ s # <<>> /\ MessagesInv(s) /\ Len(s) <= MaxQueue
      /\ t = Tail(s) /\ m = Head(s)
  BY <1>2 DEF Run, IInv, TypeInv, WireInv, MessagesInv
<1>4. /\ m \in Messages /\ MessageInv(m)
      /\ t \in Seq(Messages) /\ Len(t) <= MaxQueue /\ MessagesInv(t)'
  BY <1>1, <1>3, MessageTaken
<1>5. OwnHandler' /\ EndExplained' /\ reader' \in {"running"} \cup Ends
  BY <1>2, <1>4, RunReader
<1>6. TypeInv'
  BY <1>2, <1>4, <1>5 DEF Run, appVars, serverVars, IInv, TypeInv, OfService
<1>7. RequestsInv(up)'
  <2>1. PICK u : u = up
    OBVIOUS
  <2>2. RequestsInv(u)'
    BY <1>1, <2>1, RequestsKept DEF IInv, WireInv, RequestsInv
  <2>3. up' = u
    BY <2>1 DEF Run
  <2> QED BY <2>2, <2>3 DEF RequestsInv
<1>8. \A c \in streamed' : Known(Topic(c))'
  BY <1>1, KnownKept DEF IInv, WireInv, Run, serverVars
<1>9. WireInv'
  BY <1>2, <1>4, <1>7, <1>8 DEF WireInv, RequestsInv, MessagesInv
<1> QED BY <1>5, <1>6, <1>9 DEF IInv

\* A message that cannot be unmarshalled ends the reader and changes nothing else.
LEMMA RunGarbledStep ==
    ASSUME IInv, RunGarbled
    PROVE  IInv'
<1> USE DEF appVars, serverVars
<1>1. Onward
  BY DEF RunGarbled, Onward
<1>2. OwnHandler' /\ EndExplained'
  <2>1. "to" \notin DOMAIN delivered' /\ delivered'.form = "garbled" /\ reader' = "malformed"
    BY DEF RunGarbled
  <2> QED BY <2>1 DEF OwnHandler, EndExplained
<1>3. TypeInv'
  BY DEF RunGarbled, IInv, TypeInv, OfService, Ends
<1>4. WireInv'
  <2>1. PICK u, d : u = up /\ d = down
    OBVIOUS
  <2>2. RequestsInv(u) /\ MessagesInv(d)
    BY <2>1 DEF IInv, WireInv, RequestsInv, MessagesInv
  <2>3. RequestsInv(u)' /\ MessagesInv(d)'
    BY <1>1, <2>2, RequestsKept, MessagesKept
  <2>4. up' = u /\ down' = d
    BY <2>1 DEF RunGarbled
  <2>5. \A c \in streamed' : Known(Topic(c))'
    BY <1>1, KnownKept DEF IInv, WireInv, RunGarbled
  <2> QED BY <2>3, <2>4, <2>5 DEF WireInv, RequestsInv, MessagesInv
<1> QED BY <1>2, <1>3, <1>4 DEF IInv

------------------------------------------------------------------------------
(* The theorems *)

LEMMA InitInv == Init => IInv
<1> SUFFICES ASSUME Init PROVE IInv
  OBVIOUS
<1>1. Len(<<>>) = 0 /\ <<>> \in Seq(Requests) /\ <<>> \in Seq(Messages)
  BY EmptySeq
<1>2. TypeInv
  <2>1. creds \in Credentials
    <3>1. NoCredentials \in Credentials
      BY DEF Credentials
    <3>2. CASE service \in WithLogin
      BY <3>2 DEF Init
    <3>3. CASE service \notin WithLogin
      BY <3>1, <3>3 DEF Init
    <3> QED BY <3>2, <3>3
  <2>2. reader \in {"running"} \cup Ends
    BY DEF Init
  <2>3. calls \in 0..MaxCalls /\ Len(up) <= MaxQueue /\ Len(down) <= MaxQueue
    BY <1>1, RouterAssumption DEF Init
  <2>4. /\ service \in Services /\ up = <<>> /\ down = <<>> /\ authed \in BOOLEAN
        /\ handlers = {} /\ streamed = {} /\ withdrawn = {} /\ refused = {}
    BY DEF Init
  <2> QED BY <1>1, <2>1, <2>2, <2>3, <2>4 DEF TypeInv
<1>3. WireInv
  BY <1>1 DEF Init, WireInv
<1>4. OwnHandler /\ EndExplained
  BY DEF Init, OwnHandler, EndExplained, Nothing
<1> QED BY <1>2, <1>3, <1>4 DEF IInv

LEMMA StepInv == IInv /\ [Next]_vars => IInv'
<1> SUFFICES ASSUME IInv, [Next]_vars PROVE IInv'
  OBVIOUS
<1>1. CASE Login
  BY <1>1, LoginStep
<1>2. ASSUME NEW c \in Channels, Subscribe(c) \/ RegisterFunc(c) \/ Unsubscribe(c)
      PROVE  IInv'
  BY <1>2, SubscribeStep, RegisterFuncStep, UnsubscribeStep
<1>3. CASE SendOrder
  BY <1>3, SendOrderStep
<1>4. CASE Ping
  BY <1>4, PingStep
<1>5. CASE Serve
  BY <1>5, ServeStep
<1>6. CASE Publish
  BY <1>6, PublishStep
<1>7. CASE Run
  BY <1>7, RunStep
<1>8. CASE RunGarbled
  BY <1>8, RunGarbledStep
<1>9. CASE UNCHANGED vars
  BY <1>9, StutterStep
<1> QED BY <1>1, <1>2, <1>3, <1>4, <1>5, <1>6, <1>7, <1>8, <1>9 DEF Next

\* The invariant holds of every service, with any channels and bounds.
THEOREM Invariant == Spec => []IInv
BY InitInv, StepInv, PTL DEF Spec

\* Every variable has its type, and the registry holds channels of the service
\* that runs.
THEOREM TypeCorrect == Spec => []TypeOK
<1>1. IInv => TypeOK
  BY DEF IInv, TypeInv, TypeOK, OfService
<1> QED BY <1>1, Invariant, PTL

\* A handler gets what the server sent for the channel it is registered for,
\* and data, except on the public spot services (judgeTopic, the Key of each
\* response, and the Run of each service).
THEOREM Own == Spec => []OwnHandler
<1>1. IInv => OwnHandler
  BY DEF IInv
<1> QED BY <1>1, Invariant, PTL

\* The reader ends for one of the causes its service has (Run).
THEOREM Explained == Spec => []EndExplained
<1>1. IInv => EndExplained
  BY DEF IInv
<1> QED BY <1>1, Invariant, PTL

\* A login on its way is signed by the credentials whose key it shows
\* (buildAuthParam).
THEOREM Verifiable == Spec => []AuthVerifies
<1>1. IInv => AuthVerifies
  <2> SUFFICES ASSUME IInv, NEW i \in DOMAIN up, up[i].op = "auth"
               PROVE  up[i].by = up[i].key
    BY DEF AuthVerifies
  <2>1. DOMAIN up = 1..Len(up)
    BY LenProperties DEF IInv, TypeInv
  <2>2. RequestInv(up[i])
    BY <2>1 DEF IInv, WireInv
  <2> QED BY <2>2 DEF RequestInv
<1> QED BY <1>1, Invariant, PTL
=============================================================================
