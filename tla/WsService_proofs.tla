-------------------------- MODULE WsService_proofs --------------------------
(***************************************************************************)
(* Theorems about WsService for any topics, lists of keys and buffers, and *)
(* any number of goroutines of the application where nothing else is said. *)
(***************************************************************************)
EXTENDS WsService, SequenceTheorems, TLAPS

----------------------------------------------------------------------------
(***************************************************************************)
(* Sequences as sets.                                                      *)
(***************************************************************************)

\* The topics of a list of keys.
LEMMA ToSetType ==
  ASSUME NEW S, NEW s \in Seq(S)
  PROVE  ToSet(s) \subseteq S
BY DEF ToSet

\* What is sent comes last.
LEMMA AppendSet ==
  ASSUME NEW S, NEW s \in Seq(S), NEW e \in S
  PROVE  ToSet(Append(s, e)) = ToSet(s) \cup {e}
<1> DEFINE a == Append(s, e)
<1>1. /\ DOMAIN a = 1 .. Len(s) + 1 /\ DOMAIN s = 1 .. Len(s) /\ Len(s) \in Nat
      /\ a[Len(s) + 1] = e /\ \A i \in 1 .. Len(s) : a[i] = s[i]
  BY AppendProperties, LenProperties
<1>2. \A i \in DOMAIN a : a[i] \in ToSet(s) \cup {e}
  BY <1>1 DEF ToSet
<1>3. e \in ToSet(a) /\ \A i \in DOMAIN s : s[i] \in ToSet(a)
  BY <1>1 DEF ToSet
<1> QED
  BY <1>2, <1>3 DEF ToSet

\* What is taken comes first.
LEMMA TailSet ==
  ASSUME NEW S, NEW s \in Seq(S), s # <<>>
  PROVE  /\ Head(s) \in S /\ Tail(s) \in Seq(S)
         /\ ToSet(s) = ToSet(Tail(s)) \cup {Head(s)}
         /\ Len(Tail(s)) = Len(s) - 1
<1>1. Head(s) \in S /\ Tail(s) \in Seq(S) /\ Len(Tail(s)) = Len(s) - 1
  BY HeadTailProperties
<1>2. ToSet(s) = ToSet(Tail(s)) \cup {Head(s)}
  <2>1. /\ DOMAIN s = 1 .. Len(s) /\ Len(s) \in Nat \ {0} /\ s[1] = Head(s)
        /\ DOMAIN Tail(s) = 1 .. Len(s) - 1
        /\ \A i \in 1 .. Len(s) - 1 : Tail(s)[i] = s[i + 1]
    BY <1>1, HeadTailProperties, LenProperties, EmptySeq
  <2>2. \A i \in DOMAIN Tail(s) : Tail(s)[i] \in ToSet(s)
    BY <2>1 DEF ToSet
  <2>3. ASSUME NEW i \in DOMAIN s PROVE s[i] \in ToSet(Tail(s)) \cup {Head(s)}
    <3>1. CASE i # 1
      BY <2>1, <3>1, i - 1 \in DOMAIN Tail(s), Tail(s)[i - 1] = s[i] DEF ToSet
    <3> QED
      BY <2>1, <3>1
  <2> QED
    BY <2>1, <2>2, <2>3 DEF ToSet
<1> QED
  BY <1>1, <1>2

----------------------------------------------------------------------------
\* Nothing is registered and nothing under way.
LEMMA InitType == Init => TypeOK
<1> SUFFICES ASSUME Init PROVE TypeOK
  OBVIOUS
<1>1. AppType
  <2>1. user \in [Users -> [pc : UserLabels, call : Calls \cup {None}, todo : Seq(Topics)]]
    BY DEF Init, Idle, UserLabels
  <2>2. \A u \in Users : user[u].pc = "idle"
    BY DEF Init, Idle
  <2> QED
    BY <2>1, <2>2 DEF Init, AppType
<1>2. NetType
  <2>1. up \in Seq(Requests) /\ down \in Seq(Topics \cup {"pong", "close"})
    BY DEF Init
  <2>2. Len(up) <= MaxUp /\ Len(down) <= MaxDown
    BY WsAssumption DEF Init
  <2> QED
    BY <2>1, <2>2 DEF Init, NetType
<1>3. StartType /\ ReaderType
  BY DEF Init, StartType, ReaderType, StarterLabels, ReaderLabels
<1> QED
  BY <1>1, <1>2, <1>3 DEF TypeOK

\* A write that succeeds leaves a well-formed queue of requests.
LEMMA WriteType ==
  ASSUME NetType, NEW r \in Requests, Len(up) < MaxUp, Put(r)
  PROVE  up' \in Seq(Requests) /\ Len(up') <= MaxUp
BY AppendProperties, WsAssumption DEF NetType, Put

\* A message that is sent leaves a well-formed queue of messages.
LEMMA SendType ==
  ASSUME NetType, NEW m \in Topics \cup {"pong", "close"}, Send(m)
  PROVE  down' \in Seq(Topics \cup {"pong", "close"}) /\ Len(down') <= MaxDown
BY AppendProperties, WsAssumption DEF NetType, Send

\* The list of keys of a call is a list of topics.
LEMMA CallTopics ==
  ASSUME AppType, NEW u \in Users, user[u].pc # "idle"
  PROVE  user[u].call \in Seq(Topics) /\ user[u].call # <<>>
         /\ ToSet(user[u].call) \subseteq Topics
BY ToSetType, WsAssumption DEF AppType

\* The record of a goroutine.
Goroutine == [pc : UserLabels, call : Calls \cup {None}, todo : Seq(Topics)]

\* A goroutine moves on within its call, or ends it.
LEMMA MoveType ==
  ASSUME AppType, NEW u \in Users, NEW r \in Goroutine,
         user' = [user EXCEPT ![u] = r],
         r.pc # "idle" =>
           r.call # None /\ (r.todo # <<>> \/ r.pc \in {"lock", "subscribe"}),
         registered' \subseteq Topics, closures' \subseteq Calls
  PROVE  AppType'
BY DEF AppType, Goroutine

\* It moves to another place of its call.
LEMMA PcType ==
  ASSUME AppType, NEW u \in Users, NEW label \in UserLabels, UserGoto(u, label),
         user[u].pc # "idle", label = "subscribe" \/ user[u].todo # <<>>,
         UNCHANGED <<registered, closures>>
  PROVE  AppType'
<1>1. user[u] \in Goroutine /\ [user[u] EXCEPT !.pc = label] \in Goroutine
  BY DEF AppType, Goroutine
<1>2. user' = [user EXCEPT ![u] = [user[u] EXCEPT !.pc = label]]
  BY <1>1 DEF UserGoto, AppType, Goroutine
<1> QED
  BY <1>1, <1>2, MoveType DEF AppType

\* It is done.
LEMMA IdleType == Idle \in Goroutine /\ Idle.pc = "idle"
BY EmptySeq DEF Idle, Goroutine, UserLabels

----------------------------------------------------------------------------
\* The application.
LEMMA UserType ==
  ASSUME TypeOK, NEW u \in Users,
         UserStep(u) \/ \E c \in Calls : Begin(u, c) \/ Withdraw(u, c)
  PROVE  TypeOK'
<1> USE WsAssumption
    DEF TypeOK, UserAt, UserGoto, UserLabels, app, life, reading, link, net
<1>1. ASSUME NEW c \in Calls, Begin(u, c) \/ Withdraw(u, c) PROVE TypeOK'
  <2> DEFINE r(l) == [pc |-> l, call |-> c, todo |-> c]
  <2>1. \A l \in UserLabels : r(l) \in Goroutine /\ c # <<>> /\ c # None
    BY DEF Goroutine
  <2>2. user' = [user EXCEPT ![u] = r("check")] \/ user' = [user EXCEPT ![u] = r("relock")]
    BY <1>1 DEF Begin, Withdraw
  <2>3. AppType'
    BY <1>1, <2>1, <2>2, MoveType DEF Begin, Withdraw, AppType
  <2> QED
    BY <1>1, <2>3 DEF Begin, Withdraw, StartType, ReaderType, NetType
<1>2. CASE CheckKey(u)
  <2>1. AppType'
    <3>1. CASE user' = [user EXCEPT ![u] = Idle]
      BY <1>2, <3>1, IdleType, MoveType DEF CheckKey, AppType
    <3>2. CASE user' = [user EXCEPT ![u].pc = "add"]
      BY <1>2, <3>2, PcType DEF CheckKey, AppType
    <3> QED
      BY <1>2, <3>1, <3>2 DEF CheckKey
  <2> QED
    BY <1>2, <2>1 DEF CheckKey, StartType, ReaderType, NetType
<1>3. CASE AddKey(u)
  <2>1. Head(user[u].todo) \in Topics /\ Tail(user[u].todo) \in Seq(Topics)
    BY <1>3, TailSet DEF AddKey, AppType
  <2>2. AppType'
    BY <1>3, <2>1 DEF AddKey, AppType
  <2> QED
    BY <1>3, <2>2 DEF AddKey, StartType, ReaderType, NetType
<1>4. CASE RemoveKey(u)
  <2>1. Head(user[u].todo) \in Topics /\ Tail(user[u].todo) \in Seq(Topics)
    BY <1>4, TailSet DEF RemoveKey, AppType
  <2>2. AppType'
    <3>1. registered' \subseteq Topics /\ closures' \subseteq Calls
      BY <1>4 DEF RemoveKey, AppType
    <3>2. CASE user' = [user EXCEPT ![u] = Idle]
      BY <3>1, <3>2, IdleType, MoveType
    <3>3. CASE /\ user' = [user EXCEPT ![u].todo = Tail(user[u].todo)]
               /\ Tail(user[u].todo) # <<>>
      <4> DEFINE r == [user[u] EXCEPT !.todo = Tail(user[u].todo)]
      <4>1. r \in Goroutine /\ user[u].pc = "remove" /\ r.call # None /\ r.todo # <<>>
        BY <1>4, <2>1, <3>3 DEF RemoveKey, AppType, Goroutine
      <4>2. user' = [user EXCEPT ![u] = r]
        BY <3>3 DEF AppType, Goroutine
      <4> QED
        BY <3>1, <4>1, <4>2, MoveType
    <3> QED
      BY <1>4, <3>2, <3>3 DEF RemoveKey
  <2> QED
    BY <1>4, <2>2 DEF RemoveKey, StartType, ReaderType, NetType
<1>5. CASE UserLocks(u)
  <2>1. user[u].pc # "idle" /\ (user[u].pc = "lock" \/ user[u].todo # <<>>)
    BY <1>5 DEF UserLocks, AppType
  <2>2. AppType'
    BY <1>5, <2>1, PcType DEF UserLocks
  <2> QED
    BY <1>5, <2>2 DEF UserLocks, Lock, StartType, ReaderType, NetType
<1>6. CASE Subscribed(u)
  <2>1. user[u].call \in Calls /\ ToSet(user[u].call) \subseteq Topics
    BY <1>6, CallTopics DEF Subscribed, AppType
  <2>2. [op |-> "subscribe", topics |-> ToSet(user[u].call)] \in Requests
    BY <2>1 DEF Requests
  <2>3. up' \in Seq(Requests) /\ Len(up') <= MaxUp
    BY <1>6, <2>2, WriteType DEF Subscribed, WriteOK
  <2>4. AppType' /\ StartType'
    BY <1>6, <2>1, IdleType, MoveType DEF Subscribed, Unlock, AppType, StartType
  <2>5. ReaderType' /\ NetType'
    BY <1>6, <2>3 DEF Subscribed, WriteOK, ReaderType, NetType
  <2> QED
    BY <2>4, <2>5
<1>7. CASE SubscribeFails(u) \/ UnsubscribeFails(u)
  <2>1. AppType' /\ StartType'
    BY <1>7, IdleType, MoveType
       DEF SubscribeFails, UnsubscribeFails, Unlock, AppType, StartType
  <2>2. ReaderType' /\ NetType'
    BY <1>7 DEF SubscribeFails, UnsubscribeFails, WriteFails, ReaderType, NetType
  <2> QED
    BY <2>1, <2>2
<1>8. CASE Unsubscribed(u)
  <2>1. user[u].call \in Calls /\ ToSet(user[u].call) \subseteq Topics
    BY <1>8, CallTopics DEF Unsubscribed, AppType
  <2>2. [op |-> "unsubscribe", topics |-> ToSet(user[u].call)] \in Requests
    BY <2>1 DEF Requests
  <2>3. up' \in Seq(Requests) /\ Len(up') <= MaxUp
    BY <1>8, <2>2, WriteType DEF Unsubscribed, WriteOK
  <2>4. AppType' /\ StartType'
    BY <1>8 DEF Unsubscribed, Unlock, AppType, StartType
  <2>5. ReaderType' /\ NetType'
    BY <1>8, <2>1, <2>3 DEF Unsubscribed, WriteOK, ReaderType, NetType
  <2> QED
    BY <2>4, <2>5
<1> QED
  BY <1>1, <1>2, <1>3, <1>4, <1>5, <1>6, <1>7, <1>8 DEF UserStep

\* The reader.
LEMMA ReaderStepType == ASSUME TypeOK, ReaderStep \/ ReadFails PROVE TypeOK'
<1> USE WsAssumption DEF TypeOK, ReaderAt, ReaderLabels, app, life, reading, link, net
<1>1. CASE Receive
  <2>1. /\ Head(down) \in Topics \cup {"pong", "close"}
        /\ Tail(down) \in Seq(Topics \cup {"pong", "close"}) /\ Len(down') <= MaxDown
    BY <1>1, TailSet DEF Receive, NetType
  <2>2. ReaderType' /\ NetType'
    BY <1>1, <2>1 DEF Receive, ReaderType, NetType
  <2> QED
    BY <1>1, <2>2 DEF Receive, AppType, StartType
<1>2. CASE LookUp \/ Handle \/ ReportError
  BY <1>2 DEF LookUp, Handle, ReportError, AppType, StartType, ReaderType, NetType
<1>3. CASE ReadFails \/ ReadTimesOut \/ CloseConnection \/ CloseDone
  BY <1>3 DEF ReadFails, ReadTimesOut, CloseConnection, CloseDone,
              AppType, StartType, ReaderType, NetType
<1> QED
  BY <1>1, <1>2, <1>3 DEF ReaderStep

\* Start.
LEMMA StarterType ==
  ASSUME TypeOK,
         OnDone \/ OnTick \/ OnCancel \/ StarterLocks \/ StarterWrites \/ StopWaiting
  PROVE  TypeOK'
<1> USE WsAssumption
    DEF TypeOK, StarterAt, StarterGoto, StarterLabels, app, life, reading, link, net
<1>1. CASE OnDone \/ OnTick \/ OnCancel \/ StopWaiting
  BY <1>1 DEF OnDone, OnTick, OnCancel, StopWaiting, Return,
              AppType, StartType, ReaderType, NetType
<1>2. CASE StarterLocks
  BY <1>2 DEF StarterLocks, Lock, AppType, StartType, ReaderType, NetType
<1>3. ASSUME NEW op \in {"ping", "close"} PROVE Control(op) \in Requests
  BY DEF Control, Requests
<1>4. CASE Pinged
  <2>1. up' \in Seq(Requests) /\ Len(up') <= MaxUp
    BY <1>3, <1>4, WriteType DEF Pinged, WriteOK
  <2> QED
    BY <1>4, <2>1 DEF Pinged, WriteOK, Unlock, AppType, StartType, ReaderType, NetType
<1>5. CASE PingFails \/ CloseFails
  BY <1>5 DEF PingFails, CloseFails, WriteFails, Return, Unlock,
              AppType, StartType, ReaderType, NetType
<1>6. CASE CloseSent
  <2>1. up' \in Seq(Requests) /\ Len(up') <= MaxUp
    BY <1>3, <1>6, WriteType DEF CloseSent
  <2> QED
    BY <1>6, <2>1 DEF CloseSent, Unlock, AppType, StartType, ReaderType, NetType
<1> QED
  BY <1>1, <1>2, <1>4, <1>5, <1>6 DEF StarterWrites

\* The network, the server and the clock.
LEMMA EnvironmentType == ASSUME TypeOK, Environment PROVE TypeOK'
<1> USE WsAssumption DEF TypeOK, app, life, reading, link, net
<1>1. CASE Cancel \/ DeadlinePasses \/ ConcurrentMapAccess
  <2>1. NetType'
    BY <1>1 DEF Cancel, DeadlinePasses, ConcurrentMapAccess, NetType
  <2> QED
    BY <1>1, <2>1 DEF Cancel, DeadlinePasses, ConcurrentMapAccess,
                      AppType, StartType, ReaderType
<1>2. CASE LoseConnection
  BY <1>2 DEF LoseConnection, AppType, StartType, ReaderType, NetType
<1>3. ASSUME NEW m \in Topics \cup {"pong", "close"}, Send(m),
             UNCHANGED <<app, life, reading, link, up, streamed, withdrawn, mu, fresh, aborted>>
      PROVE  TypeOK'
  BY <1>3, SendType DEF AppType, StartType, ReaderType, NetType
<1>4. CASE Serve
  <2>1. Head(up) \in Requests /\ Tail(up) \in Seq(Requests) /\ Len(Tail(up)) <= MaxUp
    BY <1>4, TailSet DEF Serve, NetType
  <2>2. down' \in Seq(Topics \cup {"pong", "close"}) /\ Len(down') <= MaxDown
    BY <1>4, SendType DEF Serve, NetType
  <2>3. streamed' \subseteq Topics
    BY <1>4, <2>1 DEF Serve, NetType, Requests
  <2> QED
    BY <1>4, <2>1, <2>2, <2>3 DEF Serve, AppType, StartType, ReaderType, NetType
<1> QED
  BY <1>1, <1>2, <1>3, <1>4, ReaderStepType DEF Environment, Stream, ServerCloses

\* TypeOK is inductive.
LEMMA NextType == TypeOK /\ [Next]_vars => TypeOK'
<1>1. TypeOK /\ UNCHANGED vars => TypeOK'
  BY DEF vars, app, life, reading, link, net, TypeOK, AppType, StartType, ReaderType, NetType
<1> QED
  BY <1>1, UserType, ReaderStepType, StarterType, EnvironmentType DEF Next

\* Every variable keeps its type: each step of Subscribe..., of the function
\* it returns, of the reader and of Start finds what it reads.
THEOREM TypeCorrect == Spec => []TypeOK
BY InitType, NextType, PTL DEF Spec

----------------------------------------------------------------------------
(***************************************************************************)
(* One writer at a time.                                                   *)
(***************************************************************************)

\* Whoever writes holds the lock.
Exclusive == \A g \in Writing : mu = g

\* A step keeps the lock where it is, takes it when it is free, or gives it
\* back.
LEMMA NextExclusive == TypeOK /\ Exclusive /\ [Next]_vars => Exclusive'
<1> SUFFICES ASSUME TypeOK, Exclusive, [Next]_vars PROVE Exclusive'
  OBVIOUS
<1> USE WsAssumption DEF TypeOK, AppType, Exclusive, Writing
<1>1. CASE UNCHANGED <<user, starter, mu>>
  BY <1>1
<1>2. ASSUME NEW u \in Users, UserStep(u) \/ \E c \in Calls : Begin(u, c) \/ Withdraw(u, c)
      PROVE  Exclusive'
  <2>1. \A v \in Users \ {u} : user'[v] = user[v]
    BY <1>2 DEF UserStep, Begin, Withdraw, CheckKey, AddKey, UserLocks, Subscribed,
                SubscribeFails, Unsubscribed, UnsubscribeFails, RemoveKey, UserGoto
  <2>2. UNCHANGED starter
    BY <1>2 DEF UserStep, Begin, Withdraw, CheckKey, AddKey, UserLocks, Subscribed,
                SubscribeFails, Unsubscribed, UnsubscribeFails, RemoveKey, life
  <2>3. CASE UserLocks(u)
    BY <2>1, <2>2, <2>3 DEF UserLocks, Lock
  <2>4. CASE Subscribed(u) \/ SubscribeFails(u) \/ Unsubscribed(u) \/ UnsubscribeFails(u)
    <3>1. mu = u /\ mu' = None /\ user'[u].pc \notin {"subscribe", "unsubscribe"}
      BY <2>4 DEF Subscribed, SubscribeFails, Unsubscribed, UnsubscribeFails,
                  Unlock, Idle, UserGoto
    <3> QED
      BY <2>1, <2>2, <3>1
  <2>5. CASE CheckKey(u) \/ AddKey(u) \/ RemoveKey(u)
             \/ \E c \in Calls : Begin(u, c) \/ Withdraw(u, c)
    <3>1. mu' = mu /\ user'[u].pc \notin {"subscribe", "unsubscribe"}
      BY <2>5 DEF CheckKey, AddKey, RemoveKey, Begin, Withdraw, Idle, UserAt
    <3> QED
      BY <2>1, <2>2, <3>1
  <2> QED
    BY <1>2, <2>3, <2>4, <2>5 DEF UserStep
<1>3. CASE OnDone \/ OnTick \/ OnCancel \/ StopWaiting
  BY <1>3 DEF OnDone, OnTick, OnCancel, StopWaiting, StarterGoto, Return, app
<1>4. CASE StarterLocks
  BY <1>4 DEF StarterLocks, Lock, app
<1>5. CASE StarterWrites
  BY <1>5 DEF StarterWrites, Pinged, PingFails, CloseSent, CloseFails, StarterAt,
              StarterGoto, Return, Unlock, app
<1>6. CASE ReaderStep \/ Environment \/ UNCHANGED vars
  BY <1>1, <1>6 DEF ReaderStep, Receive, ReadTimesOut, LookUp, Handle, ReportError,
                    CloseConnection, CloseDone, Environment, Cancel, DeadlinePasses,
                    LoseConnection, ReadFails, Serve, Stream, ServerCloses,
                    ConcurrentMapAccess, app, life, vars
<1> QED
  BY <1>2, <1>3, <1>4, <1>5, <1>6 DEF Next

\* The writes of pings, close frames, subscriptions and unsubscriptions
\* exclude each other, for any number of goroutines (v5_ws_public.go, mu).
THEOREM Exclusion == Spec => []OneWriter
<1>1. Init => Exclusive
  BY DEF Init, Exclusive, Writing, Idle
<1>2. Exclusive => OneWriter
  BY DEF Exclusive, OneWriter
<1> QED
  BY <1>1, <1>2, InitType, NextType, NextExclusive, PTL DEF Spec

----------------------------------------------------------------------------
(***************************************************************************)
(* A message without a handler is of a topic somebody withdrew.            *)
(***************************************************************************)

\* Topics that have a handler, or were withdrawn.
Backed == registered \cup withdrawn

\* On every way from a call that subscribes to the reader's look-up a topic
\* is backed: in the call, in the request, at the server, in the message.
CallBacked(u) ==
  /\ user[u].pc \in {"check", "add"} =>
       ToSet(user[u].call) \subseteq Backed \cup ToSet(user[u].todo)
  /\ user[u].pc \in {"lock", "subscribe"} => ToSet(user[u].call) \subseteq Backed
  /\ user[u].pc \in {"relock", "unsubscribe"} => user[u].todo = user[u].call
  /\ user[u].pc = "remove" => ToSet(user[u].todo) \subseteq withdrawn

WireBacked ==
  /\ \A r \in ToSet(up) : r.op = "subscribe" => r.topics \subseteq Backed
  /\ streamed \subseteq Backed
  /\ ToSet(down) \cap Topics \subseteq Backed

ReaderBacked ==
  /\ reader = "lookup" => topic \in Backed
  /\ reader = "missed" => topic \in withdrawn

Explained == (\A u \in Users : CallBacked(u)) /\ WireBacked /\ ReaderBacked

\* What is backed stays so: handlers are removed only of withdrawn topics.
LEMMA BackedGrows ==
  ASSUME TypeOK, Explained, [Next]_vars
  PROVE  Backed \subseteq Backed' /\ withdrawn \subseteq withdrawn'
<1>1. ASSUME NEW u \in Users, RemoveKey(u) PROVE Backed \subseteq Backed' /\ UNCHANGED withdrawn
  <2>1. Head(user[u].todo) \in ToSet(user[u].todo)
    BY <1>1, TailSet DEF RemoveKey, UserAt, TypeOK, AppType
  <2> QED
    BY <1>1, <2>1 DEF RemoveKey, UserAt, Explained, CallBacked, Backed, net
<1>2. ASSUME NEW u \in Users, UserStep(u) \/ \E c \in Calls : Begin(u, c) \/ Withdraw(u, c)
      PROVE  Backed \subseteq Backed' /\ withdrawn \subseteq withdrawn'
  BY <1>1, <1>2 DEF UserStep, Begin, Withdraw, CheckKey, AddKey, UserLocks, Subscribed,
                    SubscribeFails, Unsubscribed, UnsubscribeFails, Backed, net, WriteFails
<1>3. CASE UNCHANGED <<registered, withdrawn>>
  BY <1>3 DEF Backed
<1>4. CASE ReaderStep \/ Environment \/ UNCHANGED vars
  BY <1>3, <1>4 DEF ReaderStep, Receive, ReadTimesOut, LookUp, Handle, ReportError,
                    CloseConnection, CloseDone, Environment, Cancel, DeadlinePasses,
                    LoseConnection, ReadFails, Serve, Stream, ServerCloses,
                    ConcurrentMapAccess, app, net, vars
<1>5. CASE OnDone \/ OnTick \/ OnCancel \/ StopWaiting \/ StarterLocks \/ StarterWrites
  BY <1>3, <1>5 DEF OnDone, OnTick, OnCancel, StopWaiting, StarterLocks, StarterWrites,
                    Pinged, PingFails, CloseSent, CloseFails, WriteFails, app, net
<1> QED
  BY <1>2, <1>4, <1>5, [Next]_vars DEF Next

\* A write adds at most the request that was written.
LEMMA PutBacked ==
  ASSUME TypeOK, WireBacked, NEW r \in Requests, Put(r),
         r.op = "subscribe" => r.topics \subseteq Backed,
         Backed \subseteq Backed', UNCHANGED <<streamed, down>>
  PROVE  WireBacked'
<1>1. ToSet(up') \subseteq ToSet(up) \cup {r}
  BY AppendSet DEF Put, TypeOK, NetType
<1> QED
  BY <1>1 DEF WireBacked

\* A message that is sent is no topic, or a backed one.
LEMMA SendBacked ==
  ASSUME TypeOK, WireBacked, NEW m \in Topics \cup {"pong", "close"}, Send(m),
         m \in Topics => m \in Backed,
         Backed \subseteq Backed'
  PROVE  ToSet(down') \cap Topics \subseteq Backed'
<1>1. ToSet(down') = ToSet(down) \cup {m}
  BY AppendSet DEF Send, TypeOK, NetType
<1> QED
  BY <1>1 DEF WireBacked

\* The application.
LEMMA UserExplained ==
  ASSUME TypeOK, Explained, Backed \subseteq Backed', withdrawn \subseteq withdrawn',
         NEW u \in Users,
         UserStep(u) \/ \E c \in Calls : Begin(u, c) \/ Withdraw(u, c)
  PROVE  Explained'
<1> USE DEF TypeOK, AppType, Explained, UserAt
<1>1. ReaderBacked'
  <2>1. UNCHANGED reading
    BY DEF UserStep, Begin, Withdraw, CheckKey, AddKey, UserLocks, Subscribed,
           SubscribeFails, Unsubscribed, UnsubscribeFails, RemoveKey
  <2> QED
    BY <2>1 DEF ReaderBacked, reading
<1>2. ASSUME NEW v \in Users \ {u} PROVE CallBacked(v)'
  <2>1. user'[v] = user[v]
    BY DEF UserStep, Begin, Withdraw, CheckKey, AddKey, UserLocks, Subscribed,
           SubscribeFails, Unsubscribed, UnsubscribeFails, RemoveKey, UserGoto
  <2> QED
    BY <2>1 DEF CallBacked
<1>3. CASE Subscribed(u)
  <2>1. WireBacked'
    <3> DEFINE r == [op |-> "subscribe", topics |-> ToSet(user[u].call)]
    <3>1. r \in Requests /\ r.topics \subseteq Backed
      BY <1>3, CallTopics DEF Subscribed, Requests, CallBacked
    <3>2. Put(r) /\ UNCHANGED <<streamed, down>>
      BY <1>3 DEF Subscribed, WriteOK
    <3> QED
      BY <3>1, <3>2, PutBacked
  <2>2. CallBacked(u)'
    BY <1>3 DEF Subscribed, CallBacked, Idle
  <2> QED
    BY <1>1, <1>2, <2>1, <2>2
<1>4. CASE Unsubscribed(u)
  <2>1. WireBacked'
    <3> DEFINE r == [op |-> "unsubscribe", topics |-> ToSet(user[u].call)]
    <3>1. r \in Requests
      BY <1>4, CallTopics DEF Unsubscribed, Requests
    <3>2. Put(r) /\ UNCHANGED <<streamed, down>>
      BY <1>4 DEF Unsubscribed, WriteOK
    <3> QED
      BY <3>1, <3>2, PutBacked
  <2>2. CallBacked(u)'
    BY <1>4 DEF Unsubscribed, UserGoto, CallBacked
  <2> QED
    BY <1>1, <1>2, <2>1, <2>2
<1>5. CASE ~Subscribed(u) /\ ~Unsubscribed(u)
  <2>1. UNCHANGED <<up, streamed, down>>
    BY <1>5 DEF UserStep, Begin, Withdraw, CheckKey, AddKey, UserLocks,
                SubscribeFails, UnsubscribeFails, RemoveKey, WriteFails, net
  <2>2. WireBacked'
    BY <2>1 DEF WireBacked
  <2>3. CallBacked(u)'
    <3>1. CASE AddKey(u)
      <4>1. ToSet(user[u].todo) = ToSet(Tail(user[u].todo)) \cup {Head(user[u].todo)}
        BY <3>1, TailSet DEF AddKey
      <4>2. ToSet(<<>>) = {}
        BY DEF ToSet
      <4> QED
        BY <3>1, <4>1, <4>2 DEF AddKey, CallBacked, Backed
    <3>2. CASE RemoveKey(u)
      <4>1. ToSet(Tail(user[u].todo)) \subseteq ToSet(user[u].todo)
        BY <3>2, TailSet DEF RemoveKey
      <4> QED
        BY <3>2, <4>1 DEF RemoveKey, CallBacked, Idle
    <3>3. ASSUME NEW c \in Calls, Begin(u, c) \/ Withdraw(u, c) PROVE CallBacked(u)'
      BY <3>3 DEF Begin, Withdraw, CallBacked
    <3>4. CASE CheckKey(u) \/ UserLocks(u)
      <4>1. \/ user'[u].pc = "idle"
            \/ /\ user'[u].call = user[u].call /\ user'[u].todo = user[u].todo
               /\ <<user[u].pc, user'[u].pc>> \in
                    {<<"check", "add">>, <<"lock", "subscribe">>, <<"relock", "unsubscribe">>}
        BY <3>4 DEF CheckKey, UserLocks, UserGoto, Idle
      <4> QED
        BY <4>1 DEF CallBacked
    <3>5. CASE SubscribeFails(u) \/ UnsubscribeFails(u)
      BY <3>5 DEF SubscribeFails, UnsubscribeFails, CallBacked, Idle
    <3> QED
      BY <1>5, <3>1, <3>2, <3>3, <3>4, <3>5 DEF UserStep
  <2> QED
    BY <1>1, <1>2, <2>2, <2>3
<1> QED
  BY <1>3, <1>4, <1>5

\* The reader looks a topic up that came in a message, and misses it only
\* if it has no handler any more.
LEMMA ReaderExplained ==
  ASSUME TypeOK, Explained, Backed \subseteq Backed', withdrawn \subseteq withdrawn',
         ReaderStep \/ ReadFails
  PROVE  Explained'
<1> USE DEF TypeOK, Explained, ReaderAt
<1>1. ASSUME NEW u \in Users PROVE CallBacked(u)'
  <2>1. UNCHANGED user
    BY DEF ReaderStep, Receive, ReadTimesOut, LookUp, Handle, ReportError,
           CloseConnection, CloseDone, ReadFails, app
  <2> QED
    BY <2>1 DEF CallBacked
<1>2. CASE Receive
  <2>1. Head(down) \in ToSet(down) /\ Head(down) \in Topics \cup {"pong", "close"}
        /\ ToSet(down') \subseteq ToSet(down)
    BY <1>2, TailSet DEF Receive, NetType
  <2>2. WireBacked'
    BY <1>2, <2>1 DEF Receive, WireBacked
  <2>3. ReaderBacked'
    BY <1>2, <2>1 DEF Receive, WireBacked, ReaderBacked, reading
  <2> QED
    BY <1>1, <2>2, <2>3
<1>3. CASE LookUp \/ Handle \/ ReportError \/ CloseConnection \/ CloseDone
           \/ ReadFails \/ ReadTimesOut
  <2>1. UNCHANGED <<up, streamed, down>>
    BY <1>3 DEF LookUp, Handle, ReportError, CloseConnection, CloseDone, ReadFails,
                ReadTimesOut, net
  <2>2. WireBacked'
    BY <2>1 DEF WireBacked
  <2>3. ReaderBacked'
    BY <1>3 DEF LookUp, Handle, ReportError, CloseConnection, CloseDone, ReadFails,
                ReadTimesOut, ReaderBacked, Backed, net
  <2> QED
    BY <1>1, <2>2, <2>3
<1> QED
  BY <1>2, <1>3 DEF ReaderStep

\* Start, the network and the server.
LEMMA RestExplained ==
  ASSUME TypeOK, Explained, Backed \subseteq Backed', withdrawn \subseteq withdrawn',
         \/ OnDone \/ OnTick \/ OnCancel \/ StarterLocks \/ StarterWrites \/ StopWaiting
         \/ Environment \/ UNCHANGED vars
  PROVE  Explained'
<1> USE DEF TypeOK, Explained
<1>1. CASE ReadFails
  BY <1>1, ReaderExplained
<1>2. CASE ~ReadFails
  <2>1. UNCHANGED <<user, reader, topic>>
    BY <1>2 DEF OnDone, OnTick, OnCancel, StarterLocks, StarterWrites, Pinged, PingFails,
                CloseSent, CloseFails, StopWaiting, Environment, Cancel, DeadlinePasses,
                LoseConnection, Serve, Stream, ServerCloses, ConcurrentMapAccess,
                app, reading, vars
  <2>2. ReaderBacked' /\ \A u \in Users : CallBacked(u)'
    BY <2>1 DEF ReaderBacked, CallBacked
  <2>3. CASE UNCHANGED <<up, streamed, down>>
    BY <2>2, <2>3 DEF WireBacked
  <2>4. CASE OnDone \/ OnTick \/ OnCancel \/ StarterLocks \/ PingFails \/ CloseFails
             \/ StopWaiting \/ Cancel \/ DeadlinePasses \/ ConcurrentMapAccess
             \/ UNCHANGED vars
    BY <2>3, <2>4 DEF OnDone, OnTick, OnCancel, StarterLocks, PingFails, CloseFails,
                      StopWaiting, Cancel, DeadlinePasses, ConcurrentMapAccess,
                      WriteFails, net, vars
  <2>5. CASE Pinged \/ CloseSent
    <3>1. \A op \in {"ping", "close"} :
            Control(op) \in Requests /\ Control(op).op # "subscribe"
      BY DEF Control, Requests
    <3>2. UNCHANGED <<streamed, down>> /\ (Put(Control("ping")) \/ Put(Control("close")))
      BY <2>5 DEF Pinged, CloseSent, WriteOK
    <3> QED
      BY <2>2, <3>1, <3>2, PutBacked
  <2>6. CASE LoseConnection
    BY <2>2, <2>6 DEF LoseConnection, WireBacked, ToSet
  <2>7. CASE Serve
    <3>1. Head(up) \in ToSet(up) /\ ToSet(up') \subseteq ToSet(up)
      BY <2>7, TailSet DEF Serve, NetType
    <3>2. streamed' \subseteq Backed
      BY <2>7, <3>1 DEF Serve, WireBacked
    <3>3. ToSet(down') \cap Topics \subseteq Backed'
      <4>1. CASE UNCHANGED down
        BY <4>1 DEF WireBacked
      <4>2. ASSUME NEW m \in {"pong", "close"}, Send(m)
            PROVE  ToSet(down') \cap Topics \subseteq Backed'
        BY <4>2, SendBacked, WsAssumption
      <4> QED
        BY <2>7, <4>1, <4>2 DEF Serve
    <3> QED
      BY <2>2, <3>1, <3>2, <3>3 DEF WireBacked
  <2>8. CASE ServerCloses \/ \E t \in Topics : Stream(t)
    <3>1. UNCHANGED <<up, streamed>>
      BY <2>8 DEF ServerCloses, Stream
    <3>2. ToSet(down') \cap Topics \subseteq Backed'
      <4>1. CASE ServerCloses
        BY <4>1, SendBacked, WsAssumption DEF ServerCloses
      <4>2. ASSUME NEW t \in Topics, Stream(t)
            PROVE  ToSet(down') \cap Topics \subseteq Backed'
        BY <4>2, SendBacked DEF Stream, WireBacked
      <4> QED
        BY <2>8, <4>1, <4>2
    <3> QED
      BY <2>2, <3>1, <3>2 DEF WireBacked
  <2> QED
    BY <1>2, <2>4, <2>5, <2>6, <2>7, <2>8 DEF StarterWrites, Environment
<1> QED
  BY <1>1, <1>2

\* For any number of goroutines, a message that finds no handler, which ends
\* the reader, is of a topic whose unsubscription was written
\* (v5_ws_public_kline.go, retrieveKlineFunc).
THEOREM Misses == Spec => []MissExplained
<1>1. Init => Explained
  BY DEF Init, Explained, CallBacked, WireBacked, ReaderBacked, Backed, Idle, ToSet
<1>2. TypeOK /\ Explained /\ [Next]_vars => Explained'
  BY BackedGrows, UserExplained, ReaderExplained, RestExplained DEF Next
<1>3. Explained => MissExplained
  BY DEF Explained, ReaderBacked, MissExplained
<1> QED
  BY <1>1, <1>2, <1>3, InitType, NextType, PTL DEF Spec

----------------------------------------------------------------------------
(***************************************************************************)
(* With one goroutine that subscribes, a streamed topic has its handler    *)
(* until the server has been asked to stop.                                *)
(***************************************************************************)

OneUser == \E u : Users = {u}

\* A topic without a handler, or about to lose it.
Gone(t) ==
  \/ t \notin registered
  \/ \E u \in Users : user[u].pc = "remove" /\ t \in ToSet(user[u].todo)

\* Behind place i of the requests, one to stop the topic.
Undone(t, i) ==
  \E j \in DOMAIN up : j > i /\ up[j].op = "unsubscribe" /\ t \in up[j].topics

\* Once the requests are served, the server will not stream the topic.
Stops(t) ==
  /\ t \in streamed => Undone(t, 0)
  /\ \A i \in DOMAIN up :
       up[i].op = "subscribe" /\ t \in up[i].topics => Undone(t, i)

\* What a call holds, for nobody else removes keys.
Holds(u) ==
  /\ user[u].pc \in {"check", "add"} =>
       ToSet(user[u].call) \subseteq registered \cup ToSet(user[u].todo)
  /\ user[u].pc \in {"lock", "subscribe"} => ToSet(user[u].call) \subseteq registered
  /\ user[u].pc \in {"relock", "unsubscribe"} => user[u].todo = user[u].call

Settled ==
  /\ OneUser
  /\ \A u \in Users : Holds(u)
  /\ \A t \in Topics : Gone(t) => Stops(t)
  /\ conn = "lost" => up = <<>> /\ streamed = {}

\* A request that does not subscribe to a topic does not make it stream.
LEMMA PutStops ==
  ASSUME TypeOK, NEW t \in Topics, Stops(t), NEW r \in Requests, Put(r),
         ~(r.op = "subscribe" /\ t \in r.topics), UNCHANGED streamed
  PROVE  Stops(t)'
<1>1. CASE UNCHANGED up
  BY <1>1 DEF Stops, Undone
<1>2. CASE up' = Append(up, r)
  <2>1. /\ DOMAIN up' = 1 .. Len(up) + 1 /\ DOMAIN up = 1 .. Len(up) /\ Len(up) \in Nat
        /\ up'[Len(up) + 1] = r /\ \A i \in DOMAIN up : up'[i] = up[i]
    BY <1>2, AppendProperties, LenProperties DEF TypeOK, NetType
  <2>2. \A i \in Nat : Undone(t, i) => Undone(t, i)'
    BY <2>1 DEF Undone
  <2> QED
    BY <2>1, <2>2 DEF Stops
<1> QED
  BY <1>1, <1>2 DEF Put

\* A request to stop a topic stops it, whatever was requested before.
LEMMA WithdrawStops ==
  ASSUME TypeOK, NEW t \in Topics, NEW r \in Requests, up' = Append(up, r),
         r.op = "unsubscribe", t \in r.topics
  PROVE  Stops(t)'
<1>1. /\ DOMAIN up' = 1 .. Len(up) + 1 /\ Len(up) \in Nat
      /\ up'[Len(up) + 1] = r
  BY AppendProperties, LenProperties DEF TypeOK, NetType
<1>2. \A i \in 0 .. Len(up) : Undone(t, i)'
  BY <1>1 DEF Undone
<1> QED
  BY <1>1, <1>2 DEF Stops

\* The server serves the requests in their order.
LEMMA ServeStops ==
  ASSUME TypeOK, NEW t \in Topics, Stops(t), Serve
  PROVE  Stops(t)'
<1>1. /\ DOMAIN up = 1 .. Len(up) /\ Len(up) \in Nat \ {0} /\ Head(up) = up[1]
      /\ DOMAIN up' = 1 .. Len(up) - 1
      /\ \A i \in 1 .. Len(up) - 1 : up'[i] = up[i + 1]
  BY HeadTailProperties, LenProperties, EmptySeq DEF Serve, TypeOK, NetType
<1>2. \A i \in Nat : Undone(t, i + 1) => Undone(t, i)'
  <2> SUFFICES ASSUME NEW i \in Nat, NEW j \in DOMAIN up, j > i + 1,
                      up[j].op = "unsubscribe", t \in up[j].topics
               PROVE  Undone(t, i)'
    BY DEF Undone
  <2>1. j - 1 \in DOMAIN up' /\ up'[j - 1] = up[j] /\ j - 1 > i
    BY <1>1
  <2> QED
    BY <2>1 DEF Undone
<1>3. ASSUME t \in streamed' PROVE Undone(t, 0)'
  <2>1. CASE Head(up).op = "subscribe" /\ t \in Head(up).topics
    BY <1>1, <1>2, <2>1 DEF Stops
  <2>2. CASE t \in streamed /\ ~(Head(up).op = "unsubscribe" /\ t \in Head(up).topics)
    <3>1. Undone(t, 1)
      BY <1>1, <2>2 DEF Stops, Undone
    <3> QED
      BY <1>2, <3>1
  <2> QED
    BY <1>3, <2>1, <2>2 DEF Serve
<1>4. ASSUME NEW i \in DOMAIN up', up'[i].op = "subscribe", t \in up'[i].topics
      PROVE  Undone(t, i)'
  <2>1. i + 1 \in DOMAIN up /\ up[i + 1] = up'[i] /\ i \in Nat
    BY <1>1
  <2> QED
    BY <1>2, <1>4, <2>1 DEF Stops
<1> QED
  BY <1>3, <1>4 DEF Stops

\* The application.
LEMMA UserSettled ==
  ASSUME TypeOK, Settled, NEW u \in Users,
         UserStep(u) \/ \E c \in Calls : Begin(u, c) \/ Withdraw(u, c)
  PROVE  Settled'
<1> USE DEF TypeOK, AppType, Settled, UserAt
<1>1. Users = {u} /\ UNCHANGED conn /\ UNCHANGED streamed
  BY DEF OneUser, UserStep, Begin, Withdraw, CheckKey, AddKey, UserLocks, Subscribed,
         SubscribeFails, Unsubscribed, UnsubscribeFails, RemoveKey, WriteOK, WriteFails,
         link, net
<1>2. CASE Subscribed(u)
  <2> DEFINE r == [op |-> "subscribe", topics |-> ToSet(user[u].call)]
  <2>1. r \in Requests /\ Put(r) /\ UNCHANGED registered /\ user'[u] = Idle
    BY <1>2, CallTopics DEF Subscribed, Requests, WriteOK
  <2>2. ASSUME NEW t \in Topics, Gone(t)' PROVE Stops(t)'
    <3>1. t \notin registered
      BY <1>1, <2>1, <2>2 DEF Gone, Idle
    <3>2. Gone(t) /\ t \notin r.topics
      BY <1>2, <3>1 DEF Gone, Holds, Subscribed
    <3> QED
      BY <1>1, <2>1, <3>2, PutStops
  <2>3. Holds(u)' /\ (conn' = "lost" => up' = <<>>)
    BY <1>1, <2>1 DEF Holds, Idle, Put
  <2> QED
    BY <1>1, <2>2, <2>3
<1>3. CASE Unsubscribed(u)
  <2> DEFINE r == [op |-> "unsubscribe", topics |-> ToSet(user[u].call)]
  <2>1. r \in Requests /\ Put(r) /\ UNCHANGED registered /\ conn # "closed"
    BY <1>3, CallTopics DEF Unsubscribed, Requests, WriteOK, Writable
  <2>2. user'[u].pc = "remove" /\ user'[u].todo = user[u].call
    BY <1>3 DEF Unsubscribed, UserGoto, Holds
  <2>3. ASSUME NEW t \in Topics, Gone(t)' PROVE Stops(t)'
    <3>1. CASE conn = "lost"
      BY <1>1, <2>1, <3>1 DEF Put, Stops
    <3>2. CASE conn = "open" /\ t \in r.topics
      BY <2>1, <3>2, WithdrawStops DEF Put
    <3>3. CASE t \notin r.topics
      <4>1. Gone(t)
        BY <1>1, <2>1, <2>2, <2>3, <3>3 DEF Gone
      <4> QED
        BY <1>1, <2>1, <4>1, PutStops
    <3> QED
      BY <2>1, <3>1, <3>2, <3>3 DEF NetType
  <2>4. Holds(u)' /\ (conn' = "lost" => up' = <<>>)
    BY <1>1, <2>1, <2>2 DEF Holds, Put
  <2> QED
    BY <1>1, <2>3, <2>4
<1>4. CASE ~Subscribed(u) /\ ~Unsubscribed(u)
  <2>1. UNCHANGED up
    BY <1>4 DEF UserStep, Begin, Withdraw, CheckKey, AddKey, UserLocks,
                SubscribeFails, UnsubscribeFails, RemoveKey, WriteFails, net
  <2>2. \A t \in Topics : Stops(t) => Stops(t)'
    BY <1>1, <2>1 DEF Stops, Undone
  <2>3. Holds(u)' /\ \A t \in Topics : Gone(t)' => Gone(t)
    <3>1. CASE AddKey(u)
      <4>1. ToSet(user[u].todo) = ToSet(Tail(user[u].todo)) \cup {Head(user[u].todo)}
        BY <3>1, TailSet DEF AddKey
      <4>2. ToSet(<<>>) = {}
        BY DEF ToSet
      <4>3. Holds(u)'
        BY <3>1, <4>1, <4>2 DEF AddKey, Holds
      <4> QED
        BY <1>1, <3>1, <4>3 DEF AddKey, Gone
    <3>2. CASE RemoveKey(u)
      <4>1. ToSet(user[u].todo) = ToSet(Tail(user[u].todo)) \cup {Head(user[u].todo)}
        BY <3>2, TailSet DEF RemoveKey
      <4>2. Holds(u)'
        BY <3>2 DEF RemoveKey, Holds, Idle
      <4> QED
        BY <1>1, <3>2, <4>1, <4>2 DEF RemoveKey, Gone, Idle
    <3>3. ASSUME NEW c \in Calls, Begin(u, c) \/ Withdraw(u, c)
          PROVE  Holds(u)' /\ \A t \in Topics : Gone(t)' => Gone(t)
      BY <1>1, <3>3 DEF Begin, Withdraw, Holds, Gone
    <3>4. CASE CheckKey(u) \/ UserLocks(u)
      <4>1. /\ UNCHANGED registered
            /\ \/ user'[u].pc = "idle"
               \/ /\ user'[u].call = user[u].call /\ user'[u].todo = user[u].todo
                  /\ <<user[u].pc, user'[u].pc>> \in
                       {<<"check", "add">>, <<"lock", "subscribe">>, <<"relock", "unsubscribe">>}
        BY <3>4 DEF CheckKey, UserLocks, UserGoto, Idle
      <4> QED
        BY <1>1, <4>1 DEF Holds, Gone
    <3>5. CASE SubscribeFails(u) \/ UnsubscribeFails(u)
      BY <1>1, <3>5 DEF SubscribeFails, UnsubscribeFails, Holds, Gone, Idle
    <3> QED
      BY <1>4, <3>1, <3>2, <3>3, <3>4, <3>5 DEF UserStep
  <2> QED
    BY <1>1, <2>1, <2>2, <2>3
<1> QED
  BY <1>2, <1>3, <1>4

\* Nobody else touches the handlers.
LEMMA RestSettled ==
  ASSUME TypeOK, Settled,
         \/ ReaderStep \/ Environment
         \/ OnDone \/ OnTick \/ OnCancel \/ StarterLocks \/ StarterWrites \/ StopWaiting
         \/ UNCHANGED vars
  PROVE  Settled'
<1> USE DEF TypeOK, Settled
<1>1. UNCHANGED <<registered, user>>
  BY DEF ReaderStep, Receive, ReadTimesOut, LookUp, Handle, ReportError,
         CloseConnection, CloseDone, ReadFails,
         OnDone, OnTick, OnCancel, StarterLocks, StarterWrites, Pinged, PingFails,
         CloseSent, CloseFails, StopWaiting, Environment, Cancel, DeadlinePasses,
         LoseConnection, Serve, Stream, ServerCloses, ConcurrentMapAccess, app, vars
<1>2. \A u \in Users : Holds(u)'
  BY <1>1 DEF Holds
<1>3. \A t \in Topics : Gone(t)' => Gone(t)
  BY <1>1 DEF Gone
<1>4. CASE Pinged \/ CloseSent
  <2>1. PICK op \in {"ping", "close"} :
          Put(Control(op)) /\ UNCHANGED <<streamed, conn>>
    BY <1>4 DEF Pinged, CloseSent, WriteOK, link
  <2>2. Control(op) \in Requests /\ Control(op).op # "subscribe"
    BY DEF Control, Requests
  <2>3. \A t \in Topics : Stops(t) => Stops(t)'
    BY <2>1, <2>2, PutStops
  <2> QED
    BY <1>2, <1>3, <2>1, <2>3 DEF Put
<1>5. CASE Serve
  <2>1. \A t \in Topics : Stops(t) => Stops(t)'
    BY <1>5, ServeStops
  <2>2. UNCHANGED conn /\ conn # "lost"
    BY <1>5 DEF Serve, link
  <2> QED
    BY <1>2, <1>3, <2>1, <2>2
<1>6. CASE LoseConnection
  BY <1>2, <1>6 DEF LoseConnection, Stops
<1>7. CASE UNCHANGED <<up, streamed>> /\ (conn' = "lost" => conn = "lost")
  <2>1. \A t \in Topics : Stops(t) => Stops(t)'
    BY <1>7 DEF Stops, Undone
  <2> QED
    BY <1>2, <1>3, <1>7, <2>1
<1>8. CASE ReaderStep \/ ReadFails
  BY <1>7, <1>8 DEF ReaderStep, Receive, ReadTimesOut, LookUp, Handle, ReportError,
                    CloseConnection, CloseDone, ReadFails, link, net
<1>9. CASE Cancel \/ DeadlinePasses \/ ServerCloses \/ ConcurrentMapAccess
           \/ (\E t \in Topics : Stream(t)) \/ UNCHANGED vars
  BY <1>7, <1>9 DEF Cancel, DeadlinePasses, ServerCloses, ConcurrentMapAccess, Stream,
                    link, net, vars
<1>10. CASE OnDone \/ OnTick \/ OnCancel \/ StarterLocks \/ PingFails \/ CloseFails
            \/ StopWaiting
  BY <1>7, <1>10 DEF OnDone, OnTick, OnCancel, StarterLocks, PingFails, CloseFails,
                     StopWaiting, WriteFails, link, net
<1> QED
  BY <1>4, <1>5, <1>6, <1>8, <1>9, <1>10 DEF StarterWrites, Environment

\* With one goroutine, a topic the server streams has its handler, or the
\* request to stop it is on its way; through lists of several keys, keys
\* taken twice, functions called twice and writes that fail
\* (v5_ws_public_kline.go, subscribeKlines).
THEOREM Handled == OneUser => (Spec => []StreamHasHandler)
<1>1. OneUser /\ Init => Settled
  <2> SUFFICES ASSUME OneUser, Init PROVE Settled
    OBVIOUS
  <2>1. DOMAIN up = {}
    BY DEF Init
  <2> QED
    BY <2>1 DEF Init, Settled, Holds, Stops, Idle
<1>2. TypeOK /\ Settled /\ [Next]_vars => Settled'
  BY UserSettled, RestSettled DEF Next
<1>3. TypeOK /\ Settled => StreamHasHandler
  BY DEF TypeOK, NetType, Settled, Gone, Stops, Undone, StreamHasHandler
<1> QED
  BY <1>1, <1>2, <1>3, InitType, NextType, PTL DEF Spec

----------------------------------------------------------------------------
(***************************************************************************)
(* When Start returns because the reader ended.                            *)
(***************************************************************************)

\* The deferred calls ran, in their order, and neither the connection nor the
\* reader comes back.
Deferred ==
  /\ exit = "done" => reader = "done"
  /\ reader \in {"closing", "done"} => conn = "closed"

\* Only the reader's own steps and Start's select touch either.
LEMMA NextDeferred == Deferred /\ [Next]_vars => Deferred'
<1> SUFFICES ASSUME Deferred, [Next]_vars PROVE Deferred'
  OBVIOUS
<1> USE DEF Deferred, reading, link, life, app
<1>1. CASE UNCHANGED <<exit, reader>> /\ (conn = "closed" => conn' = "closed")
  BY <1>1
<1>2. CASE ReaderStep \/ ReadFails
  BY <1>2 DEF ReaderStep, Receive, ReadTimesOut, LookUp, Handle, ReportError,
              CloseConnection, CloseDone, ReadFails, ReaderAt
<1>3. CASE OnDone \/ StopWaiting
  BY <1>3 DEF OnDone, StopWaiting, Return
<1>4. CASE OnTick \/ OnCancel \/ StarterLocks
  BY <1>1, <1>4 DEF OnTick, OnCancel, StarterLocks, StarterGoto
<1>5. CASE StarterWrites
  BY <1>5 DEF StarterWrites, Pinged, PingFails, CloseSent, CloseFails, WriteOK,
              WriteFails, StarterGoto, Return
<1>6. CASE Environment /\ ~ReadFails
  BY <1>1, <1>6 DEF Environment, Cancel, DeadlinePasses, LoseConnection, Serve,
                    Stream, ServerCloses, ConcurrentMapAccess
<1>7. ASSUME NEW u \in Users,
             UserStep(u) \/ \E c \in Calls : Begin(u, c) \/ Withdraw(u, c)
      PROVE  Deferred'
  BY <1>1, <1>7 DEF UserStep, Begin, Withdraw, CheckKey, AddKey, UserLocks,
     Subscribed, SubscribeFails, Unsubscribed, UnsubscribeFails, RemoveKey,
     WriteOK, WriteFails
<1>8. CASE UNCHANGED vars
  BY <1>1, <1>8 DEF vars
<1> QED
  BY <1>2, <1>3, <1>4, <1>5, <1>6, <1>7, <1>8 DEF Next

\* A Start that returns for the reader's end leaves nothing behind: the error
\* handler has returned and the connection is closed for good, through lost
\* connections, close frames of either side and cancellations that race it
\* (v5_ws_public.go, Start).
THEOREM Clean == Spec => []CleanReturn
<1>1. Init => Deferred
  BY WsAssumption DEF Init, Deferred
<1>2. Deferred => CleanReturn
  BY DEF Deferred, CleanReturn
<1> QED
  BY <1>1, <1>2, NextDeferred, PTL DEF Spec
=============================================================================
