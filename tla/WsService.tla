----------------------------- MODULE WsService -----------------------------
(***************************************************************************)
(* A v5 websocket service (v5_ws_public.go and the files of its topics;    *)
(* v5_ws_private.go shares the scheme).  Goroutines of the application     *)
(* subscribe and unsubscribe; a reader takes one message after another     *)
(* from the connection and calls the handler registered for its topic;     *)
(* Start pings, watches for a cancellation and waits for the reader.       *)
(* They share the connection, whose writes the mutex mu serializes, and    *)
(* the map of handlers, which nothing guards.                              *)
(*                                                                         *)
(* Only the topic of a message is kept.  A Go program that accesses a map  *)
(* while another goroutine writes it may be aborted by the runtime.        *)
(***************************************************************************)
EXTENDS Sequences, SequencesExt, Naturals

CONSTANTS
  Users,        \* goroutines of the application
  Topics,       \* the keys of the handler map
  Calls,        \* the lists of keys one call may subscribe to
  None,
  Starter,      \* the goroutine in Start
  MaxUp,        \* writes the connection buffers before a write blocks
  MaxDown       \* bound on the messages on their way to the reader

ASSUME WsAssumption ==
  /\ Calls \subseteq Seq(Topics) \ {<<>>}
  /\ None \notin Calls /\ None \notin Topics
  /\ None \notin {"done", "timeout", "error"}
  /\ Topics \cap {"pong", "close"} = {}
  /\ Starter \notin Users /\ None \notin Users \cup {Starter}
  /\ MaxUp \in Nat /\ MaxDown \in Nat

VARIABLES
  registered,   \* the keys of the handler map
  closures,     \* the calls whose unsubscribe function the application holds
  user,         \* each goroutine: [pc, call, todo]
  mu,           \* the holder of the write lock
  starter,      \* where Start stands
  cancelled,    \* its context is done
  exit,         \* why Start returned: "done", "timeout" or "error"
  reader,       \* where the reader stands
  topic,        \* the topic of the message it handles
  conn,         \* "open"; "lost" and nobody knows; "closed" on this side
  writes,       \* "ok"; they fail once a close frame was "sent" or one "failed"
  fresh,        \* the read deadline has not passed
  aborted,      \* the runtime has stopped the program
  up,           \* requests on their way to the server
  streamed,     \* the topics the server streams
  down,         \* messages on their way to the reader
  withdrawn     \* history: topics whose unsubscription was ever written

app     == <<registered, closures, user>>
life    == <<starter, cancelled, exit>>
reading == <<reader, topic>>
link    == <<conn, writes>>
net     == <<up, streamed, down, withdrawn>>
vars    == <<app, life, reading, link, net, mu, fresh, aborted>>

Idle == [pc |-> "idle", call |-> None, todo |-> <<>>]

Running == ~aborted

UserAt(u, label)  == Running /\ user[u].pc = label
StarterAt(label)  == Running /\ starter = label
ReaderAt(label)   == Running /\ reader = label

UserGoto(u, label) == user' = [user EXCEPT ![u].pc = label]
----------------------------------------------------------------------------
(***************************************************************************)
(* writeMessage and writeControl: lock, write, unlock.  A write fails when *)
(* writes have failed before, after a close frame, on a connection that is *)
(* gone, and when its deadline passes with the buffers full; from then on  *)
(* every write fails.                                                      *)
(***************************************************************************)

\* The lock is taken, whoever holds it.
LockBug(g) == mu' = g

Lock(g) == mu = None /\ mu' = g

Unlock(g) == mu = g /\ mu' = None

Writable == conn # "closed" /\ writes = "ok"

Put(request) == up' = IF conn = "open" THEN Append(up, request) ELSE up

WriteOK(request) ==
  /\ Writable /\ Len(up) < MaxUp
  /\ Put(request)
  /\ UNCHANGED <<streamed, down, link>>

WriteFails ==
  /\ ~Writable \/ conn = "lost" \/ Len(up) = MaxUp
  /\ writes' = IF writes = "ok" THEN "failed" ELSE writes
  /\ UNCHANGED <<net, conn>>

----------------------------------------------------------------------------
(***************************************************************************)
(* The application: Subscribe... and the function it returns.              *)
(***************************************************************************)

Begin(u, c) ==
  /\ UserAt(u, "idle")
  /\ user' = [user EXCEPT ![u] = [pc |-> "check", call |-> c, todo |-> c]]
  /\ UNCHANGED <<registered, closures, life, reading, link, net, mu, fresh, aborted>>

\* A key that is registered ends the call with an error; the keys before it
\* in the list stay registered.
CheckKey(u) ==
  /\ UserAt(u, "check")
  /\ user' = IF Head(user[u].todo) \in registered
             THEN [user EXCEPT ![u] = Idle]
             ELSE [user EXCEPT ![u].pc = "add"]
  /\ UNCHANGED <<registered, closures, life, reading, link, net, mu, fresh, aborted>>

\* The handler of the list is registered once, under its first key.
AddKeyBug(u) ==
  /\ UserAt(u, "add")
  /\ registered' = registered \cup {Head(user[u].call)}
  /\ LET rest == Tail(user[u].todo) IN
       user' = [user EXCEPT ![u].todo = rest,
                            ![u].pc = IF rest = <<>> THEN "lock" ELSE "add"]
  /\ UNCHANGED <<closures, life, reading, link, net, mu, fresh, aborted>>

AddKey(u) ==
  /\ UserAt(u, "add")
  /\ registered' = registered \cup {Head(user[u].todo)}
  /\ LET rest == Tail(user[u].todo) IN
       user' = [user EXCEPT ![u].todo = rest,
                            ![u].pc = IF rest = <<>> THEN "lock" ELSE "check"]
  /\ UNCHANGED <<closures, life, reading, link, net, mu, fresh, aborted>>

UserLocks(u) ==
  /\ \/ UserAt(u, "lock") /\ UserGoto(u, "subscribe")
     \/ UserAt(u, "relock") /\ UserGoto(u, "unsubscribe")
  /\ Lock(u)
  /\ UNCHANGED <<registered, closures, life, reading, link, net, fresh, aborted>>

Subscribed(u) ==
  /\ UserAt(u, "subscribe")
  /\ WriteOK([op |-> "subscribe", topics |-> ToSet(user[u].call)])
  /\ closures' = closures \cup {user[u].call}
  /\ user' = [user EXCEPT ![u] = Idle]
  /\ Unlock(u)
  /\ UNCHANGED <<registered, withdrawn, life, reading, fresh, aborted>>

\* The keys of a subscription that could not be written stay registered.
SubscribeFails(u) ==
  /\ UserAt(u, "subscribe")
  /\ WriteFails
  /\ user' = [user EXCEPT ![u] = Idle]
  /\ Unlock(u)
  /\ UNCHANGED <<registered, closures, life, reading, fresh, aborted>>

\* The function may be called again, also after it has unsubscribed.
Withdraw(u, c) ==
  /\ UserAt(u, "idle") /\ c \in closures
  /\ user' = [user EXCEPT ![u] = [pc |-> "relock", call |-> c, todo |-> c]]
  /\ UNCHANGED <<registered, closures, life, reading, link, net, mu, fresh, aborted>>

Unsubscribed(u) ==
  /\ UserAt(u, "unsubscribe")
  /\ WriteOK([op |-> "unsubscribe", topics |-> ToSet(user[u].call)])
  /\ withdrawn' = withdrawn \cup ToSet(user[u].call)
  /\ UserGoto(u, "remove")
  /\ Unlock(u)
  /\ UNCHANGED <<registered, closures, life, reading, fresh, aborted>>

\* The handlers are removed although the server was not told.
UnsubscribeFailsBug(u) ==
  /\ UserAt(u, "unsubscribe")
  /\ WriteFails
  /\ UserGoto(u, "remove")
  /\ Unlock(u)
  /\ UNCHANGED <<registered, closures, life, reading, fresh, aborted>>

UnsubscribeFails(u) ==
  /\ UserAt(u, "unsubscribe")
  /\ WriteFails
  /\ user' = [user EXCEPT ![u] = Idle]
  /\ Unlock(u)
  /\ UNCHANGED <<registered, closures, life, reading, fresh, aborted>>

\* The loop does not end.
RemoveKeyBug(u) ==
  /\ UserAt(u, "remove")
  /\ registered' = registered \ {Head(user[u].todo)}
  /\ user' = [user EXCEPT ![u].todo = Tail(user[u].todo)]
  /\ UNCHANGED <<closures, life, reading, link, net, mu, fresh, aborted>>

RemoveKey(u) ==
  /\ UserAt(u, "remove")
  /\ registered' = registered \ {Head(user[u].todo)}
  /\ LET rest == Tail(user[u].todo) IN
       user' = IF rest = <<>> THEN [user EXCEPT ![u] = Idle]
               ELSE [user EXCEPT ![u].todo = rest]
  /\ UNCHANGED <<closures, life, reading, link, net, mu, fresh, aborted>>

\* Two goroutines at the map, one of them to write it.
ConcurrentMapAccess ==
  /\ \E u \in Users :
       /\ UserAt(u, "add") \/ UserAt(u, "remove")
       /\ \/ ReaderAt("lookup")
          \/ \E v \in Users \ {u} : user[v].pc \in {"check", "add", "remove"}
  /\ aborted' = TRUE
  /\ UNCHANGED <<app, life, reading, link, net, mu, fresh>>

----------------------------------------------------------------------------
(***************************************************************************)
(* The goroutine Start makes: Run over and over, and once it fails the     *)
(* error handler, the connection's Close and, last, the channel.           *)
(***************************************************************************)

\* A close frame is answered with one and is an error.
Receive ==
  /\ ReaderAt("read") /\ conn # "closed" /\ fresh /\ down # <<>>
  /\ down' = Tail(down)
  /\ CASE Head(down) = "pong" -> UNCHANGED <<reading, writes>>
       [] Head(down) = "close" ->
            /\ reader' = "failed" /\ UNCHANGED topic
            /\ writes' = IF writes = "ok" THEN "sent" ELSE writes
       [] OTHER -> reader' = "lookup" /\ topic' = Head(down) /\ UNCHANGED writes
  /\ UNCHANGED <<app, life, conn, up, streamed, withdrawn, mu, fresh, aborted>>

\* The peer reset the connection.
ReadFails ==
  /\ ReaderAt("read") /\ conn = "lost"
  /\ reader' = "failed"
  /\ UNCHANGED <<app, life, topic, link, net, mu, fresh, aborted>>

\* There is no read deadline, as in the spot services.
ReadTimesOutBug == FALSE /\ UNCHANGED vars

\* 60 seconds without a pong.
ReadTimesOut ==
  /\ ReaderAt("read") /\ ~fresh
  /\ reader' = "failed"
  /\ UNCHANGED <<app, life, topic, link, net, mu, fresh, aborted>>

\* "func not found" is an error like any other.
LookUp ==
  /\ ReaderAt("lookup")
  /\ reader' = IF topic \in registered THEN "handle" ELSE "missed"
  /\ UNCHANGED <<app, life, topic, link, net, mu, fresh, aborted>>

Handle ==
  /\ ReaderAt("handle")
  /\ reader' \in {"read", "failed"}
  /\ topic' = None
  /\ UNCHANGED <<app, life, link, net, mu, fresh, aborted>>

ReportError ==
  /\ ReaderAt("failed") \/ ReaderAt("missed")
  /\ reader' = "reported"
  /\ UNCHANGED <<app, life, topic, link, net, mu, fresh, aborted>>

\* The deferred calls run in the order they were written.
CloseConnectionBug ==
  /\ \/ ReaderAt("reported") /\ reader' = "done" /\ UNCHANGED conn
     \/ ReaderAt("done") /\ conn # "closed" /\ conn' = "closed" /\ UNCHANGED reader
  /\ UNCHANGED <<app, life, topic, writes, net, mu, fresh, aborted>>

CloseConnection ==
  /\ ReaderAt("reported")
  /\ conn' = "closed"
  /\ reader' = "closing"
  /\ UNCHANGED <<app, life, topic, writes, net, mu, fresh, aborted>>

CloseDone ==
  /\ ReaderAt("closing")
  /\ reader' = "done"
  /\ UNCHANGED <<app, life, topic, link, net, mu, fresh, aborted>>

----------------------------------------------------------------------------
(***************************************************************************)
(* Start.                                                                  *)
(***************************************************************************)

StarterGoto(label) == starter' = label /\ UNCHANGED <<cancelled, exit>>

Return(why) == starter' = "returned" /\ exit' = why /\ UNCHANGED cancelled

OnDone ==
  /\ StarterAt("select") \/ StarterAt("wait")
  /\ reader = "done"
  /\ Return("done")
  /\ UNCHANGED <<app, reading, link, net, mu, fresh, aborted>>

\* The ticker of 20 seconds.
OnTick ==
  /\ StarterAt("select")
  /\ StarterGoto("lock_ping")
  /\ UNCHANGED <<app, reading, link, net, mu, fresh, aborted>>

OnCancel ==
  /\ StarterAt("select") /\ cancelled
  /\ StarterGoto("lock_close")
  /\ UNCHANGED <<app, reading, link, net, mu, fresh, aborted>>

\* A ping is a control frame and a message, each under the lock.
StarterLocks ==
  /\ \/ StarterAt("lock_ping") /\ StarterGoto("ping")
     \/ StarterAt("lock_message") /\ StarterGoto("message")
     \/ StarterAt("lock_close") /\ StarterGoto("close")
  /\ Lock(Starter)
  /\ UNCHANGED <<app, reading, link, net, fresh, aborted>>

Control(op) == [op |-> op, topics |-> {}]

Pinged ==
  /\ \/ StarterAt("ping") /\ StarterGoto("lock_message")
     \/ StarterAt("message") /\ StarterGoto("select")
  /\ WriteOK(Control("ping"))
  /\ Unlock(Starter)
  /\ UNCHANGED <<app, reading, withdrawn, fresh, aborted>>

\* Start returns the error.  The reader and the connection are left behind.
PingFails ==
  /\ StarterAt("ping") \/ StarterAt("message")
  /\ WriteFails
  /\ Return("error")
  /\ Unlock(Starter)
  /\ UNCHANGED <<app, reading, fresh, aborted>>

CloseSent ==
  /\ StarterAt("close")
  /\ Writable /\ Len(up) < MaxUp
  /\ Put(Control("close"))
  /\ writes' = "sent"
  /\ StarterGoto("wait")
  /\ Unlock(Starter)
  /\ UNCHANGED <<app, reading, conn, streamed, down, withdrawn, fresh, aborted>>

\* A close frame that was sent before is no error.
CloseFails ==
  /\ StarterAt("close")
  /\ WriteFails
  /\ IF writes = "sent" THEN StarterGoto("wait") ELSE Return("error")
  /\ Unlock(Starter)
  /\ UNCHANGED <<app, reading, fresh, aborted>>

\* Start waits for the reader without a limit.
StopWaitingBug == FALSE /\ UNCHANGED vars

\* time.After(time.Second)
StopWaiting ==
  /\ StarterAt("wait")
  /\ Return("timeout")
  /\ UNCHANGED <<app, reading, link, net, mu, fresh, aborted>>

----------------------------------------------------------------------------
(***************************************************************************)
(* The caller's context, the clock, the network and the server.            *)
(***************************************************************************)

Cancel ==
  /\ Running /\ ~cancelled
  /\ cancelled' = TRUE
  /\ UNCHANGED <<starter, exit, app, reading, link, net, mu, fresh, aborted>>

\* 60 seconds have passed without a pong.
DeadlinePasses ==
  /\ Running /\ fresh
  /\ fresh' = FALSE
  /\ UNCHANGED <<app, life, reading, link, net, mu, aborted>>

LoseConnection ==
  /\ Running /\ conn = "open"
  /\ conn' = "lost"
  /\ up' = <<>> /\ down' = <<>> /\ streamed' = {}
  /\ UNCHANGED <<app, life, reading, writes, withdrawn, mu, fresh, aborted>>

Send(message) ==
  /\ Running /\ conn = "open" /\ Len(down) < MaxDown
  /\ down' = Append(down, message)

\* The server takes the next request; it answers pings and closes.
Serve ==
  /\ up # <<>>
  /\ LET request == Head(up) IN
       \/ /\ request.op \in {"ping", "close"}
          /\ Send(IF request.op = "ping" THEN "pong" ELSE "close")
          /\ UNCHANGED streamed
       \/ /\ request.op \in {"subscribe", "unsubscribe"}
          /\ Running /\ conn = "open"
          /\ streamed' = IF request.op = "subscribe"
                         THEN streamed \cup request.topics
                         ELSE streamed \ request.topics
          /\ UNCHANGED down
  /\ up' = Tail(up)
  /\ UNCHANGED <<app, life, reading, link, withdrawn, mu, fresh, aborted>>

Stream(t) ==
  /\ t \in streamed
  /\ Send(t)
  /\ UNCHANGED <<app, life, reading, link, up, streamed, withdrawn, mu, fresh, aborted>>

ServerCloses ==
  /\ Send("close")
  /\ UNCHANGED <<app, life, reading, link, up, streamed, withdrawn, mu, fresh, aborted>>

----------------------------------------------------------------------------
Init ==
  /\ registered = {} /\ closures = {}
  /\ user = [u \in Users |-> Idle]
  /\ mu = None
  /\ starter = "select" /\ cancelled = FALSE /\ exit = None
  /\ reader = "read" /\ topic = None
  /\ conn = "open" /\ writes = "ok" /\ fresh = TRUE /\ aborted = FALSE
  /\ up = <<>> /\ streamed = {} /\ down = <<>> /\ withdrawn = {}

\* The steps of a call that has begun.
UserStep(u) ==
  \/ CheckKey(u) \/ AddKey(u) \/ UserLocks(u)
  \/ Subscribed(u) \/ SubscribeFails(u)
  \/ Unsubscribed(u) \/ UnsubscribeFails(u) \/ RemoveKey(u)

ReaderStep ==
  \/ Receive \/ ReadTimesOut \/ LookUp \/ Handle
  \/ ReportError \/ CloseConnection \/ CloseDone

StarterWrites == Pinged \/ PingFails \/ CloseSent \/ CloseFails

Environment ==
  \/ Cancel \/ DeadlinePasses \/ LoseConnection \/ ReadFails
  \/ Serve \/ (\E t \in Topics : Stream(t)) \/ ServerCloses
  \/ ConcurrentMapAccess

Next ==
  \/ \E u \in Users :
       \/ \E c \in Calls : Begin(u, c) \/ Withdraw(u, c)
       \/ UserStep(u)
  \/ ReaderStep
  \/ OnDone \/ OnTick \/ OnCancel \/ StarterLocks \/ StarterWrites \/ StopWaiting
  \/ Environment

Spec == Init /\ [][Next]_vars

\* Goroutines run; select chooses at random among what is ready and a mutex
\* starves nobody, hence the strong fairness; once Start no longer pings,
\* pongs end and the read deadline passes.
Fairness ==
  /\ \A u \in Users : WF_vars(UserStep(u))
  /\ WF_vars(ReaderStep)
  /\ WF_vars(StarterWrites) /\ WF_vars(StopWaiting)
  /\ SF_vars(StarterLocks) /\ SF_vars(OnCancel) /\ SF_vars(OnDone)
  /\ WF_vars(DeadlinePasses /\ starter = "returned")

FairSpec == Spec /\ Fairness
----------------------------------------------------------------------------
(***************************************************************************)
(* What must hold.                                                         *)
(***************************************************************************)

UserLabels    == {"idle", "check", "add", "lock", "subscribe",
                  "relock", "unsubscribe", "remove"}
StarterLabels == {"select", "lock_ping", "ping", "lock_message", "message",
                  "lock_close", "close", "wait", "returned"}
ReaderLabels  == {"read", "lookup", "handle", "failed", "missed",
                  "reported", "closing", "done"}
Requests == [op : {"subscribe", "unsubscribe", "ping", "close"},
             topics : SUBSET Topics]

AppType ==
  /\ registered \subseteq Topics /\ closures \subseteq Calls
  /\ user \in [Users -> [pc : UserLabels, call : Calls \cup {None}, todo : Seq(Topics)]]
  /\ \A u \in Users : user[u].pc # "idle" =>
       /\ user[u].call # None
       /\ user[u].todo # <<>> \/ user[u].pc \in {"lock", "subscribe"}

StartType ==
  /\ mu \in Users \cup {Starter, None}
  /\ starter \in StarterLabels /\ cancelled \in BOOLEAN
  /\ exit \in {"done", "timeout", "error", None}

ReaderType ==
  /\ reader \in ReaderLabels /\ topic \in Topics \cup {None}
  /\ reader \in {"lookup", "handle", "missed"} => topic # None

NetType ==
  /\ conn \in {"open", "lost", "closed"} /\ writes \in {"ok", "sent", "failed"}
  /\ fresh \in BOOLEAN /\ aborted \in BOOLEAN
  /\ up \in Seq(Requests) /\ Len(up) <= MaxUp
  /\ down \in Seq(Topics \cup {"pong", "close"}) /\ Len(down) <= MaxDown
  /\ streamed \subseteq Topics /\ withdrawn \subseteq Topics

\* Every variable keeps its type; in particular a step of a call finds the
\* keys it has still to handle, and the reader the topic it looks up.
TypeOK == AppType /\ StartType /\ ReaderType /\ NetType

\* gorilla/websocket allows one writer at a time: the writes of a
\* subscription, an unsubscription and a ping exclude each other (mu).
Writing ==
  {u \in Users : user[u].pc \in {"subscribe", "unsubscribe"}}
    \cup (IF starter \in {"ping", "message", "close"} THEN {Starter} ELSE {})

OneWriter == \A g, h \in Writing : g = h

\* With one goroutine that subscribes: a topic the server streams has its
\* handler until the server has been asked to stop, through subscriptions of
\* several keys, keys registered twice, functions called twice, and writes
\* that fail.
StreamHasHandler ==
  \A t \in streamed :
    \/ t \in registered
    \/ \E i \in DOMAIN up : up[i].op = "unsubscribe" /\ t \in up[i].topics

\* A message for which there is no handler, which ends the service, is of a
\* topic somebody unsubscribed from.
MissExplained == reader = "missed" => topic \in withdrawn

\* When Start returns because the reader ended, the error handler has
\* returned and the connection is closed: a caller may dial again.
CleanReturn == exit = "done" => reader = "done" /\ conn = "closed"

Over == starter = "returned" \/ aborted

\* Start returns once its context is done, whatever the server does.
CancelReturns == cancelled ~> Over

\* Whatever made Start return, the reader and its connection do not outlive
\* it for good.
ReaderEnds == Over ~> (reader = "done" \/ aborted)
=============================================================================
