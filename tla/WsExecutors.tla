---------------------------- MODULE WsExecutors ----------------------------
(***************************************************************************)
(* Start of the websocket client (client_web_socket.go): several services  *)
(* behind one reader, which takes their messages in turns, and one loop    *)
(* that pings them, watches for a cancellation and closes them.  Start of  *)
(* a spot service is the same with that service alone.                     *)
(*                                                                         *)
(* Unlike Start of a v5 service (WsService) this one sets no read deadline *)
(* and closes no connection.  The v5 services write under a mutex and a    *)
(* deadline; the spot services write with neither, and gorilla/websocket   *)
(* panics on a second writer it notices.                                   *)
(***************************************************************************)
EXTENDS Naturals

CONSTANTS
  N,            \* the executors are 1..N, in the order of the list
  Locked,       \* those of a v5 service
  Users,        \* goroutines of the application that subscribe
  MaxInbox      \* bound on the messages that wait at a connection

ASSUME ExecutorsAssumption ==
  /\ N \in Nat \ {0} /\ MaxInbox \in Nat \ {0}
  /\ Locked \subseteq 1..N
  /\ 0 \notin Users      \* Writers names Start 0

VARIABLES
  reader,       \* "running" or "done"
  turn,         \* the executor it runs
  starter,      \* Start: [pc, at: the executor it turns to, left: writes to do]
  cancelled,    \* its context is done
  exit,         \* why it returned
  user,         \* each goroutine: the executor it writes to, or 0
  inbox,        \* the messages that wait at each executor
  peer,         \* each server: "up"; "stalled": it neither reads nor writes;
                \* it "closed" the connection, or that is "lost"
  writes,       \* "ok"; they fail once a close frame was "sent" or one "failed"
  aborted       \* the program has panicked

life == <<starter, cancelled, exit>>
net == <<inbox, peer, writes>>
vars == <<reader, turn, life, user, net, aborted>>

Executors == 1..N

At(pc, e, left) == [pc |-> pc, at |-> e, left |-> left]
StarterAt(pc) == ~aborted /\ starter.pc = pc

\* Who is inside a write to e.
StarterWritesTo(e) == starter.pc \in {"pinging", "closing"} /\ starter.at = e
Busy(e) == StarterWritesTo(e) \/ \E u \in Users : user[u] = e

Init ==
  /\ reader = "running" /\ turn = 1
  /\ starter = At("select", 1, 0) /\ cancelled = FALSE /\ exit = "none"
  /\ user = [u \in Users |-> 0]
  /\ inbox = [e \in Executors |-> 0]
  /\ peer = [e \in Executors |-> "up"]
  /\ writes = [e \in Executors |-> "ok"]
  /\ aborted = FALSE
----------------------------------------------------------------------------
(* Writes *)

\* The services take no lock.
EnterBug(e) == aborted' \in {FALSE, Busy(e)}

\* A v5 service waits for its lock; without one two writers may be noticed.
Enter(e) == IF e \in Locked THEN ~Busy(e) /\ UNCHANGED aborted
            ELSE aborted' \in {FALSE, Busy(e)}

\* What was written may sit in a buffer, whatever has become of the server.
WriteOK(e, frame) ==
  /\ writes[e] = "ok"
  /\ writes' = [writes EXCEPT ![e] = IF frame = "close" THEN "sent" ELSE "ok"]

\* A deadline that passes is an error, for those who set one.
WriteFails(e) ==
  /\ \/ writes[e] # "ok" \/ peer[e] \in {"lost", "closed"}
     \/ peer[e] = "stalled" /\ e \in Locked
  /\ writes' = [writes EXCEPT ![e] = IF @ = "ok" THEN "failed" ELSE @]

Subscribe(u, e) ==
  /\ ~aborted /\ user[u] = 0
  /\ Enter(e)
  /\ user' = [user EXCEPT ![u] = e]
  /\ UNCHANGED <<reader, turn, life, net>>

Subscribed(u) ==
  /\ ~aborted /\ user[u] # 0
  /\ WriteOK(user[u], "message") \/ WriteFails(user[u])
  /\ user' = [user EXCEPT ![u] = 0]
  /\ UNCHANGED <<reader, turn, life, inbox, peer, aborted>>
----------------------------------------------------------------------------
(* The reader *)

\* The loop runs past the end of the list.
EndlessTurnBug == turn + 1

\* The loop over the executors starts again after each message.
NextTurnBug == 1

NextTurn == IF turn = N THEN 1 ELSE turn + 1

\* Run of one executor.  A handler may fail, and any error ends the reader.
Read ==
  /\ ~aborted /\ reader = "running" /\ inbox[turn] > 0
  /\ inbox' = [inbox EXCEPT ![turn] = @ - 1]
  /\ \/ turn' = NextTurn /\ UNCHANGED reader
     \/ reader' = "done" /\ UNCHANGED turn
  /\ UNCHANGED <<life, user, peer, writes, aborted>>

\* gorilla/websocket answers a close frame before it reports it.
ReadFails ==
  /\ ~aborted /\ reader = "running" /\ inbox[turn] = 0
  /\ peer[turn] \in {"closed", "lost"}
  /\ reader' = "done"
  /\ writes' = [writes EXCEPT ![turn] =
                  IF @ = "ok" /\ peer[turn] = "closed" THEN "sent" ELSE @]
  /\ UNCHANGED <<turn, life, user, inbox, peer, aborted>>
----------------------------------------------------------------------------
(* Start *)

StarterGoto(pc, e, left) == starter' = At(pc, e, left) /\ UNCHANGED <<cancelled, exit>>

Return(why) ==
  /\ starter' = At("returned", 1, 0)
  /\ exit' = why
  /\ UNCHANGED cancelled

OnDone ==
  /\ StarterAt("select") \/ StarterAt("wait")
  /\ reader = "done"
  /\ Return("done")
  /\ UNCHANGED <<reader, turn, user, net, aborted>>

\* A v5 service pings with a control frame and a message.
Pings(e) == IF e \in Locked THEN 2 ELSE 1

\* The ticker of 20 seconds.
OnTick ==
  /\ StarterAt("select")
  /\ StarterGoto("ping", 1, Pings(1))
  /\ UNCHANGED <<reader, turn, user, net, aborted>>

OnCancel ==
  /\ StarterAt("select") /\ cancelled
  /\ StarterGoto("close", 1, 1)
  /\ UNCHANGED <<reader, turn, user, net, aborted>>

BeginWrite ==
  /\ \/ StarterAt("ping") /\ StarterGoto("pinging", starter.at, starter.left)
     \/ StarterAt("close") /\ StarterGoto("closing", starter.at, starter.left)
  /\ Enter(starter.at)
  /\ UNCHANGED <<reader, turn, user, net>>

Pinged ==
  /\ StarterAt("pinging")
  /\ WriteOK(starter.at, "message")
  /\ CASE starter.left > 1 -> StarterGoto("ping", starter.at, starter.left - 1)
       [] starter.left = 1 /\ starter.at < N ->
            StarterGoto("ping", starter.at + 1, Pings(starter.at + 1))
       [] OTHER -> StarterGoto("select", 1, 0)
  /\ UNCHANGED <<reader, turn, user, inbox, peer, aborted>>

\* Start returns: the reader is left behind, and the connections as they are.
PingFails ==
  /\ StarterAt("pinging")
  /\ WriteFails(starter.at)
  /\ Return("error")
  /\ UNCHANGED <<reader, turn, user, inbox, peer, aborted>>

\* The first executor alone is closed.
CloseNextBug == StarterGoto("wait", 1, 0)

CloseNext == IF starter.at < N THEN StarterGoto("close", starter.at + 1, 1)
             ELSE StarterGoto("wait", 1, 0)

Closed ==
  /\ StarterAt("closing")
  /\ WriteOK(starter.at, "close")
  /\ CloseNext
  /\ UNCHANGED <<reader, turn, user, inbox, peer, aborted>>

\* An error leaves the executors after this one open.  To a v5 service a close
\* frame that was sent before is none.
CloseFails ==
  /\ StarterAt("closing")
  /\ WriteFails(starter.at)
  /\ IF starter.at \in Locked /\ writes[starter.at] = "sent" THEN CloseNext
     ELSE Return("error")
  /\ UNCHANGED <<reader, turn, user, inbox, peer, aborted>>

\* Start waits for the reader without a limit.
StopWaitingBug == FALSE /\ UNCHANGED vars

\* time.After(time.Second)
StopWaiting ==
  /\ StarterAt("wait")
  /\ Return("timeout")
  /\ UNCHANGED <<reader, turn, user, net, aborted>>
----------------------------------------------------------------------------
(* The context and the servers *)

Cancel ==
  /\ ~aborted /\ ~cancelled
  /\ cancelled' = TRUE
  /\ UNCHANGED <<reader, turn, starter, exit, user, net, aborted>>

Send(e) ==
  /\ ~aborted /\ peer[e] = "up" /\ inbox[e] < MaxInbox
  /\ inbox' = [inbox EXCEPT ![e] = @ + 1]
  /\ UNCHANGED <<reader, turn, life, user, peer, writes, aborted>>

Become(e, state) ==
  /\ peer' = [peer EXCEPT ![e] = state]
  /\ UNCHANGED <<reader, turn, life, user, writes, aborted>>

\* A connection that is lost with nobody told is a server that stalls.
Stall(e) == ~aborted /\ peer[e] = "up" /\ Become(e, "stalled") /\ UNCHANGED inbox
Resume(e) == ~aborted /\ peer[e] = "stalled" /\ Become(e, "up") /\ UNCHANGED inbox

ServerCloses(e) == ~aborted /\ peer[e] = "up" /\ Become(e, "closed") /\ UNCHANGED inbox

Lose(e) ==
  /\ ~aborted /\ peer[e] \in {"up", "stalled"}
  /\ Become(e, "lost")
  /\ inbox' = [inbox EXCEPT ![e] = 0]

AnswerClose(e) == writes[e] = "sent" /\ ServerCloses(e)

StarterWrites == Pinged \/ PingFails \/ Closed \/ CloseFails

Next ==
  \/ \E u \in Users : Subscribed(u) \/ \E e \in Executors : Subscribe(u, e)
  \/ Read \/ ReadFails
  \/ OnDone \/ OnTick \/ OnCancel \/ BeginWrite \/ StarterWrites \/ StopWaiting
  \/ Cancel
  \/ \E e \in Executors :
       Send(e) \/ Stall(e) \/ Resume(e) \/ ServerCloses(e) \/ Lose(e)

Spec == Init /\ [][Next]_vars

\* A write comes back, but for one without a deadline to a server that stalls.
ComesBack(e) == e \in Locked \/ peer[e] # "stalled"

\* Goroutines run; select chooses at random among what is ready and a mutex
\* starves nobody; a server answers a close frame unless it stalls.
Fairness ==
  /\ \A u \in Users : WF_vars(user[u] # 0 /\ ComesBack(user[u]) /\ Subscribed(u))
  /\ WF_vars(Read \/ ReadFails)
  /\ WF_vars(ComesBack(starter.at) /\ StarterWrites) /\ WF_vars(StopWaiting)
  /\ SF_vars(BeginWrite) /\ SF_vars(OnCancel) /\ SF_vars(OnDone)
  /\ \A e \in Executors : WF_vars(AnswerClose(e))

FairSpec == Spec /\ Fairness
----------------------------------------------------------------------------
(* What must hold *)

\* Every variable has its type; the loops over the executors stay within the
\* list, and Start knows how it ended.
TypeOK ==
  /\ reader \in {"running", "done"} /\ turn \in Executors
  /\ starter \in [pc : {"select", "ping", "pinging", "close", "closing", "wait", "returned"},
                  at : Executors, left : 0..2]
  /\ starter.pc \in {"ping", "pinging", "close", "closing"} => starter.left > 0
  /\ exit \in {"none", "done", "timeout", "error"}
  /\ exit = "none" <=> starter.pc # "returned"
  /\ user \in [Users -> Executors \cup {0}]
  /\ inbox \in [Executors -> 0..MaxInbox]
  /\ peer \in [Executors -> {"up", "stalled", "closed", "lost"}]
  /\ writes \in [Executors -> {"ok", "sent", "failed"}]
  /\ cancelled \in BOOLEAN /\ aborted \in BOOLEAN

Writers(e) ==
  {u \in Users : user[u] = e} \cup (IF StarterWritesTo(e) THEN {0} ELSE {})

\* The writes of the application and the pings and close frames of Start
\* exclude each other on the v5 services, and so a panic of gorilla/websocket
\* takes two writers on a spot service.
PanicNeedsSpot ==
  /\ \A e \in Locked : \A g, h \in Writers(e) : g = h
  /\ aborted => \E e \in Executors \ Locked : \E g, h \in Writers(e) : g # h

Stopped == reader = "done" \/ aborted

\* The servers of the spot services come to read what is written to them.
SpotServersRead == <>[](\A e \in Executors \ Locked : peer[e] # "stalled")

\* Start returns once its context is done, whatever the other servers do and
\* wherever the reader is blocked.
CancelReturns == SpotServersRead => (cancelled ~> starter.pc = "returned" \/ aborted)

\* A message is not held up by what the other executors receive, only by their
\* silence: it gets its turn if each of them goes on to receive.
TakesTurns ==
  \A e \in Executors :
    (\A d \in Executors \ {e} : []<>(inbox[d] > 0))
      => (inbox[e] > 0 ~> turn = e \/ Stopped)

\* When Start gives up waiting it has closed every executor, so that the reader
\* it leaves behind comes to its end as soon as the servers answer.
ReaderEnds ==
  <>[](\A e \in Executors : peer[e] # "stalled")
    => (exit = "timeout" ~> Stopped)
=============================================================================
