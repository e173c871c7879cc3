------------------------- MODULE WsExecutors_proofs -------------------------
(***************************************************************************)
(* Theorems about WsExecutors for any list of services, of v5 or not, any  *)
(* number of goroutines that subscribe, and any bound on what waits.       *)
(***************************************************************************)
EXTENDS WsExecutors, TLAPS

----------------------------------------------------------------------------
(***************************************************************************)
(* Types.                                                                  *)
(***************************************************************************)

LEMMA TypeInit == Init => TypeOK
<1> SUFFICES ASSUME Init PROVE TypeOK
  OBVIOUS
<1>1. 1 \in Executors /\ 0 \in 0..MaxInbox
  BY ExecutorsAssumption DEF Executors
<1>2. /\ starter.pc = "select"
      /\ starter \in [pc : {"select", "ping", "pinging", "close", "closing", "wait", "returned"},
                     at : Executors, left : 0..2]
  BY <1>1 DEF Init, At
<1>3. /\ user \in [Users -> Executors \cup {0}] /\ inbox \in [Executors -> 0..MaxInbox]
      /\ peer \in [Executors -> {"up", "stalled", "closed", "lost"}]
      /\ writes \in [Executors -> {"ok", "sent", "failed"}]
  BY <1>1 DEF Init
<1> QED
  BY <1>1, <1>2, <1>3 DEF Init, TypeOK

\* What the application and the two outcomes of a write do.
LEMMA TypeWrites ==
  ASSUME TypeOK, NEW e \in Executors,
         \/ \E frame : WriteOK(e, frame)
         \/ WriteFails(e)
  PROVE  writes' \in [Executors -> {"ok", "sent", "failed"}]
BY DEF TypeOK, WriteOK, WriteFails

LEMMA TypeEnter ==
  ASSUME TypeOK, NEW e \in Executors, Enter(e)
  PROVE  aborted' \in BOOLEAN
BY DEF TypeOK, Enter, Busy

LEMMA TypeUsers ==
  ASSUME TypeOK, NEW u \in Users,
         Subscribed(u) \/ \E e \in Executors : Subscribe(u, e)
  PROVE  TypeOK'
<1>1. CASE Subscribed(u)
  <2>1. user[u] \in Executors
    BY <1>1 DEF TypeOK, Subscribed
  <2>2. writes' \in [Executors -> {"ok", "sent", "failed"}]
    BY <1>1, <2>1, TypeWrites DEF Subscribed
  <2> QED
    BY <1>1, <2>2 DEF TypeOK, Subscribed, life
<1>2. ASSUME NEW e \in Executors, Subscribe(u, e) PROVE TypeOK'
  <2>1. aborted' \in BOOLEAN
    BY <1>2, TypeEnter DEF Subscribe
  <2> QED
    BY <1>2, <2>1 DEF TypeOK, Subscribe, life, net
<1> QED
  BY <1>1, <1>2

LEMMA TypeReader ==
  ASSUME TypeOK, Read \/ ReadFails
  PROVE  TypeOK'
<1>1. CASE Read
  <2>1. NextTurn \in Executors
    BY ExecutorsAssumption DEF TypeOK, NextTurn, Executors
  <2>2. inbox' \in [Executors -> 0..MaxInbox]
    BY <1>1, ExecutorsAssumption DEF TypeOK, Read
  <2> QED
    BY <1>1, <2>1, <2>2 DEF TypeOK, Read, life
<1>2. CASE ReadFails
  BY <1>2 DEF TypeOK, ReadFails, life
<1> QED
  BY <1>1, <1>2

\* Start turns to the next executor, to its select, or to the end.
LEMMA TypeGoto ==
  ASSUME TypeOK, NEW e \in Executors, NEW left \in 0..2,
         NEW pc \in {"select", "ping", "pinging", "close", "closing", "wait"},
         pc \in {"ping", "pinging", "close", "closing"} => left > 0,
         starter.pc # "returned", StarterGoto(pc, e, left),
         aborted' \in BOOLEAN, writes' \in [Executors -> {"ok", "sent", "failed"}],
         UNCHANGED <<reader, turn, user, inbox, peer>>
  PROVE  TypeOK'
BY DEF TypeOK, StarterGoto, At

LEMMA TypeReturn ==
  ASSUME TypeOK, NEW why \in {"done", "timeout", "error"}, Return(why),
         writes' \in [Executors -> {"ok", "sent", "failed"}],
         UNCHANGED <<reader, turn, user, inbox, peer, aborted>>
  PROVE  TypeOK'
BY ExecutorsAssumption DEF TypeOK, Return, At, Executors

LEMMA TypeStart ==
  ASSUME TypeOK, OnDone \/ OnTick \/ OnCancel \/ BeginWrite \/ StarterWrites \/ StopWaiting
  PROVE  TypeOK'
<1> DEFINE W == writes' \in [Executors -> {"ok", "sent", "failed"}]
<1>1. 1 \in Executors /\ starter.at \in Executors /\ starter.left \in 0..2
      /\ \A e \in Executors : Pings(e) \in 1..2
  BY ExecutorsAssumption DEF TypeOK, Executors, Pings
<1>2. starter.at < N => starter.at + 1 \in Executors
  BY <1>1, ExecutorsAssumption DEF Executors
<1>3. CASE OnDone \/ StopWaiting
  BY <1>3, TypeReturn DEF OnDone, StopWaiting, net, TypeOK
<1>4. CASE OnTick \/ OnCancel
  BY <1>1, <1>4, TypeGoto, Pings(1) \in 0..2, Pings(1) > 0
  DEF OnTick, OnCancel, StarterAt, net, TypeOK
<1>5. CASE BeginWrite
  <2>1. starter.left > 0 /\ aborted' \in BOOLEAN /\ W /\ starter.pc # "returned"
    BY <1>1, <1>5, TypeEnter DEF BeginWrite, StarterAt, net, TypeOK
  <2>2. CASE StarterGoto("pinging", starter.at, starter.left)
    BY <1>1, <1>5, <2>1, <2>2, TypeGoto DEF BeginWrite, net
  <2>3. CASE StarterGoto("closing", starter.at, starter.left)
    BY <1>1, <1>5, <2>1, <2>3, TypeGoto DEF BeginWrite, net
  <2> QED
    BY <1>5, <2>2, <2>3 DEF BeginWrite
<1>6. CASE StarterWrites
  <2>1. W
    BY <1>1, <1>6, TypeWrites DEF StarterWrites, Pinged, PingFails, Closed, CloseFails
  <2>2. CASE PingFails
    BY <2>1, <2>2, TypeReturn DEF PingFails
  <2>3. CASE Pinged
    <3>1. CASE starter.left > 1 /\ StarterGoto("ping", starter.at, starter.left - 1)
      BY <1>1, <2>1, <2>3, <3>1, TypeGoto, starter.left - 1 \in 0..2, starter.left - 1 > 0
      DEF Pinged, StarterAt, TypeOK
    <3>2. CASE starter.at < N /\ StarterGoto("ping", starter.at + 1, Pings(starter.at + 1))
      BY <1>1, <1>2, <2>1, <2>3, <3>2, TypeGoto, Pings(starter.at + 1) \in 0..2,
         Pings(starter.at + 1) > 0
      DEF Pinged, StarterAt, TypeOK
    <3>3. CASE StarterGoto("select", 1, 0)
      BY <1>1, <2>1, <2>3, <3>3, TypeGoto DEF Pinged, StarterAt, TypeOK
    <3> QED
      BY <2>3, <3>1, <3>2, <3>3 DEF Pinged
  <2>4. ASSUME StarterAt("closing"), CloseNext,
               UNCHANGED <<reader, turn, user, inbox, peer, aborted>>
        PROVE  TypeOK'
    <3>1. CASE starter.at < N /\ StarterGoto("close", starter.at + 1, 1)
      BY <1>2, <2>1, <2>4, <3>1, TypeGoto DEF StarterAt, TypeOK
    <3>2. CASE StarterGoto("wait", 1, 0)
      BY <1>1, <2>1, <2>4, <3>2, TypeGoto DEF StarterAt, TypeOK
    <3> QED
      BY <2>4, <3>1, <3>2 DEF CloseNext
  <2>5. CASE Closed
    BY <2>4, <2>5 DEF Closed
  <2>6. CASE CloseFails
    <3>1. CASE Return("error")
      BY <2>1, <2>6, <3>1, TypeReturn DEF CloseFails
    <3>2. CASE CloseNext
      BY <2>4, <2>6, <3>2 DEF CloseFails
    <3> QED
      BY <2>6, <3>1, <3>2 DEF CloseFails
  <2> QED
    BY <1>6, <2>2, <2>3, <2>5, <2>6 DEF StarterWrites
<1> QED
  BY <1>3, <1>4, <1>5, <1>6

LEMMA TypeServers ==
  ASSUME TypeOK,
         \/ Cancel
         \/ \E e \in Executors :
              Send(e) \/ Stall(e) \/ Resume(e) \/ ServerCloses(e) \/ Lose(e)
  PROVE  TypeOK'
<1>1. CASE Cancel
  BY <1>1 DEF TypeOK, Cancel, net
<1>2. ASSUME NEW e \in Executors, Send(e) PROVE TypeOK'
  <2>1. inbox' \in [Executors -> 0..MaxInbox]
    BY <1>2, ExecutorsAssumption DEF TypeOK, Send
  <2> QED
    BY <1>2, <2>1 DEF TypeOK, Send, life
<1>3. ASSUME NEW e \in Executors, Stall(e) \/ Resume(e) \/ ServerCloses(e) \/ Lose(e)
      PROVE  TypeOK'
  <2>1. inbox' \in [Executors -> 0..MaxInbox]
    BY <1>3, ExecutorsAssumption DEF TypeOK, Stall, Resume, ServerCloses, Lose
  <2>2. peer' \in [Executors -> {"up", "stalled", "closed", "lost"}]
    BY <1>3 DEF TypeOK, Stall, Resume, ServerCloses, Lose, Become
  <2> QED
    BY <1>3, <2>1, <2>2 DEF TypeOK, Stall, Resume, ServerCloses, Lose, Become, life
<1> QED
  BY <1>1, <1>2, <1>3

LEMMA TypeNext == TypeOK /\ [Next]_vars => TypeOK'
<1> SUFFICES ASSUME TypeOK, [Next]_vars PROVE TypeOK'
  OBVIOUS
<1>1. CASE Next
  BY <1>1, TypeUsers, TypeReader, TypeStart, TypeServers DEF Next
<1>2. CASE UNCHANGED vars
  BY <1>2 DEF TypeOK, vars, life, net
<1> QED
  BY <1>1, <1>2

\* Every variable keeps its type; in particular the loops of Start and of its
\* reader stay within the list of executors, however long it is.
THEOREM TypeCorrect == Spec => []TypeOK
BY TypeInit, TypeNext, PTL DEF Spec

----------------------------------------------------------------------------
(***************************************************************************)
(* Writers.  A v5 service has one at a time, for its lock is taken before. *)
(* On a spot service there may be two, and a panic leaves them where they  *)
(* were.                                                                   *)
(***************************************************************************)

\* Nobody writes at first.
LEMMA PanicInit == Init => PanicNeedsSpot
<1> SUFFICES ASSUME Init PROVE PanicNeedsSpot
  OBVIOUS
<1>1. \A e \in Executors : Writers(e) = {}
  BY DEF Init, Writers, StarterWritesTo, At, Executors
<1>2. Locked \subseteq Executors
  BY ExecutorsAssumption DEF Executors
<1> QED
  BY <1>1, <1>2 DEF Init, PanicNeedsSpot

\* Whoever enters is alone on a v5 service, and whoever makes it panic is not.
LEMMA EnterAlone ==
  ASSUME PanicNeedsSpot, ~aborted, NEW e \in Executors, Enter(e),
         NEW w, w \notin Writers(e),
         \A d \in Executors \ {e} : Writers(d)' \subseteq Writers(d),
         Writers(e)' = Writers(e) \cup {w}
  PROVE  PanicNeedsSpot'
<1>1. Busy(e) <=> Writers(e) # {}
  BY DEF Busy, Writers
<1>2. Locked \subseteq Executors
  BY ExecutorsAssumption DEF Executors
<1>3. \A d \in Locked : \A g, h \in Writers(d)' : g = h
  <2>1. e \in Locked => Writers(e)' = {w}
    BY <1>1 DEF Enter
  <2> QED
    BY <1>2, <2>1 DEF PanicNeedsSpot
<1>4. aborted' => e \notin Locked /\ Writers(e) # {}
  BY <1>1 DEF Enter
<1> QED
  BY <1>3, <1>4 DEF PanicNeedsSpot

\* A step that adds no writer keeps the rest.
LEMMA NoneEnters ==
  ASSUME PanicNeedsSpot, ~aborted, UNCHANGED aborted,
         \A e \in Executors : Writers(e)' \subseteq Writers(e)
  PROVE  PanicNeedsSpot'
BY ExecutorsAssumption DEF PanicNeedsSpot, Executors

LEMMA PanicUsers ==
  ASSUME TypeOK, PanicNeedsSpot, NEW u \in Users,
         Subscribed(u) \/ \E e \in Executors : Subscribe(u, e)
  PROVE  PanicNeedsSpot'
<1>1. CASE Subscribed(u)
  <2>1. \A e \in Executors : Writers(e)' \subseteq Writers(e)
    BY <1>1 DEF TypeOK, Subscribed, Writers, StarterWritesTo, life, Executors
  <2> QED
    BY <1>1, <2>1, NoneEnters DEF Subscribed
<1>2. ASSUME NEW e \in Executors, Subscribe(u, e) PROVE PanicNeedsSpot'
  <2>1. u \notin Writers(e)
    BY <1>2, ExecutorsAssumption DEF Subscribe, Writers, Executors
  <2>2. /\ \A d \in Executors \ {e} : Writers(d)' \subseteq Writers(d)
        /\ Writers(e)' = Writers(e) \cup {u}
    BY <1>2 DEF TypeOK, Subscribe, Writers, StarterWritesTo, life, Executors
  <2> QED
    BY <1>2, <2>1, <2>2, EnterAlone DEF Subscribe
<1> QED
  BY <1>1, <1>2

LEMMA PanicBegin ==
  ASSUME TypeOK, PanicNeedsSpot, BeginWrite
  PROVE  PanicNeedsSpot'
<1> PICK e \in Executors : e = starter.at
  BY DEF TypeOK
<1>1. ~aborted /\ Enter(e)
  BY DEF BeginWrite, StarterAt
<1>2. 0 \notin Writers(e)
  BY ExecutorsAssumption DEF BeginWrite, StarterAt, Writers, StarterWritesTo
<1>3. starter'.at = e /\ starter'.pc \in {"pinging", "closing"} /\ user' = user
  BY DEF BeginWrite, StarterGoto, At
<1>4. /\ \A d \in Executors \ {e} : Writers(d)' \subseteq Writers(d)
      /\ Writers(e)' = Writers(e) \cup {0}
  BY <1>3 DEF Writers, StarterWritesTo
<1> QED
  BY <1>1, <1>2, <1>4, EnterAlone

\* The other steps of Start end a write or have none.
LEMMA PanicStart ==
  ASSUME TypeOK, PanicNeedsSpot, OnDone \/ OnTick \/ OnCancel \/ StarterWrites \/ StopWaiting
  PROVE  PanicNeedsSpot'
<1>1. ~aborted /\ UNCHANGED <<user, aborted>>
  BY DEF OnDone, OnTick, OnCancel, StarterWrites, StopWaiting, Pinged, PingFails, Closed,
         CloseFails, StarterAt
<1>2. starter'.pc \notin {"pinging", "closing"}
  BY DEF OnDone, OnTick, OnCancel, StarterWrites, StopWaiting, Pinged, PingFails, Closed,
         CloseFails, CloseNext, StarterGoto, Return, At
<1> QED
  BY <1>1, <1>2, NoneEnters DEF Writers, StarterWritesTo

LEMMA PanicNext == TypeOK /\ PanicNeedsSpot /\ [Next]_vars => PanicNeedsSpot'
<1> SUFFICES ASSUME TypeOK, PanicNeedsSpot, [Next]_vars PROVE PanicNeedsSpot'
  OBVIOUS
<1>1. CASE \E u \in Users : Subscribed(u) \/ \E e \in Executors : Subscribe(u, e)
  BY <1>1, PanicUsers
<1>2. CASE BeginWrite
  BY <1>2, PanicBegin
<1>3. CASE OnDone \/ OnTick \/ OnCancel \/ StarterWrites \/ StopWaiting
  BY <1>3, PanicStart
<1>4. CASE \/ Read \/ ReadFails \/ Cancel
           \/ \E e \in Executors :
                Send(e) \/ Stall(e) \/ Resume(e) \/ ServerCloses(e) \/ Lose(e)
  <2>1. ~aborted /\ UNCHANGED <<starter, user, aborted>>
    BY <1>4 DEF Read, ReadFails, Cancel, Send, Stall, Resume, ServerCloses, Lose, Become, life
  <2> QED
    BY <2>1, NoneEnters DEF Writers, StarterWritesTo
<1>5. CASE UNCHANGED vars
  BY <1>5 DEF PanicNeedsSpot, Writers, StarterWritesTo, vars, life
<1> QED
  BY <1>1, <1>2, <1>3, <1>4, <1>5 DEF Next

\* However many executors and goroutines there are, no two of them write to one
\* v5 connection at once, and a panic takes two writers on a spot service.
THEOREM Exclusion == Spec => []PanicNeedsSpot
<1>1. TypeOK /\ PanicNeedsSpot /\ [Next]_vars => (TypeOK /\ PanicNeedsSpot)'
  BY TypeNext, PanicNext
<1> QED
  BY <1>1, TypeInit, PanicInit, PTL DEF Spec

----------------------------------------------------------------------------
(***************************************************************************)
(* Closing.  Start closes the executors in their order, and a close frame  *)
(* that was sent is never unsent.                                          *)
(***************************************************************************)

\* When Start gave up waiting for its reader, every executor has a close frame
\* on its way: it is then for the servers to end the reader.
AllClosed == exit = "timeout" => \A e \in Executors : writes[e] = "sent"

\* Those before the one at hand are closed; all, once Start waits.
ClosedInOrder ==
  /\ starter.pc \in {"close", "closing"} =>
        \A e \in Executors : e < starter.at => writes[e] = "sent"
  /\ starter.pc = "wait" => \A e \in Executors : writes[e] = "sent"
  /\ AllClosed

LEMMA ClosedInit == Init => ClosedInOrder
BY DEF Init, ClosedInOrder, AllClosed, At

\* No step takes a close frame back.
LEMMA SentStays ==
  ASSUME TypeOK, [Next]_vars, NEW e \in Executors, writes[e] = "sent"
  PROVE  writes'[e] = "sent"
<1>1. ASSUME NEW d \in Executors, WriteFails(d) \/ \E frame \in {"message", "close"} : WriteOK(d, frame)
      PROVE  writes'[e] = "sent"
  BY <1>1 DEF TypeOK, WriteFails, WriteOK
<1>2. CASE \E u \in Users : Subscribed(u)
  BY <1>1, <1>2 DEF TypeOK, Subscribed
<1>3. CASE StarterWrites
  <2>1. starter.at \in Executors
    BY DEF TypeOK
  <2> QED
    BY <1>1, <1>3, <2>1 DEF StarterWrites, Pinged, PingFails, Closed, CloseFails
<1>4. CASE ReadFails
  BY <1>4 DEF TypeOK, ReadFails
<1>5. CASE \/ \E u \in Users : \E d \in Executors : Subscribe(u, d)
           \/ Read \/ OnDone \/ OnTick \/ OnCancel \/ BeginWrite \/ StopWaiting \/ Cancel
           \/ \E d \in Executors :
                Send(d) \/ Stall(d) \/ Resume(d) \/ ServerCloses(d) \/ Lose(d)
           \/ UNCHANGED vars
  BY <1>5 DEF Subscribe, Read, OnDone, OnTick, OnCancel, BeginWrite, StopWaiting, Cancel, Send,
              Stall, Resume, ServerCloses, Lose, Become, vars, net
<1> QED
  BY <1>2, <1>3, <1>4, <1>5 DEF Next

\* Start goes on to the next executor only when this one has its close frame.
LEMMA CloseMoves ==
  ASSUME TypeOK, ClosedInOrder, [Next]_vars, StarterAt("closing"),
         writes'[starter.at] = "sent", CloseNext
  PROVE  ClosedInOrder'
<1>1. starter.at \in 1..N /\ N \in Nat \ {0} /\ starter.pc = "closing"
  BY ExecutorsAssumption DEF TypeOK, Executors, StarterAt
<1>2. \A e \in Executors : e <= starter.at => writes'[e] = "sent"
  BY <1>1, SentStays DEF ClosedInOrder, Executors
<1>3. exit' = exit /\ exit = "none"
  BY <1>1 DEF CloseNext, StarterGoto, TypeOK
<1>4. CASE starter.at < N /\ StarterGoto("close", starter.at + 1, 1)
  <2>1. \A e \in Executors : e < starter.at + 1 => e <= starter.at
    BY <1>1 DEF Executors
  <2>2. starter'.pc = "close" /\ starter'.at = starter.at + 1
    BY <1>4 DEF StarterGoto, At
  <2> QED
    BY <1>2, <1>3, <2>1, <2>2 DEF ClosedInOrder, AllClosed
<1>5. CASE starter.at >= N /\ StarterGoto("wait", 1, 0)
  <2>1. \A e \in Executors : e <= starter.at
    BY <1>1, <1>5 DEF Executors
  <2>2. starter'.pc = "wait"
    BY <1>5 DEF StarterGoto, At
  <2> QED
    BY <1>2, <1>3, <2>1, <2>2 DEF ClosedInOrder, AllClosed
<1> QED
  BY <1>1, <1>4, <1>5 DEF CloseNext

LEMMA ClosedNext == TypeOK /\ ClosedInOrder /\ [Next]_vars => ClosedInOrder'
<1> SUFFICES ASSUME TypeOK, ClosedInOrder, [Next]_vars PROVE ClosedInOrder'
  OBVIOUS
<1>1. \A e \in Executors : writes[e] = "sent" => writes'[e] = "sent"
  BY SentStays
<1>2. CASE Closed
  <2>1. starter.at \in Executors /\ writes'[starter.at] = "sent"
    BY <1>2 DEF TypeOK, Closed, WriteOK
  <2> QED
    BY <1>2, <2>1, CloseMoves DEF Closed
<1>3. CASE CloseFails
  <2>1. CASE CloseNext /\ writes[starter.at] = "sent"
    BY <1>1, <1>3, <2>1, CloseMoves DEF TypeOK, CloseFails
  <2>2. CASE Return("error")
    BY <2>2 DEF Return, At, ClosedInOrder, AllClosed
  <2> QED
    BY <1>3, <2>1, <2>2 DEF CloseFails
<1>4. CASE OnCancel
  <2>1. starter'.pc = "close" /\ starter'.at = 1 /\ exit' = exit
    BY <1>4 DEF OnCancel, StarterGoto, At
  <2>2. \A e \in Executors : ~(e < 1)
    BY DEF Executors
  <2> QED
    BY <1>1, <2>1, <2>2 DEF ClosedInOrder, AllClosed
<1>5. CASE StopWaiting
  BY <1>1, <1>5 DEF StopWaiting, StarterAt, Return, At, ClosedInOrder, AllClosed
<1>6. CASE OnDone \/ PingFails
  BY <1>6 DEF OnDone, PingFails, Return, At, ClosedInOrder, AllClosed
<1>7. CASE OnTick \/ Pinged
  <2>1. starter'.pc \in {"select", "ping"} /\ exit' = exit
    BY <1>7 DEF OnTick, Pinged, StarterGoto, At
  <2> QED
    BY <1>1, <2>1 DEF ClosedInOrder, AllClosed
<1>8. CASE BeginWrite
  BY <1>1, <1>8 DEF BeginWrite, StarterAt, StarterGoto, At, ClosedInOrder, AllClosed
<1>9. CASE UNCHANGED <<starter, exit>>
  BY <1>1, <1>9 DEF ClosedInOrder, AllClosed
<1>10. CASE \/ \E u \in Users : Subscribed(u) \/ \E e \in Executors : Subscribe(u, e)
            \/ Read \/ ReadFails \/ Cancel
            \/ \E e \in Executors :
                 Send(e) \/ Stall(e) \/ Resume(e) \/ ServerCloses(e) \/ Lose(e)
  BY <1>9, <1>10 DEF Subscribed, Subscribe, Read, ReadFails, Cancel, Send, Stall, Resume,
                     ServerCloses, Lose, Become, life
<1>11. CASE UNCHANGED vars
  BY <1>9, <1>11 DEF vars, life
<1> QED
  BY <1>2, <1>3, <1>4, <1>5, <1>6, <1>7, <1>8, <1>10, <1>11 DEF Next, StarterWrites

\* Start does not give up waiting before it has closed every executor: what it
\* leaves behind ends by the servers' answers.
THEOREM Closing == Spec => []AllClosed
<1>1. TypeOK /\ ClosedInOrder /\ [Next]_vars => (TypeOK /\ ClosedInOrder)'
  BY TypeNext, ClosedNext
<1>2. ClosedInOrder => AllClosed
  BY DEF ClosedInOrder
<1> QED
  BY <1>1, <1>2, TypeInit, ClosedInit, PTL DEF Spec
=============================================================================
