--------------------------- MODULE LiveGate_counts ---------------------------
(***************************************************************************)
(* Theorems about what LiveGate counts, for any servers, mandates, calls   *)
(* and quotes: the ledger against the calls received and the forwards      *)
(* taken for a success, the daily counter against the orders the broker    *)
(* executed and against the cap of the mandate.                            *)
(*                                                                         *)
(* A count of orders is the cardinality of a set with one entry for each   *)
(* (Entries), and the calls in flight are sets of servers, so that a step  *)
(* adds one element, removes one, or leaves the set alone.                 *)
(***************************************************************************)
EXTENDS LiveGate_proofs, FiniteSetTheorems

\* Nothing stops the history counters: they count.
Counting == MaxTally = Null

\* A truth value as a count.
Holds(b) == IF b THEN 1 ELSE 0

\* The calls being served, the ones that owe the ledger an order_placed line,
\* and the ones between a successful forward and the counter.
Busy      == {p \in Servers : pc[p] # "idle"}
Owed      == {p \in Servers : /\ pc[p] \in Recording \cup {"reload", "append"}
                              /\ Allowed(p) /\ call[p].result # "error"}
Uncounted == {p \in Servers : pc[p] \in Recording}

\* Every set that is counted is finite.
Finite == /\ IsFiniteSet(Busy) /\ IsFiniteSet(Owed) /\ IsFiniteSet(Uncounted)
          /\ IsFiniteSet(Entries(ledger)) /\ IsFiniteSet(Entries(accepted))
          /\ IsFiniteSet(Entries(placed))

\* The two accounts of the ledger.
LedgerInv ==
  /\ started = SumOf(ledger) + unrecorded + Cardinality(Busy)
  /\ faults = 0 => SumOf(accepted) = ledger["order_placed"] + Cardinality(Owed)
  /\ \A p \in Uncounted : call[p].result # "error"

\* The count on file, of whatever day.
LastCount == IF counter = Null THEN 0 ELSE counter.count

\* A success that is taken but not counted leaves room in the counter, and a
\* count about to be written leaves room for the others.
AheadInv ==
  /\ LastCount + Cardinality(Uncounted) <= SumOf(accepted)
  /\ \A p \in Servers : At(p, "write") =>
       call[p].count + Cardinality(Uncounted) <= SumOf(accepted) + 1

\* What a server that is alone knows of today.
DayInv(p) ==
  /\ \A d \in Days : d > today => accepted[d] = 0
  /\ accepted[today] <= forgotten + ReadDailyCount + Holds(p \in Uncounted)
  /\ At(p, "forward") =>
       /\ call[p].loaded \in Mandates
       /\ call[p].loaded.max_trades_per_day > 0
       /\ accepted[today] < forgotten + call[p].loaded.max_trades_per_day
  /\ pc[p] \in {"read", "write"} =>
       call[p].day = today \/ (call[p].day < today /\ accepted[today] = 0)
  /\ At(p, "write") /\ call[p].day = today =>
       accepted[today] <= forgotten + call[p].count
  /\ DailyCap
----------------------------------------------------------------------------
(***************************************************************************)
(* Facts about finite sets and about Entries.                              *)
(***************************************************************************)

\* Two sets that differ in one element at most.
LEMMA Toggle ==
  ASSUME NEW S, NEW T, NEW x, IsFiniteSet(S), S \ {x} = T \ {x}
  PROVE  /\ IsFiniteSet(T)
         /\ Cardinality(S) \in Nat /\ Cardinality(T) \in Nat
         /\ Cardinality(T) = Cardinality(S) + Holds(x \in T) - Holds(x \in S)
<1> DEFINE R == S \ {x}
<1>1. IsFiniteSet(R) /\ Cardinality(R) = Cardinality(S) - Holds(x \in S)
  <2>1. Cardinality(S) \in Nat
    BY FS_CardinalityType
  <2> QED
    BY <2>1, FS_RemoveElement DEF Holds
<1>2. IsFiniteSet(T) /\ Cardinality(T) = Cardinality(R) + Holds(x \in T)
  <2>1. Cardinality(R) \in Nat
    BY <1>1, FS_CardinalityType
  <2>2. CASE x \in T
    <3>1. T = R \cup {x} /\ x \notin R
      BY <2>2
    <3> HIDE DEF R
    <3> QED
      BY <1>1, <2>1, <2>2, <3>1, FS_AddElement DEF Holds
  <2>3. CASE x \notin T
    <3>1. T = R
      BY <2>3
    <3> HIDE DEF R
    <3> QED
      BY <1>1, <2>1, <2>3, <3>1 DEF Holds
  <2> QED
    BY <2>2, <2>3
<1>3. Cardinality(S) \in Nat /\ Cardinality(T) \in Nat
  BY <1>2, FS_CardinalityType
<1> HIDE DEF R
<1> QED
  BY <1>1, <1>2, <1>3 DEF Holds

\* A function that counts nothing has no entries.
LEMMA NoEntries ==
  ASSUME NEW D
  PROVE  /\ IsFiniteSet(Entries([d \in D |-> 0]))
         /\ SumOf([d \in D |-> 0]) = 0
<1>1. Entries([d \in D |-> 0]) = {}
  <2>1. 1 .. 0 = {}
    OBVIOUS
  <2> QED
    BY <2>1 DEF Entries
<1> QED
  BY <1>1, FS_EmptySet DEF SumOf

\* Counting one more at d adds one entry.
LEMMA OneMore ==
  ASSUME NEW D, NEW f \in [D -> Nat], NEW d \in D, IsFiniteSet(Entries(f)),
         NEW g, g = [f EXCEPT ![d] = @ + 1]
  PROVE  /\ IsFiniteSet(Entries(g))
         /\ SumOf(f) \in Nat /\ SumOf(g) = SumOf(f) + 1
<1> DEFINE e == <<d, f[d] + 1>>
<1>1. Entries(g) = Entries(f) \cup {e}
  <2>1. 1 .. (f[d] + 1) = (1 .. f[d]) \cup {f[d] + 1}
    OBVIOUS
  <2>2. DOMAIN f = D /\ DOMAIN g = D
    OBVIOUS
  <2>3. \A x \in D : g[x] = IF x = d THEN f[d] + 1 ELSE f[x]
    OBVIOUS
  <2>4. ASSUME NEW u PROVE u \in Entries(g) <=> u \in Entries(f) \cup {e}
    <3>1. u \in Entries(g) <=> \E x \in D : u \in {x} \X (1 .. g[x])
      BY <2>2 DEF Entries
    <3>2. u \in Entries(f) <=> \E x \in D : u \in {x} \X (1 .. f[x])
      BY <2>2 DEF Entries
    <3>3. \A x \in D \ {d} : {x} \X (1 .. g[x]) = {x} \X (1 .. f[x])
      BY <2>3
    <3>4. u \in {d} \X (1 .. g[d]) <=> u \in {d} \X (1 .. f[d]) \/ u = e
      <4>1. g[d] = f[d] + 1
        BY <2>3
      <4> QED
        BY <2>1, <4>1
    <3> HIDE DEF e
    <3> QED
      BY <3>1, <3>2, <3>3, <3>4
  <2> QED
    BY <2>4
<1>2. e \notin Entries(f)
  <2>1. f[d] + 1 \notin 1 .. f[d]
    OBVIOUS
  <2> QED
    BY <2>1 DEF Entries
<1> HIDE DEF e
<1>3. IsFiniteSet(Entries(g)) /\ SumOf(g) = SumOf(f) + 1
  <2>1. /\ IsFiniteSet(Entries(f) \cup {e})
        /\ Cardinality(Entries(f) \cup {e}) = Cardinality(Entries(f)) + 1
    BY <1>2, FS_AddElement
  <2> QED
    BY <1>1, <2>1 DEF SumOf
<1>4. SumOf(f) \in Nat
  BY FS_CardinalityType DEF SumOf
<1> QED
  BY <1>3, <1>4
\* At no bound, the record of orders gains one entry.
LEMMA RecordCounts ==
  ASSUME Counting, TypeOK, NEW f \in [Days -> Nat], IsFiniteSet(Entries(f))
  PROVE  /\ IsFiniteSet(Entries(Record(f)))
         /\ SumOf(f) \in Nat /\ SumOf(Record(f)) = SumOf(f) + 1
<1>1. today \in Days
  BY DEF TypeOK
<1>2. Record(f) = [f EXCEPT ![today] = @ + 1]
  BY DEF Record, Tally, Counting
<1> QED
  BY <1>1, <1>2, OneMore

\* And so does the ledger with a line.
LEMMA LineCounts ==
  ASSUME Counting, TypeOK, NEW l \in Lines, IsFiniteSet(Entries(ledger)),
         ledger' = [ledger EXCEPT ![l] = Tally(@)]
  PROVE  /\ IsFiniteSet(Entries(ledger'))
         /\ SumOf(ledger) \in Nat /\ SumOf(ledger') = SumOf(ledger) + 1
         /\ ledger'["order_placed"] =
              ledger["order_placed"] + Holds(l = "order_placed")
<1>1. ledger \in [Lines -> Nat]
  BY DEF TypeOK
<1>2. ledger' = [ledger EXCEPT ![l] = @ + 1]
  BY DEF Tally, Counting
<1>3. ledger'["order_placed"] = ledger["order_placed"] + Holds(l = "order_placed")
  BY <1>1, <1>2 DEF Holds, Lines
<1>4. PICK g : g = ledger'
  OBVIOUS
<1>5. IsFiniteSet(Entries(g)) /\ SumOf(ledger) \in Nat /\ SumOf(g) = SumOf(ledger) + 1
  BY <1>1, <1>2, <1>4, OneMore
<1> QED
  BY <1>3, <1>4, <1>5

----------------------------------------------------------------------------
(***************************************************************************)
(* What a step of a server does to the three sets of servers.              *)
(***************************************************************************)

\* It moves that server alone in or out of each.
LEMMA ServerSets ==
  ASSUME TypeInv, NEW p \in Servers, Server(p)
  PROVE  /\ Busy \ {p} = Busy' \ {p}
         /\ Owed \ {p} = Owed' \ {p}
         /\ Uncounted \ {p} = Uncounted' \ {p}
<1>1. \A q \in Servers \ {p} : pc'[q] = pc[q] /\ call'[q] = call[q]
  BY Elsewhere
<1>2. Busy \ {p} = Busy' \ {p}
  BY <1>1 DEF Busy
<1>3. Owed \ {p} = Owed' \ {p}
  BY <1>1 DEF Owed, Allowed
<1>4. Uncounted \ {p} = Uncounted' \ {p}
  BY <1>1 DEF Uncounted
<1> QED
  BY <1>2, <1>3, <1>4

\* The record of an order and the line of a call are counted one at a time.
LEMMA ServerSums ==
  ASSUME TypeInv, NEW p \in Servers, Server(p)
  PROVE  /\ accepted' = accepted \/ accepted' = Record(accepted)
         /\ placed' = placed \/ placed' = Record(placed)
         /\ \/ ledger' = ledger
            \/ \E l \in Lines : ledger' = [ledger EXCEPT ![l] = Tally(@)]
<1>1. LineOf(p) \in Lines \/ ~AppendLedger(p)
  <2>1. ASSUME AppendLedger(p) PROVE LineOf(p) \in Lines
    <3>1. /\ call[p].decision \in {"allow", "deny", "pause_for_reauth", Null}
          /\ call[p].decision # Null
      BY <2>1 DEF TypeInv, TypeOK, Call, Locals, AppendLedger, At
    <3> QED
      BY <3>1 DEF LineOf, Lines
  <2> QED
    BY <2>1
<1> USE DEF files, world
<1>2. ASSUME NEW c \in ToolCalls, ReceiveCall(p, c)
      PROVE  UNCHANGED <<accepted, placed, ledger>>
  BY <1>2 DEF ReceiveCall
<1>3. CASE CutShort(p)
  BY <1>3 DEF CutShort
<1>4. CASE Step(p)
  <2>1. CASE AppendLedger(p)
    BY <1>1, <2>1 DEF AppendLedger
  <2>2. CASE \/ MakeCoroutine(p) \/ BrokerConfirms(p) \/ BrokerFails(p)
             \/ AnswerLost(p)
    BY <2>2 DEF MakeCoroutine, BrokerConfirms, BrokerFails, AnswerLost, Returned
  <2>3. CASE \/ LoadMandate(p) \/ CheckExpiry(p)
             \/ CheckGlobalHalt(p) \/ CheckBrokerHalt(p)
             \/ \E quote \in Quotes : Price(p, quote)
             \/ CheckCaps(p) \/ ForwardRaisesOut(p)
             \/ TakeDate(p) \/ ReadCounter(p) \/ ReplaceCounter(p)
             \/ ReloadMandate(p)
    BY <2>3 DEF LoadMandate, CheckExpiry, CheckGlobalHalt, CheckBrokerHalt,
       CheckHalt, Price, CheckCaps, ForwardRaisesOut, TakeDate, ReadCounter,
       ReplaceCounter, ReloadMandate
  <2> QED
    BY <1>4, <2>1, <2>2, <2>3 DEF Step
<1> QED
  BY <1>2, <1>3, <1>4 DEF Server

\* The operator and the clock leave the servers and the counts alone.
LEMMA OperatorCounts ==
  ASSUME Operator
  PROVE  UNCHANGED <<pc, call, counter, ledger, placed, accepted, tallies>>
BY DEF Operator, CommitMandate, Expire, RevokeMandate, TripHalt, ClearHalt,
       Midnight, files, world

\* The sets that are counted stay finite.
LEMMA FiniteServer ==
  ASSUME Counting, TypeInv, Finite, NEW p \in Servers, Server(p)
  PROVE  Finite'
<1>1. IsFiniteSet(Busy)' /\ IsFiniteSet(Owed)' /\ IsFiniteSet(Uncounted)'
  BY ServerSets, Toggle DEF Finite
<1>2. TypeOK /\ accepted \in [Days -> Nat] /\ placed \in [Days -> Nat]
  BY DEF TypeInv, TypeOK
<1>3. IsFiniteSet(Entries(accepted'))
  BY <1>2, ServerSums, RecordCounts DEF Finite
<1>4. IsFiniteSet(Entries(placed'))
  BY <1>2, ServerSums, RecordCounts DEF Finite
<1>5. IsFiniteSet(Entries(ledger'))
  BY <1>2, ServerSums, LineCounts DEF Finite
<1> QED
  BY <1>1, <1>3, <1>4, <1>5 DEF Finite, Entries

\* They stay finite in every step,
LEMMA FiniteNext == ASSUME Counting PROVE TypeInv /\ Finite /\ [Next]_vars => Finite'
<1> SUFFICES ASSUME TypeInv, Finite, [Next]_vars PROVE Finite'
  OBVIOUS
<1>1. ASSUME NEW p \in Servers, Server(p) PROVE Finite'
  BY <1>1, FiniteServer
<1>2. CASE Operator
  BY <1>2, OperatorCounts DEF Finite, Busy, Owed, Uncounted, Allowed
<1>3. CASE UNCHANGED vars
  BY <1>3 DEF vars, files, world, Finite, Busy, Owed, Uncounted, Allowed
<1> QED
  BY <1>1, <1>2, <1>3 DEF Next

\* and start empty.
LEMMA FiniteInit == Init => Finite /\ Busy = {} /\ Owed = {} /\ Uncounted = {}
<1> SUFFICES ASSUME Init PROVE Finite /\ Busy = {} /\ Owed = {} /\ Uncounted = {}
  OBVIOUS
<1>1. Busy = {} /\ Owed = {} /\ Uncounted = {}
  BY DEF Init, Busy, Owed, Uncounted, Recording
<1>2. /\ IsFiniteSet(Entries(ledger)) /\ IsFiniteSet(Entries(accepted))
      /\ IsFiniteSet(Entries(placed))
  BY NoEntries DEF Init
<1> QED
  BY <1>1, <1>2, FS_EmptySet DEF Finite

----------------------------------------------------------------------------
(***************************************************************************)
(* The ledger.  A call received is in flight, in the ledger, or among the  *)
(* unrecorded; a success taken is a line already or is owed one.           *)
(***************************************************************************)

\* What a step of p changes on one side of each account it changes on the
\* other.
LedgerStep(p) ==
  /\ started' + SumOf(ledger) + unrecorded + Holds(p \in Busy)
       = started + SumOf(ledger') + unrecorded' + Holds(p \in Busy')
  /\ faults' = 0 =>
       /\ faults = 0
       /\ SumOf(accepted') + ledger["order_placed"] + Holds(p \in Owed)
            = SumOf(accepted) + ledger'["order_placed"] + Holds(p \in Owed')
  /\ p \in Uncounted' => call'[p].result # "error"

\* The sums are numbers.
LEMMA SumsType ==
  ASSUME Finite
  PROVE  /\ SumOf(ledger) \in Nat /\ SumOf(accepted) \in Nat /\ SumOf(placed) \in Nat
         /\ Cardinality(Busy) \in Nat /\ Cardinality(Owed) \in Nat
         /\ Cardinality(Uncounted) \in Nat
BY FS_CardinalityType DEF Finite, SumOf

\* A step that balances keeps the accounts.
LEMMA LedgerBalance ==
  ASSUME Counting, TypeInv, Finite, LedgerInv, NEW p \in Servers, Server(p),
         LedgerStep(p)
  PROVE  LedgerInv'
<1>1. TypeOK' /\ Finite'
  <2>1. [Next]_vars
    BY DEF Next
  <2> QED
    BY <2>1, NextInv, FiniteNext DEF TypeInv
<1>2. /\ started \in Nat /\ started' \in Nat /\ unrecorded \in Nat /\ unrecorded' \in Nat
      /\ ledger["order_placed"] \in Nat /\ ledger'["order_placed"] \in Nat
  BY <1>1 DEF TypeInv, TypeOK, Lines
<1>3. /\ SumOf(ledger) \in Nat /\ SumOf(accepted) \in Nat
      /\ SumOf(ledger') \in Nat /\ SumOf(accepted') \in Nat
  BY <1>1, SumsType, FS_CardinalityType DEF Finite, SumOf
<1>4. /\ Cardinality(Busy) \in Nat /\ Cardinality(Busy') \in Nat
      /\ Cardinality(Busy') = Cardinality(Busy) + Holds(p \in Busy') - Holds(p \in Busy)
  BY ServerSets, Toggle DEF Finite
<1>5. /\ Cardinality(Owed) \in Nat /\ Cardinality(Owed') \in Nat
      /\ Cardinality(Owed') = Cardinality(Owed) + Holds(p \in Owed') - Holds(p \in Owed)
  BY ServerSets, Toggle DEF Finite
<1>6. \A b : Holds(b) \in {0, 1}
  BY DEF Holds
<1>7. started' = SumOf(ledger') + unrecorded' + Cardinality(Busy')
  <2>1. started = SumOf(ledger) + unrecorded + Cardinality(Busy)
    BY DEF LedgerInv
  <2>2. started' + SumOf(ledger) + unrecorded + Holds(p \in Busy)
          = started + SumOf(ledger') + unrecorded' + Holds(p \in Busy')
    BY DEF LedgerStep
  <2>3. Holds(p \in Busy) \in Int /\ Holds(p \in Busy') \in Int
    BY DEF Holds
  <2> QED
    BY <1>2, <1>3, <1>4, <2>1, <2>2, <2>3
<1>8. ASSUME faults' = 0
      PROVE  SumOf(accepted') = ledger'["order_placed"] + Cardinality(Owed')
  <2>1. SumOf(accepted) = ledger["order_placed"] + Cardinality(Owed)
    BY <1>8 DEF LedgerInv, LedgerStep
  <2>2. SumOf(accepted') + ledger["order_placed"] + Holds(p \in Owed)
          = SumOf(accepted) + ledger'["order_placed"] + Holds(p \in Owed')
    BY <1>8 DEF LedgerStep
  <2>3. Holds(p \in Owed) \in Int /\ Holds(p \in Owed') \in Int
    BY DEF Holds
  <2> QED
    BY <1>2, <1>3, <1>5, <2>1, <2>2, <2>3
<1>9. ASSUME NEW q \in Uncounted' PROVE call'[q].result # "error"
  <2>1. CASE q = p
    BY <1>9, <2>1 DEF LedgerStep
  <2>2. CASE q # p
    <3>1. q \in Servers /\ q \in Uncounted
      BY <1>9, <2>2, ServerSets DEF Uncounted
    <3>2. call'[q] = call[q]
      BY <2>2, <3>1, Elsewhere
    <3> QED
      BY <3>1, <3>2 DEF LedgerInv
  <2> QED
    BY <2>1, <2>2
<1> QED
  BY <1>7, <1>8, <1>9 DEF LedgerInv, SumOf, Entries

\* A step that ends in no record and starts or ends no call.
LEMMA Quietly ==
  ASSUME TypeInv, Finite, NEW p \in Servers,
         UNCHANGED <<ledger, accepted, tallies>>,
         p \in Busy, p \in Busy', p \in Owed <=> p \in Owed',
         p \in Uncounted' => call'[p].result # "error"
  PROVE  LedgerStep(p)
BY SumsType DEF LedgerStep, tallies, Holds

\* Before the forward nothing is owed to the ledger.
LEMMA GateLabels ==
  ASSUME TypeInv, NEW p \in Servers,
         \/ LoadMandate(p) \/ CheckExpiry(p)
         \/ CheckGlobalHalt(p) \/ CheckBrokerHalt(p)
         \/ \E quote \in Quotes : Price(p, quote)
         \/ CheckCaps(p)
  PROVE  /\ UNCHANGED <<files, world, tallies>>
         /\ pc[p] \in Gate /\ pc'[p] \in Gate \cup {"forward", "reload"}
         /\ pc'[p] = "reload" => call'[p].decision # "allow"
         /\ pc'[p] = "forward" => CheckCaps(p)
<1> USE DEF TypeInv, TypeOK, Goto, At, Gate
<1>1. ASSUME NEW v, Decide(p, v)
      PROVE  IF v = "allow" THEN pc'[p] = "forward"
             ELSE pc'[p] = "reload" /\ call'[p].decision = v
  BY <1>1 DEF Decide, Call
<1>2. CASE LoadMandate(p)
  BY <1>1, <1>2 DEF LoadMandate
<1>3. CASE CheckExpiry(p)
  BY <1>1, <1>3 DEF CheckExpiry
<1>4. CASE CheckGlobalHalt(p) \/ CheckBrokerHalt(p)
  BY <1>1, <1>4 DEF CheckGlobalHalt, CheckBrokerHalt, CheckHalt
<1>5. CASE \E quote \in Quotes : Price(p, quote)
  BY <1>1, <1>5 DEF Price
<1>6. CASE CheckCaps(p)
  BY <1>1, <1>6 DEF CheckCaps
<1> QED
  BY <1>2, <1>3, <1>4, <1>5, <1>6

\* What a forward returns.
LEMMA ReturnedLabels ==
  ASSUME TypeInv, NEW p \in Servers, NEW r \in {"ok", "error", "coroutine"},
         At(p, "forward"), Returned(p, r)
  PROVE  /\ pc[p] = "forward" /\ pc'[p] = IF r = "error" THEN "reload" ELSE "today"
         /\ call[p].decision = "allow" /\ call'[p].decision = "allow"
         /\ call'[p].result = r
         /\ accepted' = IF r = "error" THEN accepted ELSE Record(accepted)
<1>1. call[p] \in Call /\ call[p].decision = "allow"
  BY DEF TypeInv, TypeOK, At, Locals
<1>2. call'[p] = [call[p] EXCEPT !.result = r]
  BY DEF TypeInv, TypeOK, Returned
<1> QED
  BY <1>1, <1>2 DEF TypeInv, TypeOK, Returned, Goto, At, Call

\* The actions between the forward and the line move the label only.
LEMMA RecordingLabels ==
  ASSUME TypeInv, NEW p \in Servers,
         \/ TakeDate(p) \/ ReadCounter(p) \/ ReplaceCounter(p) \/ ReloadMandate(p)
  PROVE  /\ UNCHANGED <<ledger, accepted, placed, tallies, today>>
         /\ call'[p].decision = call[p].decision
         /\ call'[p].result = call[p].result
         /\ \/ pc[p] = "today" /\ pc'[p] = "read" /\ TakeDate(p)
            \/ pc[p] = "read" /\ pc'[p] = "write" /\ ReadCounter(p)
            \/ pc[p] = "write" /\ pc'[p] = "reload" /\ ReplaceCounter(p)
            \/ pc[p] = "reload" /\ pc'[p] = "append" /\ ReloadMandate(p)
<1> USE DEF TypeInv, TypeOK, Goto, At, Call, files, world
<1>1. CASE TakeDate(p)
  BY <1>1 DEF TakeDate
<1>2. CASE ReadCounter(p)
  BY <1>2 DEF ReadCounter
<1>3. CASE ReplaceCounter(p)
  BY <1>3 DEF ReplaceCounter
<1>4. CASE ReloadMandate(p)
  BY <1>4 DEF ReloadMandate
<1> QED
  BY <1>1, <1>2, <1>3, <1>4

\* A handler that ends is in none of the sets.
LEMMA FinishLabels ==
  ASSUME TypeInv, NEW p \in Servers, Finish(p)
  PROVE  pc'[p] = "idle" /\ p \notin Busy' /\ p \notin Owed' /\ p \notin Uncounted'
<1>1. pc'[p] = "idle"
  BY DEF TypeInv, TypeOK, Finish, Goto
<1> QED
  BY <1>1 DEF Busy, Owed, Uncounted, Recording

\* A call received is a call in flight.
LEMMA ReceiveLedger ==
  ASSUME Counting, TypeInv, Finite, NEW p \in Servers, NEW c \in ToolCalls,
         ReceiveCall(p, c)
  PROVE  LedgerStep(p)
<1>1. pc[p] = "idle" /\ pc'[p] \in {"load", "reload"}
  BY DEF TypeInv, TypeOK, ReceiveCall, At, Goto
<1>2. call'[p].decision # "allow"
  BY ValueAssumption DEF TypeInv, TypeOK, ReceiveCall, NoCall
<1>3. p \notin Busy /\ p \notin Owed /\ p \in Busy' /\ p \notin Owed' /\ p \notin Uncounted'
  BY <1>1, <1>2 DEF Busy, Owed, Uncounted, Recording, Allowed
<1>4. started' = started + 1 /\ started \in Nat
  BY DEF ReceiveCall, Tally, Counting, TypeInv, TypeOK
<1>5. UNCHANGED <<ledger, accepted, unrecorded, faults>>
  BY DEF ReceiveCall, files, world
<1> QED
  BY <1>3, <1>4, <1>5, SumsType DEF LedgerStep, Holds, TypeInv, TypeOK, Lines

\* A success owes the ledger its line; an error of the broker owes another.
LEMMA ReturnedLedger ==
  ASSUME Counting, TypeInv, Finite, NEW p \in Servers,
         NEW r \in {"ok", "error", "coroutine"}, At(p, "forward"), Returned(p, r)
  PROVE  LedgerStep(p)
<1>1. UNCHANGED <<ledger, tallies>>
  BY DEF Returned, files
<1>2. p \in Busy /\ p \in Busy' /\ p \notin Owed
  BY ReturnedLabels DEF Busy, Owed, Recording
<1>3. Holds(p \in Owed') = IF r = "error" THEN 0 ELSE 1
  BY ReturnedLabels DEF Owed, Recording, Allowed, Holds
<1>4. p \in Uncounted' => call'[p].result # "error"
  BY ReturnedLabels DEF Uncounted, Recording
<1>5. /\ SumOf(accepted) \in Nat
      /\ SumOf(accepted') = IF r = "error" THEN SumOf(accepted) ELSE SumOf(accepted) + 1
  BY ReturnedLabels, RecordCounts, SumsType DEF Finite, TypeInv, TypeOK
<1>6. Holds(p \in Busy) = 1 /\ Holds(p \in Busy') = 1 /\ Holds(p \in Owed) = 0
  BY <1>2 DEF Holds
<1>7. started' + SumOf(ledger) + unrecorded + Holds(p \in Busy)
        = started + SumOf(ledger') + unrecorded' + Holds(p \in Busy')
  BY <1>1, <1>6, SumsType DEF tallies
<1>8. SumOf(accepted') + ledger["order_placed"] + Holds(p \in Owed)
        = SumOf(accepted) + ledger'["order_placed"] + Holds(p \in Owed')
  <2>1. ledger["order_placed"] \in Nat
    BY DEF TypeInv, TypeOK, Lines
  <2> QED
    BY <1>1, <1>3, <1>5, <1>6, <2>1
<1> QED
  BY <1>1, <1>4, <1>7, <1>8 DEF LedgerStep, tallies

\* The line of a call ends it, and pays what it owed.
LEMMA AppendLedgerStep ==
  ASSUME Counting, TypeInv, Finite, NEW p \in Servers, AppendLedger(p)
  PROVE  LedgerStep(p)
<1>1. /\ call[p].decision \in {"allow", "deny", "pause_for_reauth"}
      /\ pc[p] = "append"
  BY DEF TypeInv, TypeOK, Call, Locals, AppendLedger, At
<1>2. LineOf(p) \in Lines /\ (LineOf(p) = "order_placed" <=> p \in Owed)
  BY <1>1 DEF LineOf, Lines, Owed, Allowed
<1>3. /\ SumOf(ledger) \in Nat /\ SumOf(ledger') = SumOf(ledger) + 1
      /\ ledger'["order_placed"] = ledger["order_placed"] + Holds(LineOf(p) = "order_placed")
  BY <1>2, LineCounts DEF AppendLedger, TypeInv, Finite
<1>4. Holds(LineOf(p) = "order_placed") = Holds(p \in Owed)
  BY <1>2 DEF Holds
<1>5. p \in Busy /\ p \notin Busy' /\ p \notin Owed' /\ p \notin Uncounted'
  BY <1>1, FinishLabels DEF AppendLedger, Busy
<1>6. Holds(p \in Busy) = 1 /\ Holds(p \in Busy') = 0 /\ Holds(p \in Owed') = 0
  BY <1>5 DEF Holds
<1>7. UNCHANGED <<started, unrecorded, faults, accepted>>
  BY DEF AppendLedger, tallies, world
<1>8. Holds(p \in Owed) \in Int /\ ledger["order_placed"] \in Nat
  BY DEF Holds, TypeInv, TypeOK, Lines
<1>9. started \in Nat /\ unrecorded \in Nat
  BY DEF TypeInv, TypeOK
<1>10. started' + SumOf(ledger) + unrecorded + Holds(p \in Busy)
         = started + SumOf(ledger') + unrecorded' + Holds(p \in Busy')
  BY <1>3, <1>6, <1>7, <1>9
<1>11. SumOf(accepted') + ledger["order_placed"] + Holds(p \in Owed)
         = SumOf(accepted) + ledger'["order_placed"] + Holds(p \in Owed')
  BY <1>3, <1>4, <1>6, <1>7, <1>8, SumsType
<1> QED
  BY <1>5, <1>7, <1>10, <1>11 DEF LedgerStep

\* A handler that an exception or a crash ends is counted as unrecorded.
LEMMA EndedLedger ==
  ASSUME Counting, TypeInv, Finite, NEW p \in Servers,
         ForwardRaisesOut(p) \/ CutShort(p)
  PROVE  LedgerStep(p)
<1>1. /\ pc[p] # "idle" /\ Finish(p) /\ UNCHANGED <<ledger, accepted, started>>
      /\ unrecorded' = unrecorded + 1
      /\ (faults' = faults /\ pc[p] = "forward") \/ faults' = faults + 1
  BY DEF ForwardRaisesOut, CutShort, At, Tally, Counting, files, world
<1>2. p \in Busy /\ p \notin Busy' /\ p \notin Owed' /\ p \notin Uncounted'
  BY <1>1, FinishLabels DEF Busy
<1>3. faults' = 0 => faults' = faults /\ p \notin Owed
  BY <1>1 DEF Owed, Recording, TypeInv, TypeOK
<1>4. started \in Nat /\ unrecorded \in Nat /\ ledger["order_placed"] \in Nat
  BY DEF TypeInv, TypeOK, Lines
<1> QED
  BY <1>1, <1>2, <1>3, <1>4, SumsType DEF LedgerStep, Holds

\* Every step of a server balances.
LEMMA ServerLedger ==
  ASSUME Counting, TypeInv, Finite, LedgerInv, NEW p \in Servers, Server(p)
  PROVE  LedgerStep(p)
<1>1. ASSUME NEW c \in ToolCalls, ReceiveCall(p, c) PROVE LedgerStep(p)
  BY <1>1, ReceiveLedger
<1>2. CASE \/ LoadMandate(p) \/ CheckExpiry(p)
           \/ CheckGlobalHalt(p) \/ CheckBrokerHalt(p)
           \/ \E quote \in Quotes : Price(p, quote)
           \/ CheckCaps(p)
  <2>1. UNCHANGED <<ledger, accepted, tallies>>
    BY <1>2, GateLabels DEF files, world
  <2>2. /\ pc[p] \in Gate /\ pc'[p] \in Gate \cup {"forward", "reload"}
        /\ pc'[p] = "reload" => call'[p].decision # "allow"
    BY <1>2, GateLabels
  <2>3. /\ p \in Busy /\ p \in Busy' /\ p \notin Owed /\ p \notin Owed'
        /\ p \notin Uncounted'
    BY <2>2 DEF Busy, Owed, Uncounted, Allowed, Gate, Recording
  <2> QED
    BY <2>1, <2>3, Quietly
<1>3. CASE \/ MakeCoroutine(p) \/ BrokerConfirms(p) \/ BrokerFails(p)
           \/ AnswerLost(p)
  BY <1>3, ReturnedLedger DEF MakeCoroutine, BrokerConfirms, BrokerFails,
     AnswerLost, BrokerCall
<1>4. CASE \/ TakeDate(p) \/ ReadCounter(p) \/ ReplaceCounter(p)
           \/ ReloadMandate(p)
  <2>1. UNCHANGED <<ledger, accepted, tallies>>
    BY <1>4, RecordingLabels
  <2>2. p \in Busy /\ p \in Busy' /\ (p \in Owed <=> p \in Owed')
    BY <1>4, RecordingLabels DEF Busy, Owed, Allowed, Recording
  <2>3. p \in Uncounted' => p \in Uncounted
    BY <1>4, RecordingLabels DEF Uncounted, Recording
  <2>4. p \in Uncounted' => call'[p].result # "error"
    BY <1>4, <2>3, RecordingLabels DEF LedgerInv
  <2> QED
    BY <2>1, <2>2, <2>4, Quietly
<1>5. CASE AppendLedger(p)
  BY <1>5, AppendLedgerStep
<1>6. CASE ForwardRaisesOut(p) \/ CutShort(p)
  BY <1>6, EndedLedger
<1> QED
  BY <1>1, <1>2, <1>3, <1>4, <1>5, <1>6 DEF Server, Step

\* The inductive invariant of the ledger.
Accounts == TypeInv /\ Finite /\ LedgerInv

\* Nothing is counted at first.
LEMMA AccountsInit == Init => Accounts
<1> SUFFICES ASSUME Init PROVE Accounts
  OBVIOUS
<1>1. SumOf(ledger) = 0 /\ SumOf(accepted) = 0
  BY NoEntries DEF Init
<1>2. Cardinality(Busy) = 0 /\ Cardinality(Owed) = 0
  BY FiniteInit, FS_EmptySet
<1> QED
  BY <1>1, <1>2, InitInv, FiniteInit DEF Init, Accounts, LedgerInv, Lines

\* The accounts are inductive.
LEMMA AccountsNext == ASSUME Counting PROVE Accounts /\ [Next]_vars => Accounts'
<1> SUFFICES ASSUME Accounts, [Next]_vars PROVE Accounts'
  OBVIOUS
<1>1. TypeInv' /\ Finite'
  BY NextInv, FiniteNext DEF Accounts
<1>2. LedgerInv'
  <2>1. ASSUME NEW p \in Servers, Server(p) PROVE LedgerInv'
    BY <2>1, ServerLedger, LedgerBalance DEF Accounts
  <2>2. CASE Operator
    BY <2>2, OperatorCounts DEF Accounts, LedgerInv, Busy, Owed, Uncounted,
       Allowed, tallies
  <2>3. CASE UNCHANGED vars
    BY <2>3 DEF vars, files, world, tallies, Accounts, LedgerInv, Busy, Owed,
       Uncounted, Allowed
  <2> QED
    BY <2>1, <2>2, <2>3 DEF Next
<1> QED
  BY <1>1, <1>2 DEF Accounts

\* Every call a server received is, in every state, in flight, in the ledger
\* by exactly one line, or among those an exception or a crash ended; and
\* until a fault, every forward taken for a success has its order_placed
\* line or is in a call still in flight (tools_order.py, _gate_and_forward).
THEOREM Accounted ==
  ASSUME Counting
  PROVE  Spec => []Accounts
BY AccountsInit, AccountsNext, PTL DEF Spec

\* CallsRecorded: when no call is in flight the ledger accounts for them all.
THEOREM Recorded ==
  ASSUME Counting
  PROVE  Spec => []CallsRecorded
<1>1. Accounts => CallsRecorded
  <2> SUFFICES ASSUME Accounts, Quiet PROVE started = SumOf(ledger) + unrecorded
    BY DEF CallsRecorded
  <2>1. Cardinality(Busy) = 0
    BY FS_EmptySet DEF Quiet, Busy, At
  <2> QED
    BY <2>1, SumsType DEF Accounts, LedgerInv, TypeInv, TypeOK
<1> QED
  BY <1>1, Accounted, PTL

\* AcceptedRecorded: without a fault no success is lost to the ledger.
THEOREM SuccessesRecorded ==
  ASSUME Counting
  PROVE  Spec => []AcceptedRecorded
<1>1. Accounts => AcceptedRecorded
  <2> SUFFICES ASSUME Accounts, Quiet, faults = 0
               PROVE  SumOf(accepted) = ledger["order_placed"]
    BY DEF AcceptedRecorded
  <2>1. Cardinality(Owed) = 0
    BY FS_EmptySet DEF Quiet, Owed, At, Recording
  <2> QED
    BY <2>1, SumsType DEF Accounts, LedgerInv, TypeInv, TypeOK, Lines
<1> QED
  BY <1>1, Accounted, PTL

----------------------------------------------------------------------------
(***************************************************************************)
(* The counter against the forwards taken for a success, whatever a        *)
(* forward is, and against the orders the broker executed, when it calls   *)
(* the broker.  Each server between its forward and its write has taken a  *)
(* success the counter does not show yet.                                  *)
(***************************************************************************)

\* What increment_daily_count starts from is at most what the file holds.
LEMMA ReadBelowLast ==
  ASSUME TypeOK
  PROVE  /\ LastCount \in Nat /\ ReadDailyCount \in Nat
         /\ ReadDailyCount <= LastCount
BY DEF TypeOK, LastCount, ReadDailyCount, CounterFile

\* A step of p that moves no server but p, and adds to the counter or to the
\* uncounted no more than to the successes taken.
LEMMA AheadBalance ==
  ASSUME TypeInv, Finite, AheadInv, NEW p \in Servers, Server(p),
         TypeOK', Finite',
         LastCount' + Cardinality(Uncounted') <= SumOf(accepted'),
         SumOf(accepted) + Holds(p \in Uncounted')
           <= SumOf(accepted') + Holds(p \in Uncounted),
         At(p, "write")' =>
           call'[p].count + Cardinality(Uncounted') <= SumOf(accepted') + 1
  PROVE  AheadInv'
<1>1. ASSUME NEW q \in Servers, At(q, "write")'
      PROVE  call'[q].count + Cardinality(Uncounted') <= SumOf(accepted') + 1
  <2>1. CASE q = p
    BY <1>1, <2>1
  <2>2. CASE q # p
    <3>1. At(q, "write") /\ call'[q] = call[q]
      BY <1>1, <2>2, Elsewhere DEF At
    <3>2. call[q].count + Cardinality(Uncounted) <= SumOf(accepted) + 1
      BY <3>1 DEF AheadInv
    <3>3. call[q].count \in Nat
      BY <3>1 DEF TypeInv, Locals, At
    <3>4. /\ Cardinality(Uncounted) \in Nat /\ Cardinality(Uncounted') \in Nat
          /\ Cardinality(Uncounted') =
               Cardinality(Uncounted) + Holds(p \in Uncounted') - Holds(p \in Uncounted)
      BY ServerSets, Toggle DEF Finite
    <3>5. Holds(p \in Uncounted) \in Int /\ Holds(p \in Uncounted') \in Int
      BY DEF Holds
    <3>6. SumOf(accepted) \in Nat /\ SumOf(accepted') \in Nat
      BY SumsType, FS_CardinalityType DEF Finite, SumOf
    <3> QED
      BY <3>1, <3>2, <3>3, <3>4, <3>5, <3>6
  <2> QED
    BY <2>1, <2>2
<1> QED
  BY <1>1 DEF AheadInv, LastCount, At, SumOf, Entries

\* The actions of a server, one at a time.
LEMMA ServerAhead ==
  ASSUME Counting, TypeInv, Finite, AheadInv, NEW p \in Servers, Server(p)
  PROVE  AheadInv'
<1>1. TypeOK' /\ Finite'
  <2>1. [Next]_vars
    BY DEF Next
  <2> QED
    BY <2>1, NextInv, FiniteServer DEF TypeInv
<1>2. /\ Cardinality(Uncounted) \in Nat /\ Cardinality(Uncounted') \in Nat
      /\ Cardinality(Uncounted') =
           Cardinality(Uncounted) + Holds(p \in Uncounted') - Holds(p \in Uncounted)
  BY ServerSets, Toggle DEF Finite
<1>3. SumOf(accepted) \in Nat /\ SumOf(accepted') \in Nat
  BY <1>1, SumsType, FS_CardinalityType DEF Finite, SumOf
<1>4. LastCount \in Nat /\ ReadDailyCount \in Nat /\ ReadDailyCount <= LastCount
  BY ReadBelowLast DEF TypeInv
<1>5. LastCount + Cardinality(Uncounted) <= SumOf(accepted)
  BY DEF AheadInv
<1>6. ASSUME counter' = counter, accepted' = accepted, ~At(p, "write")',
             p \in Uncounted' => p \in Uncounted
      PROVE  AheadInv'
  <2>1. LastCount' = LastCount
    BY <1>6 DEF LastCount
  <2>2. Holds(p \in Uncounted') <= Holds(p \in Uncounted)
    BY <1>6 DEF Holds
  <2>3. Holds(p \in Uncounted) \in Int /\ Holds(p \in Uncounted') \in Int
    BY DEF Holds
  <2> QED
    BY <1>1, <1>2, <1>3, <1>4, <1>5, <1>6, <2>1, <2>2, <2>3, AheadBalance
<1>7. ASSUME NEW c \in ToolCalls, ReceiveCall(p, c) PROVE AheadInv'
  <2>1. pc'[p] \in {"load", "reload"} /\ UNCHANGED <<counter, accepted>>
    BY <1>7 DEF TypeInv, TypeOK, ReceiveCall, Goto, files, world
  <2> QED
    BY <1>6, <2>1 DEF At, Uncounted, Recording
<1>8. CASE \/ LoadMandate(p) \/ CheckExpiry(p)
           \/ CheckGlobalHalt(p) \/ CheckBrokerHalt(p)
           \/ \E quote \in Quotes : Price(p, quote)
           \/ CheckCaps(p)
  <2>1. pc'[p] \in Gate \cup {"forward", "reload"} /\ UNCHANGED <<counter, accepted>>
    BY <1>8, GateLabels DEF files, world
  <2> QED
    BY <1>6, <2>1 DEF At, Uncounted, Recording, Gate
<1>9. CASE MakeCoroutine(p) \/ BrokerConfirms(p)
  <2>1. /\ pc[p] = "forward" /\ pc'[p] = "today" /\ UNCHANGED counter
        /\ accepted' = Record(accepted)
    BY <1>9, ReturnedLabels
       DEF MakeCoroutine, BrokerConfirms, BrokerCall, At, Returned, files
  <2>2. SumOf(accepted') = SumOf(accepted) + 1
    BY <2>1, RecordCounts DEF Finite, TypeInv, TypeOK
  <2>3. LastCount' = LastCount
    BY <2>1 DEF LastCount
  <2>4. p \notin Uncounted /\ p \in Uncounted' /\ ~At(p, "write")'
    BY <2>1 DEF Uncounted, Recording, At
  <2>5. Holds(p \in Uncounted) = 0 /\ Holds(p \in Uncounted') = 1
    BY <2>4 DEF Holds
  <2> QED
    BY <1>1, <1>2, <1>3, <1>4, <1>5, <2>2, <2>3, <2>4, <2>5, AheadBalance
<1>10. CASE BrokerFails(p) \/ AnswerLost(p)
  <2>1. /\ pc[p] = "forward" /\ pc'[p] = "reload"
        /\ UNCHANGED <<counter, accepted>>
    BY <1>10, ReturnedLabels DEF BrokerFails, AnswerLost, BrokerCall, At, Returned, files
  <2> QED
    BY <1>6, <2>1 DEF At, Uncounted, Recording
<1>11. CASE TakeDate(p) \/ ReloadMandate(p)
  <2>1. UNCHANGED <<counter, accepted>>
    BY <1>11 DEF TakeDate, ReloadMandate, files, world
  <2>2. \/ pc[p] = "today" /\ pc'[p] = "read"
        \/ pc[p] = "reload" /\ pc'[p] = "append"
    BY <1>11 DEF TypeInv, TypeOK, TakeDate, ReloadMandate, At, Goto
  <2> QED
    BY <1>6, <2>1, <2>2 DEF At, Uncounted, Recording
<1>12. CASE ReadCounter(p)
  <2>1. /\ UNCHANGED <<counter, accepted>> /\ pc[p] = "read" /\ pc'[p] = "write"
        /\ call'[p].count = ReadDailyCount + 1
    BY <1>12 DEF TypeInv, TypeOK, Call, ReadCounter, At, Goto, files, world
  <2>2. p \in Uncounted /\ p \in Uncounted'
    BY <2>1 DEF Uncounted, Recording
  <2>3. Holds(p \in Uncounted) = 1 /\ Holds(p \in Uncounted') = 1
    BY <2>2 DEF Holds
  <2>4. LastCount' = LastCount
    BY <2>1 DEF LastCount
  <2> QED
    BY <1>1, <1>2, <1>3, <1>4, <1>5, <2>1, <2>3, <2>4, AheadBalance
<1>13. CASE ReplaceCounter(p)
  <2>1. /\ accepted' = accepted /\ pc[p] = "write" /\ pc'[p] = "reload"
        /\ counter' = [date |-> call[p].day, count |-> call[p].count]
    BY <1>13 DEF TypeInv, TypeOK, ReplaceCounter, At, Goto, world
  <2>2. p \in Uncounted /\ p \notin Uncounted' /\ ~At(p, "write")'
    BY <2>1 DEF Uncounted, Recording, At
  <2>3. Holds(p \in Uncounted) = 1 /\ Holds(p \in Uncounted') = 0
    BY <2>2 DEF Holds
  <2>4. counter' # Null
    BY <2>1, FileAssumption DEF TypeInv, Locals, At, CounterFile
  <2>5. LastCount' = call[p].count /\ call[p].count \in Nat
    BY <2>1, <2>4 DEF LastCount, TypeInv, Locals
  <2>6. call[p].count + Cardinality(Uncounted) <= SumOf(accepted) + 1
    BY <2>1 DEF AheadInv, At
  <2> QED
    BY <1>1, <1>2, <1>3, <2>1, <2>2, <2>3, <2>5, <2>6, AheadBalance
<1>14. CASE AppendLedger(p) \/ ForwardRaisesOut(p) \/ CutShort(p)
  <2>1. UNCHANGED <<counter, accepted>> /\ Finish(p)
    BY <1>14 DEF AppendLedger, ForwardRaisesOut, CutShort, files, world
  <2>2. pc'[p] = "idle" /\ p \notin Uncounted'
    BY <2>1, FinishLabels
  <2> QED
    BY <1>6, <2>1, <2>2 DEF At
<1> QED
  BY <1>7, <1>8, <1>9, <1>10, <1>11, <1>12, <1>13, <1>14 DEF Server, Step

\* The inductive invariant of the counter.
Ahead == TypeInv /\ Finite /\ AheadInv

\* The file shows no order at first.
LEMMA AheadInit == Init => Ahead
<1> SUFFICES ASSUME Init PROVE Ahead
  OBVIOUS
<1>1. SumOf(accepted) = 0 /\ Cardinality(Uncounted) = 0 /\ LastCount = 0
  BY NoEntries, FiniteInit, FS_EmptySet DEF Init, LastCount
<1> QED
  BY <1>1, InitInv, FiniteInit DEF Init, Ahead, AheadInv, At

\* The bound on the counter is inductive.
LEMMA AheadNext ==
  ASSUME Counting PROVE Ahead /\ [Next]_vars => Ahead'
<1> SUFFICES ASSUME Ahead, [Next]_vars PROVE Ahead'
  OBVIOUS
<1>1. TypeInv' /\ Finite'
  BY NextInv, FiniteNext DEF Ahead
<1>2. AheadInv'
  <2>1. ASSUME NEW p \in Servers, Server(p) PROVE AheadInv'
    BY <2>1, ServerAhead DEF Ahead
  <2>2. CASE Operator
    BY <2>2, OperatorCounts DEF Ahead, AheadInv, LastCount, Uncounted, At
  <2>3. CASE UNCHANGED vars
    BY <2>3 DEF vars, files, world, Ahead, AheadInv, LastCount, Uncounted, At
  <2> QED
    BY <2>1, <2>2, <2>3 DEF Next
<1> QED
  BY <1>1, <1>2 DEF Ahead

\* CounterBacked: however many servers read, increment and replace the one
\* counter, each from a count another may have overwritten since, whatever
\* crashes and whatever forward() is, the file never shows more trades than
\* forwards were taken for a success (daily_count.py, increment_daily_count; the
\* loss of a count is possible, a count too many is not).
THEOREM CountsSuccesses ==
  ASSUME Counting
  PROVE  Spec => []CounterBacked
<1>1. Ahead => CounterBacked
  <2> SUFFICES ASSUME Ahead, counter # Null
               PROVE  counter.count <= SumOf(accepted)
    BY DEF CounterBacked
  <2>1. LastCount = counter.count /\ LastCount \in Nat
    BY ReadBelowLast DEF Ahead, TypeInv, LastCount
  <2> QED
    BY <2>1, SumsType DEF Ahead, AheadInv
<1> QED
  BY <1>1, AheadInit, AheadNext, PTL DEF Spec

\* forward() is called and answers, as _gate_and_forward documents.  The tools
\* register no such forward.
CallsBroker == Forwards \subseteq {"call"}

\* What is taken for a success was executed, if forward() calls the broker.
Executed == TypeInv /\ Finite /\ SumOf(accepted) <= SumOf(placed)

\* A success adds to both records, or to neither.
LEMMA ServerExecuted ==
  ASSUME Counting, CallsBroker, Executed, NEW p \in Servers, Server(p)
  PROVE  SumOf(accepted') <= SumOf(placed')
<1>1. /\ SumOf(accepted) \in Nat /\ SumOf(Record(accepted)) = SumOf(accepted) + 1
      /\ SumOf(placed) \in Nat /\ SumOf(Record(placed)) = SumOf(placed) + 1
  BY RecordCounts DEF Executed, Finite, TypeInv, TypeOK
<1>2. \/ accepted' = accepted
      \/ accepted' = Record(accepted) /\ placed' = Record(placed)
  <2>1. CASE Step(p)
    <3>1. ~MakeCoroutine(p)
      BY DEF MakeCoroutine, CallsBroker
    <3>2. CASE BrokerConfirms(p) \/ BrokerFails(p) \/ AnswerLost(p)
      BY <3>2 DEF BrokerConfirms, BrokerFails, AnswerLost, Returned
    <3>3. CASE \/ LoadMandate(p) \/ CheckExpiry(p)
               \/ CheckGlobalHalt(p) \/ CheckBrokerHalt(p)
               \/ \E quote \in Quotes : Price(p, quote)
               \/ CheckCaps(p) \/ ForwardRaisesOut(p)
               \/ TakeDate(p) \/ ReadCounter(p) \/ ReplaceCounter(p)
               \/ ReloadMandate(p) \/ AppendLedger(p)
      BY <3>3 DEF LoadMandate, CheckExpiry, CheckGlobalHalt, CheckBrokerHalt,
         CheckHalt, Price, CheckCaps, ForwardRaisesOut, TakeDate, ReadCounter,
         ReplaceCounter, ReloadMandate, AppendLedger, files, world
    <3> QED
      BY <2>1, <3>1, <3>2, <3>3 DEF Step
  <2>2. CASE (\E c \in ToolCalls : ReceiveCall(p, c)) \/ CutShort(p)
    BY <2>2 DEF ReceiveCall, CutShort, files, world
  <2> QED
    BY <2>1, <2>2 DEF Server
<1>3. placed' = placed \/ placed' = Record(placed)
  BY ServerSums DEF Executed
<1> QED
  BY <1>1, <1>2, <1>3 DEF Executed

\* It stays so in every step.
LEMMA ExecutedNext ==
  ASSUME Counting, CallsBroker PROVE Executed /\ [Next]_vars => Executed'
<1> SUFFICES ASSUME Executed, [Next]_vars PROVE Executed'
  OBVIOUS
<1>1. TypeInv' /\ Finite'
  BY NextInv, FiniteNext DEF Executed
<1>2. SumOf(accepted') <= SumOf(placed')
  <2>1. ASSUME NEW p \in Servers, Server(p) PROVE SumOf(accepted') <= SumOf(placed')
    BY <2>1, ServerExecuted
  <2>2. CASE Operator
    BY <2>2, OperatorCounts DEF Executed
  <2>3. CASE UNCHANGED vars
    BY <2>3 DEF vars, world, Executed
  <2> QED
    BY <2>1, <2>2, <2>3 DEF Next
<1> QED
  BY <1>1, <1>2 DEF Executed, SumOf, Entries

\* CounterNeverAhead, of a forward that calls the broker: what the counter shows
\* was executed.  With the forward the tools register it is false.
COROLLARY NeverAhead ==
  ASSUME Counting, CallsBroker
  PROVE  Spec => []CounterNeverAhead
<1>1. Init => Executed
  BY NoEntries, InitInv, FiniteInit DEF Init, Executed
<1>2. CounterBacked /\ Executed => CounterNeverAhead
  <2> SUFFICES ASSUME CounterBacked, Executed, counter # Null
               PROVE  counter.count <= SumOf(placed)
    BY DEF CounterNeverAhead
  <2> QED
    BY SumsType DEF CounterBacked, Executed, TypeInv, TypeOK, CounterFile
<1> QED
  BY <1>1, <1>2, CountsSuccesses, ExecutedNext, PTL DEF Spec

----------------------------------------------------------------------------
(***************************************************************************)
(* The daily cap, with one server.  DayInv relates the forwards taken for  *)
(* a success today to what read_daily_count answers today, through the     *)
(* three steps of increment_daily_count and across midnight.               *)
(***************************************************************************)

\* One process serves the broker.
OneServer == \E s : Servers = {s}

\* What the gate compares with the cap: at its "allow", one more trade fits.
LEMMA AllowedCount ==
  ASSUME NEW m \in Mandate, NEW i, NEW n \in Nat, CheckMandate(m, i, n) = "allow"
  PROVE  m.max_trades_per_day \in Int /\ n < m.max_trades_per_day
<1>1. ~Exceeds(n + 1, m.max_trades_per_day)
  BY DEF CheckMandate, Quantitative
<1>2. m.max_trades_per_day \in Int
  BY DEF Mandate
<1> QED
  BY <1>1, <1>2 DEF Exceeds

\* The records of a day, and of the others, after one more success today.
LEMMA RecordToday ==
  ASSUME Counting, TypeOK
  PROVE  /\ Record(accepted) \in [Days -> Nat]
         /\ Record(accepted)[today] = accepted[today] + 1
         /\ \A d \in Days : d # today => Record(accepted)[d] = accepted[d]
         /\ today \in Days /\ \A d \in Days : d \in Nat /\ accepted[d] \in Nat
BY DEF TypeOK, Record, Tally, Counting, Days

\* A step after which no more is accepted and no less forgotten keeps the cap.
LEMMA CapKept ==
  ASSUME TypeOK, TypeOK', DailyCap, accepted' = accepted, forgotten' >= forgotten
  PROVE  DailyCap'
<1> SUFFICES ASSUME NEW d \in Days, accepted'[d] > forgotten'
             PROVE  \E m \in Mandates : accepted'[d] - forgotten' <= m.max_trades_per_day
  BY DEF DailyCap
<1>1. accepted[d] \in Nat /\ forgotten \in Nat /\ forgotten' \in Nat
  BY DEF TypeOK
<1>2. PICK m \in Mandates : accepted[d] - forgotten <= m.max_trades_per_day
  BY <1>1 DEF DailyCap
<1>3. m.max_trades_per_day \in Int
  BY LiveGateAssumption DEF Mandate
<1> QED
  BY <1>1, <1>2, <1>3

\* A step that leaves the counter and the record of successes alone, and
\* leaves the server neither at its forward nor at its counter, keeps DayInv:
\* a call it cuts short there is forgotten.
LEMMA DayAside ==
  ASSUME TypeInv, TypeOK', NEW p \in Servers, DayInv(p),
         UNCHANGED <<accepted, counter, today>>,
         pc'[p] \notin {"forward"} \cup Recording,
         p \in Uncounted => forgotten' = forgotten + 1,
         p \notin Uncounted => forgotten' >= forgotten
  PROVE  DayInv(p)'
<1>1. p \notin Uncounted' /\ ~At(p, "forward")' /\ ~At(p, "write")'
      /\ pc'[p] \notin {"read", "write"}
  BY DEF Uncounted, At, Recording
<1>2. ReadDailyCount' = ReadDailyCount /\ ReadDailyCount \in Nat
  BY ReadType DEF ReadDailyCount, TypeInv
<1>3. forgotten \in Nat /\ forgotten' \in Nat /\ accepted[today] \in Nat /\ today \in Days
  BY DEF TypeInv, TypeOK
<1>4. accepted[today] <= forgotten + ReadDailyCount + Holds(p \in Uncounted)
  BY DEF DayInv
<1>5. accepted'[today'] <= forgotten' + ReadDailyCount' + Holds(p \in Uncounted')
  BY <1>1, <1>2, <1>3, <1>4 DEF Holds
<1>6. \A d \in Days : d > today' => accepted'[d] = 0
  BY DEF DayInv
<1>7. DailyCap'
  BY <1>3, CapKept DEF DayInv, TypeInv
<1> QED
  BY <1>1, <1>5, <1>6, <1>7 DEF DayInv

\* The gate: only its "allow" leads to the forward, and one more trade fits.
LEMMA DayGate ==
  ASSUME TypeInv, TypeOK', NEW p \in Servers, DayInv(p),
         \/ LoadMandate(p) \/ CheckExpiry(p)
         \/ CheckGlobalHalt(p) \/ CheckBrokerHalt(p)
         \/ \E quote \in Quotes : Price(p, quote)
         \/ CheckCaps(p)
  PROVE  DayInv(p)'
<1>1. /\ UNCHANGED <<accepted, counter, today, forgotten>>
      /\ pc[p] \in Gate /\ pc'[p] \in Gate \cup {"forward", "reload"}
      /\ pc'[p] = "forward" => CheckCaps(p)
  BY GateLabels DEF files, world, tallies
<1>2. p \notin Uncounted
  BY <1>1 DEF Uncounted, Gate, Recording
<1>3. forgotten \in Nat
  BY DEF TypeInv, TypeOK
<1>4. CASE pc'[p] # "forward"
  BY <1>1, <1>2, <1>3, <1>4, DayAside DEF Gate, Recording
<1>5. CASE pc'[p] = "forward"
  <2>1. CheckCaps(p) /\ pc[p] = "count"
    BY <1>1, <1>5 DEF CheckCaps, At
  <2>2. call[p] \in Call /\ call[p].loaded \in Mandates
    BY <2>1 DEF TypeInv, TypeOK, Locals, PastLoad
  <2>3. CheckMandate(call[p].loaded, call[p].intent, ReadDailyCount) = "allow"
    BY <1>5, <2>1 DEF CheckCaps, Decide, Goto, TypeInv, TypeOK
  <2>4. ReadDailyCount \in Nat
    BY ReadType DEF TypeInv
  <2>5. call'[p].loaded = call[p].loaded
    BY <2>1, <2>2 DEF CheckCaps, Decide, TypeInv, TypeOK, Call
  <2>6. /\ call[p].loaded.max_trades_per_day \in Int
        /\ ReadDailyCount < call[p].loaded.max_trades_per_day
    <3>1. call[p].loaded \in Mandate
      BY <2>2, LiveGateAssumption
    <3> QED
      BY <2>3, <2>4, <3>1, AllowedCount
  <2>7. accepted[today] <= forgotten + ReadDailyCount /\ accepted[today] \in Nat
    BY <1>2, <1>3, <2>4 DEF DayInv, Holds, TypeInv, TypeOK
  <2>8. /\ call'[p].loaded \in Mandates
        /\ call'[p].loaded.max_trades_per_day > 0
        /\ accepted'[today'] < forgotten' + call'[p].loaded.max_trades_per_day
    BY <1>1, <1>3, <2>2, <2>4, <2>5, <2>6, <2>7
  <2>9. p \notin Uncounted' /\ ~At(p, "write")' /\ pc'[p] \notin {"read", "write"}
    BY <1>5 DEF Uncounted, Recording, At
  <2>10. ReadDailyCount' = ReadDailyCount
    BY <1>1 DEF ReadDailyCount
  <2>11. accepted'[today'] <= forgotten' + ReadDailyCount' + Holds(p \in Uncounted')
    BY <1>1, <1>3, <2>4, <2>7, <2>9, <2>10 DEF Holds
  <2>12. (\A d \in Days : d > today' => accepted'[d] = 0) /\ DailyCap'
    BY <1>1, <1>3, CapKept DEF DayInv, TypeInv
  <2> QED
    BY <2>8, <2>9, <2>11, <2>12 DEF DayInv
<1> QED
  BY <1>4, <1>5

\* A success is one trade more today, which fits the cap of the mandate.
LEMMA DayForward ==
  ASSUME Counting, TypeInv, TypeOK', NEW p \in Servers, DayInv(p),
         NEW r \in {"ok", "error", "coroutine"}, At(p, "forward"), Returned(p, r)
  PROVE  DayInv(p)'
<1>1. /\ UNCHANGED <<counter, today, forgotten>>
      /\ pc[p] = "forward" /\ pc'[p] = IF r = "error" THEN "reload" ELSE "today"
      /\ accepted' = IF r = "error" THEN accepted ELSE Record(accepted)
  BY ReturnedLabels DEF Returned, files, tallies
<1>2. p \notin Uncounted
  BY <1>1 DEF Uncounted, Recording
<1>3. forgotten \in Nat
  BY DEF TypeInv, TypeOK
<1>4. CASE r = "error"
  BY <1>1, <1>2, <1>3, <1>4, DayAside DEF Recording
<1>5. CASE r # "error"
  <2> DEFINE m == call[p].loaded
  <2>1. /\ m \in Mandates /\ accepted[today] < forgotten + m.max_trades_per_day
    BY DEF DayInv
  <2>2. m.max_trades_per_day \in Int
    BY <2>1, LiveGateAssumption DEF Mandate
  <2>3. /\ accepted'[today] = accepted[today] + 1
        /\ \A d \in Days : d # today => accepted'[d] = accepted[d]
        /\ today \in Days /\ \A d \in Days : d \in Nat /\ accepted[d] \in Nat
    BY <1>1, <1>5, RecordToday DEF TypeInv
  <2>4. p \in Uncounted'
    BY <1>1, <1>5 DEF Uncounted, Recording
  <2>5. ReadDailyCount' = ReadDailyCount /\ ReadDailyCount \in Nat
    BY <1>1, ReadType DEF ReadDailyCount, TypeInv
  <2>6. accepted[today] <= forgotten + ReadDailyCount
    BY <1>2, <1>3, <2>5 DEF DayInv, Holds
  <2>7. accepted'[today'] <= forgotten' + ReadDailyCount' + Holds(p \in Uncounted')
    BY <1>1, <1>3, <2>3, <2>4, <2>5, <2>6 DEF Holds
  <2>8. \A d \in Days : d > today' => accepted'[d] = 0
    BY <1>1, <2>3 DEF DayInv
  <2>9. DailyCap'
    <3> SUFFICES ASSUME NEW d \in Days, accepted'[d] > forgotten'
                 PROVE  \E n \in Mandates : accepted'[d] - forgotten' <= n.max_trades_per_day
      BY DEF DailyCap
    <3>1. CASE d = today
      <4>1. accepted'[d] - forgotten' <= m.max_trades_per_day
        BY <1>1, <1>3, <2>1, <2>2, <2>3, <3>1
      <4> QED
        BY <2>1, <4>1
    <3>2. CASE d # today
      BY <1>1, <2>3, <3>2 DEF DayInv, DailyCap
    <3> QED
      BY <3>1, <3>2
  <2>10. ~At(p, "forward")' /\ ~At(p, "write")' /\ pc'[p] \notin {"read", "write"}
    BY <1>1, <1>5 DEF At
  <2> QED
    BY <2>7, <2>8, <2>9, <2>10 DEF DayInv
<1> QED
  BY <1>4, <1>5

\* increment_daily_count: the date is taken, the count of that day is read
\* and written back with one more.
LEMMA DayRecording ==
  ASSUME TypeInv, TypeOK', NEW p \in Servers, DayInv(p),
         TakeDate(p) \/ ReadCounter(p) \/ ReplaceCounter(p) \/ ReloadMandate(p)
  PROVE  DayInv(p)'
<1>1. UNCHANGED <<accepted, today, forgotten>>
  BY RecordingLabels DEF tallies
<1>2. /\ forgotten \in Nat /\ accepted[today] \in Nat /\ today \in Nat
      /\ ReadDailyCount \in Nat
  BY ReadType DEF TypeInv, TypeOK, Days
<1>3. (\A d \in Days : d > today' => accepted'[d] = 0) /\ DailyCap'
  BY <1>1, <1>2, CapKept DEF DayInv, TypeInv
<1>4. accepted[today] <= forgotten + ReadDailyCount + Holds(p \in Uncounted)
  BY DEF DayInv
<1>5. CASE TakeDate(p)
  <2>1. /\ pc[p] = "today" /\ pc'[p] = "read" /\ counter' = counter
        /\ call'[p].day = today
    BY <1>5 DEF TypeInv, TypeOK, Call, TakeDate, At, Goto, files
  <2>2. Holds(p \in Uncounted) = 1 /\ Holds(p \in Uncounted') = 1
    BY <2>1 DEF Uncounted, Recording, Holds
  <2>3. accepted'[today'] <= forgotten' + ReadDailyCount' + Holds(p \in Uncounted')
    BY <1>1, <1>2, <1>4, <2>1, <2>2 DEF ReadDailyCount
  <2> QED
    BY <1>1, <1>3, <2>1, <2>3 DEF DayInv, At
<1>6. CASE ReadCounter(p)
  <2>1. /\ pc[p] = "read" /\ pc'[p] = "write" /\ counter' = counter
        /\ call'[p].day = call[p].day /\ call'[p].count = ReadDailyCount + 1
    BY <1>6 DEF TypeInv, TypeOK, Call, ReadCounter, At, Goto, files
  <2>2. Holds(p \in Uncounted) = 1 /\ Holds(p \in Uncounted') = 1
    BY <2>1 DEF Uncounted, Recording, Holds
  <2>3. accepted'[today'] <= forgotten' + ReadDailyCount' + Holds(p \in Uncounted')
    BY <1>1, <1>2, <1>4, <2>1, <2>2 DEF ReadDailyCount
  <2>4. accepted'[today'] <= forgotten' + call'[p].count
    BY <1>1, <1>2, <1>4, <2>1, <2>2
  <2>5. call'[p].day = today' \/ (call'[p].day < today' /\ accepted'[today'] = 0)
    BY <1>1, <2>1 DEF DayInv
  <2> QED
    BY <1>3, <2>1, <2>3, <2>4, <2>5 DEF DayInv, At
<1>7. CASE ReplaceCounter(p)
  <2>1. /\ pc[p] = "write" /\ pc'[p] = "reload"
        /\ counter' = [date |-> call[p].day, count |-> call[p].count]
        /\ call[p].day \in Days /\ call[p].count \in Nat
    BY <1>7 DEF TypeInv, TypeOK, Locals, ReplaceCounter, At, Goto
  <2>2. counter' # Null
    BY <2>1, FileAssumption DEF CounterFile
  <2>3. ReadDailyCount' = IF call[p].day = today THEN call[p].count ELSE 0
    BY <1>1, <2>1, <2>2 DEF ReadDailyCount
  <2>4. Holds(p \in Uncounted') = 0
    BY <2>1 DEF Uncounted, Recording, Holds
  <2>5. accepted'[today'] <= forgotten' + ReadDailyCount' + Holds(p \in Uncounted')
    <3>1. CASE call[p].day = today
      BY <1>1, <1>2, <2>1, <2>3, <2>4, <3>1 DEF DayInv, At
    <3>2. CASE call[p].day # today
      BY <1>1, <1>2, <2>1, <2>3, <2>4, <3>2 DEF DayInv
    <3> QED
      BY <3>1, <3>2
  <2> QED
    BY <1>3, <2>1, <2>5 DEF DayInv, At
<1>8. CASE ReloadMandate(p)
  <2>1. pc[p] = "reload" /\ pc'[p] = "append" /\ counter' = counter
    BY <1>8 DEF TypeInv, TypeOK, ReloadMandate, At, Goto, files
  <2>2. p \notin Uncounted
    BY <2>1 DEF Uncounted, Recording
  <2> QED
    BY <1>1, <1>2, <2>1, <2>2, DayAside DEF Recording
<1> QED
  BY <1>5, <1>6, <1>7, <1>8

\* Past midnight the new day has no success yet, and the counter none of it.
LEMMA DayMidnight ==
  ASSUME TypeInv, TypeOK', NEW p \in Servers, DayInv(p), Midnight
  PROVE  DayInv(p)'
<1>1. /\ today' = today + 1 /\ today' \in Days /\ today \in Nat
      /\ UNCHANGED <<accepted, counter, forgotten, pc, call>>
  BY DEF Midnight, TypeInv, TypeOK, Days, files, tallies
<1>2. accepted'[today'] = 0 /\ \A d \in Days : d > today' => accepted'[d] = 0
  BY <1>1 DEF DayInv, Days
<1>3. forgotten \in Nat /\ ReadDailyCount' \in Nat
  BY DEF TypeInv, TypeOK, ReadDailyCount, CounterFile
<1>4. Holds(p \in Uncounted') \in {0, 1}
  BY DEF Holds
<1>5. accepted'[today'] <= forgotten' + ReadDailyCount' + Holds(p \in Uncounted')
  BY <1>1, <1>2, <1>3, <1>4
<1>6. ASSUME At(p, "forward")'
      PROVE  /\ call'[p].loaded \in Mandates
             /\ call'[p].loaded.max_trades_per_day > 0
             /\ accepted'[today'] < forgotten' + call'[p].loaded.max_trades_per_day
  <2>1. call[p].loaded \in Mandates /\ call[p].loaded.max_trades_per_day > 0
    BY <1>1, <1>6 DEF DayInv, At
  <2>2. call[p].loaded.max_trades_per_day \in Int
    BY <2>1, LiveGateAssumption DEF Mandate
  <2> QED
    BY <1>1, <1>2, <1>3, <2>1, <2>2
<1>7. ASSUME pc'[p] \in {"read", "write"}
      PROVE  call'[p].day < today' /\ accepted'[today'] = 0
  <2>1. call[p].day = today \/ call[p].day < today
    BY <1>1, <1>7 DEF DayInv
  <2>2. call[p].day \in Nat
    BY <1>1, <1>7 DEF TypeInv, Locals, Days
  <2> QED
    BY <1>1, <1>2, <2>1, <2>2
<1>8. ~(At(p, "write") /\ call[p].day = today)'
  <2> SUFFICES ASSUME pc'[p] = "write" PROVE call'[p].day # today'
    BY DEF At
  <2>1. call[p].day \in Nat
    BY <1>1 DEF TypeInv, Locals, Days
  <2> QED
    BY <1>1, <1>7, <2>1
<1>9. DailyCap'
  BY <1>1, <1>3, CapKept DEF DayInv, TypeInv
<1> QED
  BY <1>2, <1>5, <1>6, <1>7, <1>8, <1>9 DEF DayInv

\* The inductive invariant of the daily cap.
DayCounted == TypeInv /\ \A p \in Servers : DayInv(p)

\* No day has a success at first.
LEMMA DayInit == Init => DayCounted
<1> SUFFICES ASSUME Init, NEW p \in Servers PROVE DayInv(p)
  BY InitInv DEF DayCounted
<1>1. /\ pc[p] = "idle" /\ today = 0 /\ forgotten = 0 /\ counter = Null
      /\ \A d \in Days : accepted[d] = 0
  BY DEF Init
<1>2. today \in Days /\ ReadDailyCount = 0
  BY <1>1, LiveGateAssumption DEF Days, ReadDailyCount
<1>3. p \notin Uncounted
  BY <1>1 DEF Uncounted, Recording
<1> QED
  BY <1>1, <1>2, <1>3 DEF DayInv, DailyCap, At, Holds

\* The account of the day is inductive.
LEMMA DayNext ==
  ASSUME Counting, OneServer PROVE DayCounted /\ [Next]_vars => DayCounted'
<1> SUFFICES ASSUME DayCounted, [Next]_vars, NEW p \in Servers PROVE DayInv(p)'
  BY NextInv DEF DayCounted
<1>1. TypeInv /\ TypeOK' /\ DayInv(p)
  BY NextInv DEF DayCounted, TypeInv
<1>2. ASSUME UNCHANGED <<today, counter, accepted, forgotten, pc, call>>
      PROVE  DayInv(p)'
  BY <1>1, <1>2 DEF DayInv, DailyCap, ReadDailyCount, Uncounted, At
<1>3. CASE Operator
  <2>1. CASE Midnight
    BY <1>1, <2>1, DayMidnight
  <2>2. CASE ~Midnight
    <3>1. today' = today
      BY <1>3, <2>2 DEF Operator, CommitMandate, Expire, RevokeMandate, TripHalt,
         ClearHalt, world
    <3> QED
      BY <1>2, <1>3, <3>1, OperatorCounts DEF tallies
  <2> QED
    BY <2>1, <2>2
<1>4. CASE Server(p)
  <2>1. ASSUME NEW c \in ToolCalls, ReceiveCall(p, c) PROVE DayInv(p)'
    <3>1. /\ UNCHANGED <<accepted, counter, today, forgotten>>
          /\ pc[p] = "idle" /\ pc'[p] \in {"load", "reload"}
      BY <1>1, <2>1 DEF TypeInv, TypeOK, ReceiveCall, At, Goto, files, world
    <3>2. p \notin Uncounted /\ forgotten \in Nat
      BY <1>1, <3>1 DEF Uncounted, Recording, TypeInv, TypeOK
    <3> QED
      BY <1>1, <3>1, <3>2, DayAside DEF Recording
  <2>2. CASE \/ LoadMandate(p) \/ CheckExpiry(p)
             \/ CheckGlobalHalt(p) \/ CheckBrokerHalt(p)
             \/ \E quote \in Quotes : Price(p, quote)
             \/ CheckCaps(p)
    BY <1>1, <2>2, DayGate
  <2>3. CASE \/ MakeCoroutine(p) \/ BrokerConfirms(p) \/ BrokerFails(p)
             \/ AnswerLost(p)
    BY <1>1, <2>3, DayForward DEF MakeCoroutine, BrokerConfirms, BrokerFails,
       AnswerLost, BrokerCall
  <2>4. CASE \/ TakeDate(p) \/ ReadCounter(p) \/ ReplaceCounter(p)
             \/ ReloadMandate(p)
    BY <1>1, <2>4, DayRecording
  <2>5. CASE ForwardRaisesOut(p) \/ AppendLedger(p) \/ CutShort(p)
    <3>1. /\ UNCHANGED <<accepted, counter, today>> /\ Finish(p) /\ pc'[p] = "idle"
      BY <1>1, <2>5, FinishLabels DEF ForwardRaisesOut, AppendLedger, CutShort,
         files, world
    <3>2. \/ p \in Uncounted /\ forgotten' = forgotten + 1
          \/ p \notin Uncounted /\ forgotten' = forgotten
      BY <2>5 DEF ForwardRaisesOut, AppendLedger, CutShort, Uncounted, At,
         Recording, Tally, Counting, tallies
    <3>3. forgotten \in Nat
      BY <1>1 DEF TypeInv, TypeOK
    <3> QED
      BY <1>1, <3>1, <3>2, <3>3, DayAside DEF Recording
  <2> QED
    BY <1>4, <2>1, <2>2, <2>3, <2>4, <2>5 DEF Server, Step
<1>5. CASE UNCHANGED vars
  BY <1>2, <1>5 DEF vars, files, world, tallies
<1>6. \A q \in Servers : q = p
  BY DEF OneServer
<1> QED
  BY <1>3, <1>4, <1>5, <1>6 DEF Next

\* DailyCap: with one server, whatever the mandates, the calls, the days and
\* the failures, no day sees more successes than some mandate allows a day,
\* but for those a call cut short before the counter took with it (guard.py,
\* step 6; daily_count.py).  Two servers are not covered: each may pass the gate
\* on the count the other has not yet written.
THEOREM WithinDailyCap ==
  ASSUME Counting, OneServer
  PROVE  Spec => []DailyCap
<1>1. DayCounted => DailyCap
  BY DEF DayCounted, DayInv, OneServer
<1> QED
  BY <1>1, DayInit, DayNext, PTL DEF Spec

----------------------------------------------------------------------------
(***************************************************************************)
(* The counter of one server is the one DailyCounter promises.             *)
(***************************************************************************)

\* The file is never of a day to come, nor of a day after the one that a call
\* about to write has taken; while that day lasts, the count about to be
\* written is the next one.
FileInv(p) ==
  /\ counter # Null => counter.date <= today
  /\ pc[p] \in {"read", "write"} =>
       /\ call[p].day <= today
       /\ counter # Null => counter.date <= call[p].day
  /\ At(p, "write") /\ call[p].day = today => call[p].count = ReadDailyCount + 1

\* The inductive invariant of the refinement.
Dated == TypeInv /\ \A p \in Servers : FileInv(p)

\* A server leaves the date alone, and the counter outside ReplaceCounter; only
\* the two steps before it leave the server there.
LEMMA ServerDate ==
  ASSUME TypeInv, NEW p \in Servers, Server(p)
  PROVE  /\ today' = today
         /\ counter' = counter \/ ReplaceCounter(p)
         /\ pc'[p] \in {"read", "write"} => TakeDate(p) \/ ReadCounter(p)
<1>1. ASSUME NEW c \in ToolCalls, ReceiveCall(p, c)
      PROVE  UNCHANGED <<today, counter>> /\ pc'[p] \in {"load", "reload"}
  BY <1>1 DEF TypeInv, TypeOK, ReceiveCall, Goto, files, world
<1>2. CASE \/ LoadMandate(p) \/ CheckExpiry(p)
           \/ CheckGlobalHalt(p) \/ CheckBrokerHalt(p)
           \/ \E quote \in Quotes : Price(p, quote)
           \/ CheckCaps(p)
  BY <1>2, GateLabels DEF Gate, files, world
<1>3. ASSUME NEW r \in {"ok", "error", "coroutine"}, At(p, "forward"), Returned(p, r)
      PROVE  UNCHANGED <<today, counter>> /\ pc'[p] \in {"today", "reload"}
  BY <1>3, ReturnedLabels DEF Returned, files
<1>4. CASE \/ MakeCoroutine(p) \/ BrokerConfirms(p) \/ BrokerFails(p)
           \/ AnswerLost(p)
  BY <1>3, <1>4 DEF MakeCoroutine, BrokerConfirms, BrokerFails, AnswerLost,
     BrokerCall
<1>5. CASE ForwardRaisesOut(p) \/ AppendLedger(p) \/ CutShort(p)
  BY <1>5, FinishLabels DEF ForwardRaisesOut, AppendLedger, CutShort, files, world
<1>6. CASE ReplaceCounter(p) \/ ReloadMandate(p)
  <2>1. pc'[p] \in {"reload", "append"}
    BY <1>6 DEF TypeInv, TypeOK, ReplaceCounter, ReloadMandate, Goto
  <2> QED
    BY <1>6, <2>1 DEF ReplaceCounter, ReloadMandate, files, world
<1>7. CASE TakeDate(p) \/ ReadCounter(p)
  BY <1>7 DEF TakeDate, ReadCounter, files, world
<1> QED
  BY <1>1, <1>2, <1>4, <1>5, <1>6, <1>7 DEF Server, Step

\* The three steps of increment_daily_count keep the dates in order.
LEMMA ServerDated ==
  ASSUME TypeInv, NEW p \in Servers, FileInv(p), Server(p)
  PROVE  FileInv(p)'
<1>1. today' = today /\ today \in Nat
  BY ServerDate DEF TypeInv, TypeOK, Days
<1>2. CASE ReplaceCounter(p)
  <2>1. /\ pc[p] = "write" /\ pc'[p] = "reload"
        /\ counter' = [date |-> call[p].day, count |-> call[p].count]
    BY <1>2 DEF TypeInv, TypeOK, ReplaceCounter, At, Goto
  <2> QED
    BY <1>1, <2>1 DEF FileInv, At
<1>3. CASE TakeDate(p)
  <2>1. /\ pc'[p] = "read" /\ counter' = counter /\ call'[p].day = today
    BY <1>3 DEF TypeInv, TypeOK, Call, TakeDate, Goto, files
  <2> QED
    BY <1>1, <2>1 DEF FileInv, At
<1>4. CASE ReadCounter(p)
  <2>1. /\ pc[p] = "read" /\ pc'[p] = "write" /\ counter' = counter
        /\ call'[p].day = call[p].day /\ call'[p].count = ReadDailyCount + 1
    BY <1>4 DEF TypeInv, TypeOK, Call, ReadCounter, At, Goto, files
  <2>2. ReadDailyCount' = ReadDailyCount
    BY <1>1, <2>1 DEF ReadDailyCount
  <2> QED
    BY <1>1, <2>1, <2>2 DEF FileInv
<1>5. CASE ~(ReplaceCounter(p) \/ TakeDate(p) \/ ReadCounter(p))
  BY <1>1, <1>5, ServerDate DEF FileInv, At
<1> QED
  BY <1>2, <1>3, <1>4, <1>5

\* Midnight leaves every date before today.
LEMMA MidnightDated ==
  ASSUME TypeInv, NEW p \in Servers, FileInv(p), Midnight
  PROVE  FileInv(p)'
<1>1. today' = today + 1 /\ today \in Nat /\ UNCHANGED <<counter, pc, call>>
  BY DEF Midnight, TypeInv, TypeOK, Days, files
<1>2. counter # Null => counter.date \in Nat
  BY DEF TypeInv, TypeOK, CounterFile, Days
<1>3. pc[p] \in {"read", "write"} => call[p].day \in Nat
  BY DEF TypeInv, Locals, Days
<1> QED
  BY <1>1, <1>2, <1>3 DEF FileInv, At

\* No file and no call at first.
LEMMA DatedInit == Init => Dated
BY InitInv DEF Dated, Init, FileInv, At

\* The dates stay in order when the server is alone.
LEMMA DatedNext == ASSUME OneServer PROVE Dated /\ [Next]_vars => Dated'
<1> SUFFICES ASSUME Dated, [Next]_vars, NEW p \in Servers PROVE FileInv(p)'
  BY NextInv DEF Dated
<1>1. TypeInv /\ FileInv(p)
  BY DEF Dated
<1>2. ASSUME UNCHANGED <<today, counter, pc, call>> PROVE FileInv(p)'
  BY <1>1, <1>2 DEF FileInv, ReadDailyCount, At
<1>3. CASE Midnight
  BY <1>1, <1>3, MidnightDated
<1>4. CASE Operator /\ ~Midnight
  <2>1. today' = today
    BY <1>4 DEF Operator, CommitMandate, Expire, RevokeMandate, TripHalt,
       ClearHalt, world
  <2> QED
    BY <1>2, <1>4, <2>1, OperatorCounts
<1>5. CASE Server(p)
  BY <1>1, <1>5, ServerDated
<1>6. CASE UNCHANGED vars
  BY <1>2, <1>6 DEF vars, files, world
<1>7. \A q \in Servers : q = p
  BY DEF OneServer
<1> QED
  BY <1>3, <1>4, <1>5, <1>6, <1>7 DEF Next

\* A write adds one to the count of today, or writes that of a day gone by.
LEMMA ReplaceCounts ==
  ASSUME Dated, NEW p \in Servers, ReplaceCounter(p)
  PROVE  Counter!Increment \/ UNCHANGED <<today, ReadDailyCount>>
<1>1. /\ pc[p] = "write" /\ today' = today /\ FileInv(p)
      /\ counter' = [date |-> call[p].day, count |-> call[p].count]
      /\ call[p].day \in Days /\ call[p].count \in Nat /\ today \in Days
  BY DEF Dated, TypeInv, TypeOK, Locals, ReplaceCounter, At, world
<1>2. counter' # Null
  BY <1>1, FileAssumption DEF CounterFile
<1>3. CASE call[p].day = today
  <2>1. ReadDailyCount' = ReadDailyCount + 1
    BY <1>1, <1>2, <1>3 DEF ReadDailyCount, FileInv, At
  <2> QED
    BY <1>1, <2>1 DEF Counter!Increment
<1>4. CASE call[p].day # today
  <2>1. ReadDailyCount' = 0
    BY <1>1, <1>2, <1>4 DEF ReadDailyCount
  <2>2. ReadDailyCount = 0
    <3>1. counter # Null => counter.date <= call[p].day /\ counter.date \in Nat
      BY <1>1 DEF FileInv, Dated, TypeInv, TypeOK, CounterFile, Days
    <3>2. call[p].day < today
      BY <1>1, <1>4 DEF FileInv, Days
    <3>3. counter # Null => counter.date # today
      BY <1>1, <3>1, <3>2 DEF Days
    <3> QED
      BY <3>3 DEF ReadDailyCount
  <2> QED
    BY <1>1, <2>1, <2>2
<1> QED
  BY <1>3, <1>4

\* Past midnight the file is of a day gone by, whose count is not today's.
LEMMA MidnightCounts ==
  ASSUME Dated, NEW p \in Servers, Midnight
  PROVE  Counter!Midnight
<1>1. today' = today + 1 /\ today \in Nat /\ counter' = counter /\ FileInv(p)
  BY DEF Midnight, Dated, TypeInv, TypeOK, Days, files
<1>2. counter # Null => counter.date \in Nat /\ counter.date <= today
  BY <1>1 DEF FileInv, Dated, TypeInv, TypeOK, CounterFile, Days
<1>3. ReadDailyCount' = 0
  BY <1>1, <1>2 DEF ReadDailyCount
<1> QED
  BY <1>1, <1>3 DEF Counter!Midnight

\* CountsDaily: with one server, whatever the calls, the mandates, the days
\* and the failures, the count that the gate compares with the cap implements
\* DailyCounter (daily_count.py): it grows by one at a time and is zero again
\* at midnight, whichever of the three steps of increment_daily_count midnight
\* or the end of the server falls between.
THEOREM CountsToday ==
  ASSUME OneServer
  PROVE  Spec => CountsDaily
<1>1. Init => Counter!Init
  BY DEF Init, Counter!Init, ReadDailyCount
<1>2. Dated /\ [Next]_vars => [Counter!Next]_<<today, ReadDailyCount>>
  <2> SUFFICES ASSUME Dated, [Next]_vars
               PROVE  Counter!Next \/ UNCHANGED <<today, ReadDailyCount>>
    OBVIOUS
  <2>1. ASSUME UNCHANGED <<today, counter>>
        PROVE  UNCHANGED <<today, ReadDailyCount>>
    BY <2>1 DEF ReadDailyCount
  <2>2. PICK s : Servers = {s}
    BY DEF OneServer
  <2>3. CASE Midnight
    BY <2>2, <2>3, MidnightCounts DEF Counter!Next
  <2>4. CASE Operator /\ ~Midnight
    <3>1. today' = today
      BY <2>4 DEF Operator, CommitMandate, Expire, RevokeMandate, TripHalt,
         ClearHalt, world
    <3> QED
      BY <2>1, <2>4, <3>1, OperatorCounts
  <2>5. ASSUME NEW p \in Servers, Server(p)
        PROVE  Counter!Next \/ UNCHANGED <<today, ReadDailyCount>>
    <3>1. CASE ReplaceCounter(p)
      BY <3>1, ReplaceCounts DEF Counter!Next
    <3>2. CASE ~ReplaceCounter(p)
      BY <2>1, <2>5, <3>2, ServerDate DEF Dated
    <3> QED
      BY <3>1, <3>2
  <2>6. CASE UNCHANGED vars
    BY <2>1, <2>6 DEF vars, files, world
  <2> QED
    BY <2>3, <2>4, <2>5, <2>6 DEF Next
<1> QED
  BY <1>1, <1>2, DatedInit, DatedNext, PTL DEF Spec, CountsDaily, Counter!Spec
=============================================================================
