--------------------------- MODULE LiveGate_proofs ---------------------------
(***************************************************************************)
(* Theorems about LiveGate for any servers, mandates, calls and quotes.    *)
(***************************************************************************)
EXTENDS LiveGate, TLAPS

----------------------------------------------------------------------------
(***************************************************************************)
(* The rules of the gate, one lemma per operator.                          *)
(***************************************************************************)

\* What extractors.py hands to the gate, if anything, is a well-formed intent.
LEMMA ExtractType ==
  ASSUME NEW tool \in Tools, NEW x \in Params
  PROVE  ExtractIntent(tool, x) \in OrderIntent \cup {Null}
<1> USE FoldAssumption, ValueAssumption
<1> DEFINE a == ToolArgs(tool, x)
<1>1. a.symbol \in RawSymbols \cup {Null}
  BY DEF ToolArgs, NoArgs, Params, Tools, SizedTools, PositionTools
<1>2. ASSUME NEW s \in RawSymbols \cup {Null}, NEW d, NEW v, NEW w
      PROVE  IntentOf(s, d, OptFloat(v), OptFloat(w)) \in OrderIntent \cup {Null}
  BY DEF IntentOf, OptFloat, OrderIntent
<1> QED
  BY <1>1, <1>2 DEF ExtractIntent, ExtractPlaceOrderIntent, ExtractAmendOrderIntent

\* Pricing keeps an intent an intent.
LEMMA NormalizeType ==
  ASSUME NEW i \in OrderIntent, NEW q
  PROVE  NormalizeIntentNotional(i, q) \in OrderIntent \cup {Null}
<1> USE ValueAssumption
<1>1. CASE i.quantity = Null
  BY <1>1 DEF NormalizeIntentNotional
<1>2. CASE i.quantity # Null /\ QuotePrice(q) = Null
  BY <1>2 DEF NormalizeIntentNotional
<1>3. CASE i.quantity # Null /\ QuotePrice(q) # Null
  <2> DEFINE e == IF i.notional = Null THEN 0 ELSE i.notional
             w == i.quantity * QuotePrice(q)
  <2>1. QuotePrice(q) \in Int /\ i.quantity \in Int
    BY <1>3 DEF QuotePrice, OrderIntent
  <2>2. w \in Int
    BY <2>1
  <2>3. e \in Int
    BY DEF OrderIntent
  <2>4. Larger(e, w) \in Int
    BY <2>2, <2>3 DEF Larger
  <2>5. NormalizeIntentNotional(i, q) = [i EXCEPT !.notional = Larger(e, w)]
    BY <1>3 DEF NormalizeIntentNotional
  <2> QED
    BY <2>4, <2>5 DEF OrderIntent
<1> QED
  BY <1>1, <1>2, <1>3

\* A verdict of the rules is one of three.
LEMMA CheckMandateType ==
  ASSUME NEW m, NEW i, NEW n
  PROVE  CheckMandate(m, i, n) \in {"allow", "deny", "pause_for_reauth"}
BY DEF CheckMandate

\* A history counter stays a number at its bound.
LEMMA TallyType == ASSUME NEW n \in Nat PROVE Tally(n) \in Nat
BY LiveGateAssumption DEF Tally

----------------------------------------------------------------------------
(***************************************************************************)
(* The inductive invariant: what the local variables of a server hold at   *)
(* each label.  TypeOK alone is not inductive: that the gate has an intent *)
(* to price, or the recorder a date to write, depends on the label.        *)
(***************************************************************************)

PastLoad   == {"expiry", "halt_global", "halt_broker", "price", "count"}
PastExpiry == PastLoad \ {"expiry"}
PastGlobal == PastExpiry \ {"halt_global"}
PastBroker == PastGlobal \ {"halt_broker"}
PastGate   == Labels \ (Gate \cup {"idle"})

\* The intent the gate works on: as extracted, and priced from "count" on.
Intent(c, label) ==
  IF label = "count"
  THEN NormalizeIntentNotional(ExtractIntent(c.tool, c.params), c.quote)
  ELSE ExtractIntent(c.tool, c.params)

Locals(c, label) ==
  /\ label \in Gate \cup {"idle"} => c.decision = Null
  /\ label \in {"reload", "append"} => c.decision # Null
  /\ label \in {"forward"} \cup Recording => c.decision = "allow"
  /\ label \in Gate =>
       /\ c.tool \in Tools /\ c.params \in Params /\ c.intent \in OrderIntent
       /\ c.intent = Intent(c, label) /\ ExtractIntent(c.tool, c.params) # Null
  /\ label \in PastLoad => c.loaded \in Mandates
  /\ label \in {"read", "write"} => c.day \in Days
  /\ label = "write" => c.count \in Nat

TypeInv == TypeOK /\ \A p \in Servers : Locals(call[p], pc[p])

\* Behind each look at a sentinel, that sentinel has not been in place ever
\* since the call began.
HaltSeen(p) ==
  /\ held[p] \subseteq halted
  /\ pc[p] \in PastGlobal => "global" \notin held[p]
  /\ pc[p] \in PastBroker => "broker" \notin held[p]
  /\ Allowed(p) => held[p] = {}

\* Behind each look at the mandate, what it found still stands.
MandateSeen(p) ==
  /\ pc[p] # "idle" /\ mandate # Null => mandate \in onFile[p]
  /\ stale[p] \subseteq expired
  /\ pc[p] \in PastLoad \/ Allowed(p) =>
       /\ call[p].loaded \in onFile[p]
       /\ call[p].loaded.schema_version = SchemaVersion
  /\ pc[p] \in PastExpiry \/ Allowed(p) => call[p].loaded \notin stale[p]

PricedRight(p) ==
  Allowed(p) /\ call[p].tool = "place_order" /\ BrokerAccepts(p)
    => RequestWithinCaps(p)

----------------------------------------------------------------------------
(***************************************************************************)
(* Type correctness.                                                       *)
(***************************************************************************)

\* The locals before a call begins are well-typed locals.
LEMMA NoCallType == NoCall \in Call
BY DEF NoCall, Call

\* Writing one local of a handler keeps its locals well-typed.
LEMMA CallType ==
  ASSUME NEW c \in Call
  PROVE  /\ \A v \in {"allow", "deny", "pause_for_reauth"} : [c EXCEPT !.decision = v] \in Call
         /\ \A v \in {"ok", "error", "coroutine"} : [c EXCEPT !.result = v] \in Call
         /\ \A v \in Mandates \cup {Null} : [c EXCEPT !.loaded = v] \in Call
         /\ \A v \in Mandates \cup {Null} : [c EXCEPT !.reloaded = v] \in Call
         /\ \A v \in Days : [c EXCEPT !.day = v] \in Call
         /\ \A v \in Nat : [c EXCEPT !.count = v] \in Call
         /\ \A i \in OrderIntent, q \in Quotes :
              [c EXCEPT !.intent = i, !.quote = q] \in Call
<1>1. \A v \in {"allow", "deny", "pause_for_reauth"} : [c EXCEPT !.decision = v] \in Call
  BY DEF Call
<1>2. \A v \in {"ok", "error", "coroutine"} : [c EXCEPT !.result = v] \in Call
  BY DEF Call
<1>3. \A v \in Mandates \cup {Null} : [c EXCEPT !.loaded = v] \in Call
  BY DEF Call
<1>4. \A v \in Mandates \cup {Null} : [c EXCEPT !.reloaded = v] \in Call
  BY DEF Call
<1>5. \A v \in Days : [c EXCEPT !.day = v] \in Call
  BY DEF Call
<1>6. \A v \in Nat : [c EXCEPT !.count = v] \in Call
  BY DEF Call
<1>7. \A i \in OrderIntent, q \in Quotes :
        [c EXCEPT !.intent = i, !.quote = q] \in Call
  BY DEF Call
<1> QED
  BY <1>1, <1>2, <1>3, <1>4, <1>5, <1>6, <1>7

\* Every step of a server sets its own label and its own local variables.
Moves(p, c, label) ==
  /\ pc' = [pc EXCEPT ![p] = label]
  /\ call' = [call EXCEPT ![p] = c]

\* A step of one server that writes its own locals and label, and both rightly,
\* keeps those of every server right.
LEMMA MovesInv ==
  ASSUME TypeInv, NEW p \in Servers, NEW c \in Call, NEW label \in Labels,
         Locals(c, label), Moves(p, c, label)
  PROVE  /\ pc' \in [Servers -> Labels]
         /\ call' \in [Servers -> Call]
         /\ \A q \in Servers : Locals(call'[q], pc'[q])
<1>1. pc' \in [Servers -> Labels] /\ call' \in [Servers -> Call]
  BY DEF TypeInv, TypeOK, Moves
<1>2. ASSUME NEW q \in Servers PROVE Locals(call'[q], pc'[q])
  <2>1. CASE q = p
    <3>1. call'[q] = c /\ pc'[q] = label
      BY <2>1 DEF TypeInv, TypeOK, Moves
    <3> QED
      BY <3>1
  <2>2. CASE q # p
    <3>1. call'[q] = call[q] /\ pc'[q] = pc[q]
      BY <2>2 DEF TypeInv, TypeOK, Moves
    <3> QED
      BY <3>1 DEF TypeInv
  <2> QED
    BY <2>1, <2>2
<1> QED
  BY <1>1, <1>2

\* A step that changes nothing else.
LEMMA LocalInv ==
  ASSUME TypeInv, NEW p \in Servers, NEW c \in Call, NEW label \in Labels,
         Locals(c, label), Moves(p, c, label),
         UNCHANGED <<files, world, tallies, since>>
  PROVE  TypeInv'
<1>1. TypeOK'
  BY MovesInv DEF TypeInv, TypeOK, files, world, tallies, since
<1> QED
  BY <1>1, MovesInv DEF TypeInv

\* A verdict leaves the gate with nothing but the decision written.
LEMMA DecideInv ==
  ASSUME TypeInv, NEW p \in Servers,
         NEW v \in {"allow", "deny", "pause_for_reauth"}, Decide(p, v),
         UNCHANGED <<files, world, tallies, since>>
  PROVE  TypeInv'
<1> DEFINE c == [call[p] EXCEPT !.decision = v]
           label == IF v = "allow" THEN "forward" ELSE "reload"
<1>1. call[p] \in Call
  BY DEF TypeInv, TypeOK
<1>2a. c \in Call
  BY <1>1, CallType, Zenon
<1>2b. c.decision = v
  BY <1>1 DEF Call
<1>2. c \in Call /\ c.decision = v
  BY <1>2a, <1>2b
<1>3. label \in Labels
  BY DEF Labels
<1>4. Locals(c, label)
  BY <1>2, ValueAssumption DEF Locals, Gate, PastLoad, Recording
<1>5. Moves(p, c, label)
  BY DEF Decide, Goto, Moves
<1> QED
  BY <1>2, <1>3, <1>4, <1>5, LocalInv

\* A handler that ends forgets its locals and the history of its call.
LEMMA FinishInv ==
  ASSUME TypeInv, NEW p \in Servers, Finish(p)
  PROVE  /\ pc' \in [Servers -> Labels]
         /\ call' \in [Servers -> Call]
         /\ \A q \in Servers : Locals(call'[q], pc'[q])
         /\ held' \in [Servers -> SUBSET Sentinels]
         /\ onFile' \in [Servers -> SUBSET Mandates]
         /\ stale' \in [Servers -> SUBSET Mandates]
<1>1. Moves(p, NoCall, "idle")
  BY DEF Finish, Goto, Moves
<1>2. Locals(NoCall, "idle")
  BY DEF Locals, NoCall, Gate, PastLoad, Recording
<1>3. "idle" \in Labels
  BY DEF Labels
<1>4. /\ pc' \in [Servers -> Labels]
      /\ call' \in [Servers -> Call]
      /\ \A q \in Servers : Locals(call'[q], pc'[q])
  BY <1>1, <1>2, <1>3, NoCallType, MovesInv
<1>5. /\ held' \in [Servers -> SUBSET Sentinels]
      /\ onFile' \in [Servers -> SUBSET Mandates]
      /\ stale' \in [Servers -> SUBSET Mandates]
  BY DEF TypeInv, TypeOK, Finish
<1> QED
  BY <1>4, <1>5

\* Recording an order keeps the record of orders well-typed.
LEMMA RecordType ==
  ASSUME TypeOK, NEW f \in [Days -> Nat]
  PROVE  Record(f) \in [Days -> Nat]
BY TallyType DEF TypeOK, Record

\* What read_daily_count answers is a number.
LEMMA ReadType == TypeOK => ReadDailyCount \in Nat
BY ValueAssumption DEF TypeOK, ReadDailyCount, CounterFile

\* The operator and the clock.
LEMMA OperatorInv == TypeInv /\ Operator => TypeInv'
<1> SUFFICES ASSUME TypeInv, Operator PROVE TypeInv'
  OBVIOUS
<1> USE LiveGateAssumption DEF world, files, tallies, since
<1>t. TypeOK
  BY DEF TypeInv
<1>1. ASSUME NEW m \in Mandates, CommitMandate(m) PROVE TypeOK'
  BY <1>t, <1>1 DEF TypeOK, CommitMandate
<1>2. ASSUME NEW m \in Mandates, Expire(m) PROVE TypeOK'
  BY <1>t, <1>2 DEF TypeOK, Expire
<1>3. ASSUME RevokeMandate PROVE TypeOK'
  BY <1>t, <1>3 DEF TypeOK, RevokeMandate
<1>4. ASSUME NEW s \in Sentinels, TripHalt(s) PROVE TypeOK'
  BY <1>t, <1>4 DEF TypeOK, TripHalt
<1>5. ASSUME NEW s \in Sentinels, ClearHalt(s) PROVE TypeOK'
  BY <1>t, <1>5 DEF TypeOK, ClearHalt
<1>6. ASSUME Midnight PROVE TypeOK'
  BY <1>t, <1>6 DEF TypeOK, Midnight, Days
<1>7. TypeOK'
  BY <1>1, <1>2, <1>3, <1>4, <1>5, <1>6 DEF Operator
<1>8. UNCHANGED <<pc, call>>
  BY DEF Operator, CommitMandate, Expire, RevokeMandate, TripHalt, ClearHalt,
         Midnight
<1> QED
  BY <1>7, <1>8 DEF TypeInv

\* A server, one action at a time.
LEMMA ReceiveInv ==
  ASSUME TypeInv, NEW p \in Servers, NEW c \in ToolCalls, ReceiveCall(p, c)
  PROVE  TypeInv'
<1> DEFINE i == ExtractIntent(c.tool, c.params)
           n == [NoCall EXCEPT !.tool = c.tool, !.params = c.params,
                               !.intent = i,
                               !.decision = IF i = Null THEN "deny" ELSE Null]
           label == IF i = Null THEN "reload" ELSE "load"
<1>1. c.tool \in Tools /\ c.params \in Params
  BY LiveGateAssumption
<1>2. i \in OrderIntent \cup {Null}
  BY <1>1, ExtractType
<1>3. n \in Call
  BY <1>1, <1>2 DEF NoCall, Call
<1>4. label \in Labels
  BY DEF Labels, Gate
<1>5. Locals(n, label)
  <2> HIDE DEF i
  <2>1. CASE i = Null
    BY <2>1, ValueAssumption DEF Locals, NoCall, Gate, PastLoad, Recording
  <2>2. CASE i # Null
    <3>1. /\ n.intent = Intent(n, label)
          /\ ExtractIntent(n.tool, n.params) # Null
      BY <2>2 DEF Intent, NoCall, i
    <3> QED
      BY <1>1, <1>2, <2>2, <3>1 DEF Locals, NoCall, Gate, PastLoad, Recording
  <2> QED
    BY <2>1, <2>2
<1>6. Moves(p, n, label)
  BY DEF ReceiveCall, Goto, Moves
<1>7. /\ pc' \in [Servers -> Labels]
      /\ call' \in [Servers -> Call]
      /\ \A q \in Servers : Locals(call'[q], pc'[q])
  <2> HIDE DEF n, label
  <2> QED
    BY <1>3, <1>4, <1>5, <1>6, MovesInv
<1>8. started' \in Nat
  BY TallyType DEF TypeInv, TypeOK, ReceiveCall
<1>9. held' \in [Servers -> SUBSET Sentinels]
  BY DEF TypeInv, TypeOK, ReceiveCall
<1>10. /\ onFile' \in [Servers -> SUBSET Mandates]
       /\ stale' \in [Servers -> SUBSET Mandates]
  BY DEF TypeInv, TypeOK, ReceiveCall
<1>11. TypeOK'
  BY <1>7, <1>8, <1>9, <1>10 DEF TypeInv, TypeOK, ReceiveCall, files, world
<1> QED
  BY <1>7, <1>11 DEF TypeInv

\* load_mandate gives the gate a mandate, or the call is refused.
LEMMA LoadInv ==
  ASSUME TypeInv, NEW p \in Servers, LoadMandate(p)
  PROVE  TypeInv'
<1> DEFINE c == [call[p] EXCEPT !.loaded = mandate]
<1>1. CASE Decide(p, "deny")
  BY <1>1, DecideInv DEF LoadMandate
<1>2. CASE /\ mandate # Null
           /\ call' = [call EXCEPT ![p].loaded = mandate] /\ Goto(p, "expiry")
  <2>1. call[p] \in Call /\ mandate \in Mandates
    BY <1>2 DEF TypeInv, TypeOK
  <2>2. c \in Call
    BY <2>1, CallType, Zenon
  <2>3. Locals(call[p], "load")
    BY DEF TypeInv, LoadMandate, At
  <2>4. Locals(c, "expiry")
    BY <2>1, <2>3 DEF Locals, Intent, Call, Gate, PastLoad, Recording
  <2>5. Moves(p, c, "expiry")
    BY <1>2 DEF Goto, Moves
  <2>6. "expiry" \in Labels
    BY DEF Labels, Gate
  <2> HIDE DEF c
  <2> QED
    BY <2>2, <2>4, <2>5, <2>6, LocalInv DEF LoadMandate
<1> QED
  BY <1>1, <1>2 DEF LoadMandate

\* A check of the gate that lets the call through moves the label only.
LEMMA PassInv ==
  ASSUME TypeInv, NEW p \in Servers, NEW label \in PastExpiry,
         pc[p] \in PastLoad, label # "count", pc[p] # "count",
         Goto(p, label), UNCHANGED <<files, world, tallies, since, call>>
  PROVE  TypeInv'
<1>1. call[p] \in Call
  BY DEF TypeInv, TypeOK
<1>2. Locals(call[p], pc[p])
  BY DEF TypeInv
<1>3. Locals(call[p], label)
  BY <1>2 DEF Locals, Intent, Gate, PastLoad, PastExpiry, Recording
<1>4. call' = [call EXCEPT ![p] = call[p]]
  BY DEF TypeInv, TypeOK
<1>5. Moves(p, call[p], label)
  BY <1>4 DEF Goto, Moves
<1>6. label \in Labels
  BY DEF Labels, Gate, PastExpiry, PastLoad
<1> QED
  BY <1>1, <1>3, <1>5, <1>6, LocalInv

\* A look at a sentinel writes no local but the decision.
LEMMA CheckHaltInv ==
  ASSUME TypeInv, NEW p \in Servers, NEW label \in PastExpiry, NEW s,
         NEW next \in PastGlobal, label # "count", next # "count",
         CheckHalt(p, label, s, next)
  PROVE  TypeInv'
<1>1. CASE Decide(p, "deny")
  BY <1>1, DecideInv DEF CheckHalt
<1>2. CASE Goto(p, next) /\ UNCHANGED call
  BY <1>2, PassInv DEF CheckHalt, At, PastGlobal, PastExpiry
<1> QED
  BY <1>1, <1>2 DEF CheckHalt

\* Step 5 leaves an intent that is priced at the quote it kept.
LEMMA PriceInv ==
  ASSUME TypeInv, NEW p \in Servers, NEW quote \in Quotes, Price(p, quote)
  PROVE  TypeInv'
<1> DEFINE priced == NormalizeIntentNotional(call[p].intent, quote)
           c == [call[p] EXCEPT !.intent = priced, !.quote = quote]
<1>1. CASE Decide(p, "deny")
  BY <1>1, DecideInv DEF Price
<1>2. CASE /\ priced # Null
           /\ call' = [call EXCEPT ![p].intent = priced, ![p].quote = quote]
           /\ Goto(p, "count")
  <2>1. call[p] \in Call /\ pc[p] = "price"
    BY DEF TypeInv, TypeOK, Price, At
  <2>2. Locals(call[p], "price")
    BY <2>1 DEF TypeInv
  <2>3. /\ call[p].intent \in OrderIntent
        /\ call[p].intent = ExtractIntent(call[p].tool, call[p].params)
    BY <2>2 DEF Locals, Intent, Gate
  <2>4. priced \in OrderIntent
    BY <1>2, <2>3, NormalizeType
  <2>5. c \in Call
    BY <2>1, <2>4, CallType, Zenon
  <2>6. Locals(c, "count")
    <3>1. c.intent = Intent(c, "count")
      BY <2>1, <2>3 DEF Intent, Call
    <3>2. /\ c.tool = call[p].tool /\ c.params = call[p].params
          /\ c.decision = call[p].decision /\ c.loaded = call[p].loaded
          /\ c.intent \in OrderIntent
      BY <2>1, <2>4 DEF Call
    <3> HIDE DEF c
    <3> QED
      BY <2>2, <3>1, <3>2 DEF Locals, Gate, PastLoad, Recording
  <2>7. Moves(p, c, "count")
    <3>1. call' = [call EXCEPT ![p] = c]
      BY <1>2 DEF TypeInv, TypeOK
    <3> QED
      BY <1>2, <3>1 DEF Goto, Moves
  <2>8. "count" \in Labels
    BY DEF Labels, Gate
  <2> HIDE DEF c
  <2> QED
    BY <2>5, <2>6, <2>7, <2>8, LocalInv DEF Price
<1> QED
  BY <1>1, <1>2 DEF Price

\* The six steps of the gate, together.
LEMMA GateStepInv ==
  ASSUME TypeInv, NEW p \in Servers,
         \/ LoadMandate(p) \/ CheckExpiry(p)
         \/ CheckGlobalHalt(p) \/ CheckBrokerHalt(p)
         \/ \E quote \in Quotes : Price(p, quote)
         \/ CheckCaps(p)
  PROVE  TypeInv'
<1>1. CASE LoadMandate(p)
  BY <1>1, LoadInv
<1>2. CASE CheckExpiry(p)
  <2>1. CASE Decide(p, "pause_for_reauth")
    BY <1>2, <2>1, DecideInv DEF CheckExpiry
  <2>2. CASE Goto(p, "halt_global") /\ UNCHANGED call
    BY <1>2, <2>2, PassInv DEF CheckExpiry, At, PastExpiry, PastLoad
  <2> QED
    BY <1>2, <2>1, <2>2 DEF CheckExpiry
<1>3. CASE CheckGlobalHalt(p)
  BY <1>3, CheckHaltInv DEF CheckGlobalHalt, PastGlobal, PastExpiry, PastLoad
<1>4. CASE CheckBrokerHalt(p)
  BY <1>4, CheckHaltInv DEF CheckBrokerHalt, PastGlobal, PastExpiry, PastLoad
<1>5. CASE \E quote \in Quotes : Price(p, quote)
  BY <1>5, PriceInv
<1>6. CASE CheckCaps(p)
  BY <1>6, CheckMandateType, DecideInv DEF CheckCaps
<1> QED
  BY <1>1, <1>2, <1>3, <1>4, <1>5, <1>6

\* What forward() returned is written down and sends the handler to its record.
LEMMA ReturnedInv ==
  ASSUME TypeInv, NEW p \in Servers, NEW r \in {"ok", "error", "coroutine"},
         At(p, "forward"), Returned(p, r), placed' \in [Days -> Nat]
  PROVE  TypeInv'
<1> DEFINE c == [call[p] EXCEPT !.result = r]
           label == IF r = "error" THEN "reload" ELSE "today"
<1>1. call[p] \in Call
  BY DEF TypeInv, TypeOK
<1>2. c \in Call
  BY <1>1, CallType, Zenon
<1>3. c.decision = "allow"
  BY <1>1 DEF TypeInv, Locals, At, Call
<1>4. label \in Labels
  BY DEF Labels, Recording
<1>5. Locals(c, label)
  BY <1>3, ValueAssumption DEF Locals, Gate, PastLoad, Recording
<1>6. Moves(p, c, label)
  BY DEF Returned, Goto, Moves
<1>7. accepted' \in [Days -> Nat]
  BY RecordType DEF TypeInv, TypeOK, Returned
<1> HIDE DEF c, label
<1>8. /\ pc' \in [Servers -> Labels]
      /\ call' \in [Servers -> Call]
      /\ \A q \in Servers : Locals(call'[q], pc'[q])
  BY <1>2, <1>4, <1>5, <1>6, MovesInv
<1>9. TypeOK'
  BY <1>7, <1>8 DEF TypeInv, TypeOK, Returned, files, since, tallies
<1> QED
  BY <1>8, <1>9 DEF TypeInv

\* The ways a forward ends.
LEMMA ForwardInv ==
  ASSUME TypeInv, NEW p \in Servers,
         \/ MakeCoroutine(p) \/ BrokerConfirms(p) \/ BrokerFails(p)
         \/ AnswerLost(p) \/ ForwardRaisesOut(p)
  PROVE  TypeInv'
<1>1. Record(placed) \in [Days -> Nat] /\ placed \in [Days -> Nat]
  BY RecordType DEF TypeInv, TypeOK
<1>2. CASE MakeCoroutine(p)
  BY <1>1, <1>2, ReturnedInv DEF MakeCoroutine
<1>3. CASE BrokerConfirms(p)
  BY <1>1, <1>3, ReturnedInv DEF BrokerConfirms, BrokerCall
<1>4. CASE BrokerFails(p)
  BY <1>1, <1>4, ReturnedInv DEF BrokerFails, BrokerCall
<1>5. CASE AnswerLost(p)
  BY <1>1, <1>5, ReturnedInv DEF AnswerLost, BrokerCall
<1>6. CASE ForwardRaisesOut(p)
  <2>1. unrecorded' \in Nat
    BY <1>6, TallyType DEF TypeInv, TypeOK, ForwardRaisesOut
  <2>2. TypeOK'
    BY <1>6, <2>1, FinishInv DEF TypeInv, TypeOK, ForwardRaisesOut, files, world
  <2> QED
    BY <1>6, <2>2, FinishInv DEF TypeInv, ForwardRaisesOut
<1> QED
  BY <1>2, <1>3, <1>4, <1>5, <1>6

\* increment_daily_count and the audit find the locals they need.
LEMMA RecordingInv ==
  ASSUME TypeInv, NEW p \in Servers,
         \/ TakeDate(p) \/ ReadCounter(p) \/ ReplaceCounter(p)
         \/ ReloadMandate(p) \/ AppendLedger(p)
  PROVE  TypeInv'
<1> DEFINE dated    == [call[p] EXCEPT !.day = today]
           counted  == [call[p] EXCEPT !.count = ReadDailyCount + 1]
           reloaded == [call[p] EXCEPT !.reloaded = mandate]
<1>c. call[p] \in Call /\ Locals(call[p], pc[p])
  BY DEF TypeInv, TypeOK
<1>l. {"read", "write", "reload", "append"} \subseteq Labels
  BY DEF Labels, Recording
<1>1. CASE TakeDate(p)
  <2>1. today \in Days
    BY DEF TypeInv, TypeOK
  <2>2. dated \in Call
    BY <1>c, <2>1, CallType, Zenon
  <2>3. Locals(dated, "read")
    BY <1>c, <1>1, <2>1 DEF Locals, TakeDate, At, Call, Gate, PastLoad, Recording
  <2>4. Moves(p, dated, "read")
    BY <1>1 DEF TakeDate, Goto, Moves
  <2> HIDE DEF dated
  <2> QED
    BY <1>1, <1>l, <2>2, <2>3, <2>4, LocalInv DEF TakeDate
<1>2. CASE ReadCounter(p)
  <2>1. ReadDailyCount + 1 \in Nat
    BY ReadType DEF TypeInv
  <2>2. counted \in Call
    BY <1>c, <2>1, CallType, Zenon
  <2>3. Locals(counted, "write")
    BY <1>c, <1>2, <2>1 DEF Locals, ReadCounter, At, Call, Gate, PastLoad, Recording
  <2>4. Moves(p, counted, "write")
    BY <1>2 DEF ReadCounter, Goto, Moves
  <2> HIDE DEF counted
  <2> QED
    BY <1>2, <1>l, <2>2, <2>3, <2>4, LocalInv DEF ReadCounter
<1>3. CASE ReplaceCounter(p)
  <2>1. counter' \in CounterFile
    BY <1>c, <1>3 DEF Locals, ReplaceCounter, At, CounterFile
  <2>2. call' = [call EXCEPT ![p] = call[p]]
    BY <1>3 DEF ReplaceCounter, TypeInv, TypeOK
  <2>3. Moves(p, call[p], "reload")
    BY <1>3, <2>2 DEF ReplaceCounter, Goto, Moves
  <2>4. Locals(call[p], "reload")
    BY <1>c, <1>3, ValueAssumption
       DEF Locals, ReplaceCounter, At, Gate, PastLoad, Recording
  <2>5. /\ pc' \in [Servers -> Labels]
        /\ call' \in [Servers -> Call]
        /\ \A q \in Servers : Locals(call'[q], pc'[q])
    BY <1>c, <1>l, <2>3, <2>4, MovesInv
  <2>6. TypeOK'
    BY <1>3, <2>1, <2>5 DEF TypeInv, TypeOK, ReplaceCounter, world, tallies, since
  <2> QED
    BY <2>5, <2>6 DEF TypeInv
<1>4. CASE ReloadMandate(p)
  <2>1. mandate \in Mandates \cup {Null}
    BY DEF TypeInv, TypeOK
  <2>2. reloaded \in Call
    BY <1>c, <2>1, CallType, Zenon
  <2>3. Locals(reloaded, "append")
    BY <1>c, <1>4 DEF Locals, ReloadMandate, At, Call, Gate, PastLoad, Recording
  <2>4. Moves(p, reloaded, "append")
    BY <1>4 DEF ReloadMandate, Goto, Moves
  <2> HIDE DEF reloaded
  <2> QED
    BY <1>4, <1>l, <2>2, <2>3, <2>4, LocalInv DEF ReloadMandate
<1>5. CASE AppendLedger(p)
  <2>1. ledger' \in [Lines -> Nat]
    BY <1>5, TallyType DEF TypeInv, TypeOK, AppendLedger
  <2>2. TypeOK'
    BY <1>5, <2>1, FinishInv DEF TypeInv, TypeOK, AppendLedger, world, tallies
  <2> QED
    BY <1>5, <2>2, FinishInv DEF TypeInv, AppendLedger
<1> QED
  BY <1>1, <1>2, <1>3, <1>4, <1>5

\* A handler that dies leaves nothing of itself behind.
LEMMA CutShortInv ==
  ASSUME TypeInv, NEW p \in Servers, CutShort(p)
  PROVE  TypeInv'
<1>1. unrecorded' \in Nat /\ forgotten' \in Nat /\ faults' \in Nat
  BY TallyType DEF TypeInv, TypeOK, CutShort
<1>2. TypeOK'
  BY <1>1, FinishInv DEF TypeInv, TypeOK, CutShort, files, world
<1> QED
  BY <1>2, FinishInv DEF TypeInv, CutShort

\* The servers start idle.
LEMMA InitInv == Init => TypeInv
<1> SUFFICES ASSUME Init PROVE TypeInv
  OBVIOUS
<1>1. TypeOK
  BY NoCallType, LiveGateAssumption DEF Init, TypeOK, Labels, Days
<1>2. ASSUME NEW p \in Servers PROVE Locals(call[p], pc[p])
  BY DEF Init, NoCall, Locals, Gate, PastLoad, Recording
<1> QED
  BY <1>1, <1>2 DEF TypeInv

\* The invariant is inductive.
LEMMA NextInv == TypeInv /\ [Next]_vars => TypeInv'
<1> SUFFICES ASSUME TypeInv, [Next]_vars PROVE TypeInv'
  OBVIOUS
<1>1. CASE Operator
  BY <1>1, OperatorInv
<1>2. ASSUME NEW p \in Servers, Server(p) PROVE TypeInv'
  <2>1. ASSUME NEW c \in ToolCalls, ReceiveCall(p, c) PROVE TypeInv'
    BY <2>1, ReceiveInv
  <2>2. CASE Step(p)
    BY <2>2, GateStepInv, ForwardInv, RecordingInv DEF Step
  <2>3. CASE CutShort(p)
    BY <2>3, CutShortInv
  <2> QED
    BY <1>2, <2>1, <2>2, <2>3 DEF Server
<1>3. CASE UNCHANGED vars
  BY <1>3 DEF vars, files, world, tallies, since, TypeInv, TypeOK, Locals, Intent
<1> QED
  BY <1>1, <1>2, <1>3 DEF Next

\* What each label of a handler relies on was put there by a step before it:
\* in every reachable state, for any number of servers, mandates and calls,
\* the locals of _gate_and_forward and the shared files keep their types.
THEOREM Typing == Spec => []TypeInv
BY InitInv, NextInv, PTL DEF Spec

\* TypeOK, which the runs check, is a part of it.
THEOREM TypeCorrect == Spec => []TypeOK
<1>1. TypeInv => TypeOK
  BY DEF TypeInv
<1> QED
  BY <1>1, Typing, PTL

----------------------------------------------------------------------------
(***************************************************************************)
(* Safety.  The three properties of an allowed call rest on what the gate  *)
(* has seen so far; Safe carries it from label to label.                   *)
(***************************************************************************)

Safe(p) == HaltSeen(p) /\ MandateSeen(p) /\ PricedRight(p)

SafeInv == TypeInv /\ \A p \in Servers : Safe(p)

\* H3 and H4 as a fact about the rules: a place_order request the gate allows
\* is, at the quantity that is sent and the price that was quoted, within the
\* caps, and its symbol is not an excluded one however either is spelled.
LEMMA PlaceRules ==
  ASSUME NEW x \in Params, NEW m \in Mandate, NEW q, NEW n,
         NEW i \in OrderIntent, ExtractIntent("place_order", x) # Null,
         i = NormalizeIntentNotional(ExtractIntent("place_order", x), q),
         CheckMandate(m, i, n) = "allow", x.qty \in Int
  PROVE  /\ q \in Int
         /\ ~Exceeds(x.qty * q, m.max_order_notional)
         /\ ~Exceeds(x.qty * q, m.max_total_exposure)
         /\ ~OverLeverage(m, x.qty * q)
         /\ \A s \in m.exclude_symbols : Fold[s] # Fold[x.symbol]
<1> USE ValueAssumption, FoldAssumption
<1> DEFINE e == ExtractIntent("place_order", x)
           w == x.qty * q
           explicit == IF e.notional = Null THEN 0 ELSE e.notional
<1>1. /\ e \in OrderIntent
      /\ e.quantity = x.qty
      /\ e.symbol = Fold[x.symbol]
  <2>1. e = IntentOf(x.symbol, x.side, x.qty, OptFloat(x.notional_usd))
    BY Zenon DEF ExtractIntent, ExtractPlaceOrderIntent, ToolArgs, OptFloat
  <2>2. e \in OrderIntent
    BY ExtractType DEF Tools, SizedTools
  <2> QED
    BY <2>1, <2>2 DEF IntentOf
<1>2. e.quantity # Null
  BY <1>1
<1>3. i # Null
  BY IntentAssumption
<1>4. QuotePrice(q) # Null
  BY <1>2, <1>3 DEF NormalizeIntentNotional
<1>5. q \in Int /\ QuotePrice(q) = q
  BY <1>4 DEF QuotePrice
<1>6. i = [e EXCEPT !.notional = Larger(explicit, x.qty * q)]
  BY <1>1, <1>2, <1>4, <1>5 DEF NormalizeIntentNotional
<1>7. w \in Int /\ explicit \in Int
  BY <1>1, <1>5 DEF OrderIntent
<1>8. i.symbol = Fold[x.symbol] /\ i.notional = Larger(explicit, w)
  BY <1>1, <1>6 DEF OrderIntent
<1>9. i.notional \in Int /\ i.notional >= w
  <2> HIDE DEF w, explicit
  <2> QED
    BY <1>7, <1>8 DEF Larger
<1>10. Structural(m, i) /\ Quantitative(m, i, n)
  BY DEF CheckMandate
<1>11. \A s \in m.exclude_symbols : Fold[s] # Fold[x.symbol]
  BY <1>8, <1>10 DEF Structural
<1> HIDE DEF w
<1>12. /\ ~Exceeds(w, m.max_order_notional)
       /\ ~Exceeds(w, m.max_total_exposure)
  BY <1>7, <1>9, <1>10 DEF Quantitative, Exceeds
<1>13. ~OverLeverage(m, w)
  <2>1. ~OverLeverage(m, i.notional)
    BY <1>10 DEF Quantitative
  <2>2. CASE m.account_funding \in Int /\ m.max_leverage \in Int
    <3>1. m.max_leverage * m.account_funding \in Int
      BY <2>2
    <3> QED
      BY <1>7, <1>9, <2>1, <2>2, <3>1 DEF OverLeverage
  <2>3. CASE ~(m.account_funding \in Int /\ m.max_leverage \in Int)
    BY <2>1, <2>3 DEF OverLeverage
  <2> QED
    BY <2>2, <2>3
<1> QED
  BY <1>5, <1>11, <1>12, <1>13 DEF w

\* A step of one server leaves the locals of the others, the mandate, the
\* halts and the clock alone.
LEMMA Elsewhere ==
  ASSUME TypeInv, NEW p \in Servers, Server(p), NEW q \in Servers, q # p
  PROVE  /\ pc'[q] = pc[q] /\ call'[q] = call[q] /\ held'[q] = held[q]
         /\ onFile'[q] = onFile[q] /\ stale'[q] = stale[q]
<1> USE DEF TypeInv, TypeOK, Goto, since
<1>1. ASSUME NEW c \in ToolCalls, ReceiveCall(p, c) PROVE UNCHANGED <<pc[q], call[q], held[q], onFile[q], stale[q]>>
  BY <1>1 DEF ReceiveCall
<1>2. CASE Step(p)
  <2>1. CASE \/ LoadMandate(p) \/ CheckExpiry(p) \/ CheckCaps(p)
             \/ \E quote \in Quotes : Price(p, quote)
    BY <2>1 DEF LoadMandate, CheckExpiry, CheckCaps, Price, Decide
  <2>2. CASE CheckGlobalHalt(p) \/ CheckBrokerHalt(p)
    BY <2>2 DEF CheckGlobalHalt, CheckBrokerHalt, CheckHalt, Decide
  <2>3. CASE \/ MakeCoroutine(p) \/ BrokerConfirms(p) \/ BrokerFails(p)
             \/ AnswerLost(p)
    BY <2>3 DEF MakeCoroutine, BrokerConfirms, BrokerFails, AnswerLost, Returned
  <2>4. CASE ForwardRaisesOut(p) \/ AppendLedger(p)
    BY <2>4 DEF ForwardRaisesOut, AppendLedger, Finish
  <2>5. CASE \/ TakeDate(p) \/ ReadCounter(p) \/ ReplaceCounter(p)
             \/ ReloadMandate(p)
    BY <2>5 DEF TakeDate, ReadCounter, ReplaceCounter, ReloadMandate
  <2> QED
    BY <1>2, <2>1, <2>2, <2>3, <2>4, <2>5 DEF Step
<1>3. CASE CutShort(p)
  BY <1>3 DEF CutShort, Finish
<1> QED
  BY <1>1, <1>2, <1>3 DEF Server

\* No server touches the mandate, the halts or the expiries.
LEMMA ServerKeeps ==
  ASSUME NEW p \in Servers, Server(p)
  PROVE  UNCHANGED <<mandate, halted, today, expired>>
<1> USE DEF files, world
<1>1. ASSUME NEW c \in ToolCalls, ReceiveCall(p, c)
      PROVE  UNCHANGED <<mandate, halted, today, expired>>
  BY <1>1 DEF ReceiveCall
<1>2. CASE Step(p)
  BY <1>2 DEF Step, LoadMandate, CheckExpiry, CheckGlobalHalt, CheckBrokerHalt,
     CheckHalt, Price, CheckCaps, MakeCoroutine, BrokerConfirms, BrokerFails,
     AnswerLost, Returned, ForwardRaisesOut, TakeDate, ReadCounter,
     ReplaceCounter, ReloadMandate, AppendLedger
<1>3. CASE CutShort(p)
  BY <1>3 DEF CutShort
<1> QED
  BY <1>1, <1>2, <1>3 DEF Server

\* What a call has seen stands while another server moves.
LEMMA ElsewhereSafe ==
  ASSUME SafeInv, NEW p \in Servers, Server(p), NEW q \in Servers, q # p
  PROVE  Safe(q)'
<1>1. /\ pc'[q] = pc[q] /\ call'[q] = call[q] /\ held'[q] = held[q]
      /\ onFile'[q] = onFile[q] /\ stale'[q] = stale[q]
  BY Elsewhere DEF SafeInv
<1>2. UNCHANGED <<mandate, halted, today, expired>>
  BY ServerKeeps
<1>3. Safe(q)
  BY DEF SafeInv
<1> QED
  BY <1>1, <1>2, <1>3 DEF Safe, HaltSeen, MandateSeen, PricedRight, Allowed,
     BrokerAccepts, Sent, RequestWithinCaps

\* The operator and the clock only withdraw what the calls in flight have
\* seen, or add to it.
LEMMA OperatorSafe ==
  ASSUME SafeInv, Operator, NEW q \in Servers
  PROVE  Safe(q)'
<1>0. Safe(q) /\ TypeOK
  BY DEF SafeInv, TypeInv
<1>1. UNCHANGED <<pc, call, stale>>
  BY DEF Operator, CommitMandate, Expire, RevokeMandate, TripHalt, ClearHalt,
         Midnight, since
<1>2. PricedRight(q)'
  BY <1>0, <1>1 DEF Safe, PricedRight, Allowed, BrokerAccepts, Sent,
     RequestWithinCaps
<1>3. held'[q] \subseteq halted' /\ held'[q] \subseteq held[q]
  <2>1. held[q] \subseteq halted
    BY <1>0 DEF Safe, HaltSeen
  <2>2. ASSUME NEW s \in Sentinels, ClearHalt(s)
        PROVE  held'[q] \subseteq halted' /\ held'[q] \subseteq held[q]
    BY <1>0, <2>1, <2>2 DEF ClearHalt, TypeOK
  <2>3. ASSUME NEW s \in Sentinels, TripHalt(s)
        PROVE  held'[q] \subseteq halted' /\ held'[q] \subseteq held[q]
    BY <2>1, <2>3 DEF TripHalt, since
  <2>4. CASE RevokeMandate \/ Midnight \/ \E m \in Mandates : CommitMandate(m) \/ Expire(m)
    BY <2>1, <2>4 DEF RevokeMandate, Midnight, CommitMandate, Expire, since, files
  <2> QED
    BY <2>2, <2>3, <2>4 DEF Operator
<1>4. HaltSeen(q)'
  BY <1>0, <1>1, <1>3 DEF Safe, HaltSeen, Allowed
<1>5. MandateSeen(q)'
  <2>1. MandateSeen(q)
    BY <1>0 DEF Safe
  <2>2. /\ onFile[q] \subseteq onFile'[q]
        /\ pc[q] # "idle" /\ mandate' # Null => mandate' \in onFile'[q]
    <3>1. ASSUME NEW m \in Mandates, CommitMandate(m) PROVE <2>2
      BY <1>0, <3>1 DEF CommitMandate, TypeOK
    <3>2. CASE RevokeMandate
      BY <2>1, <3>2 DEF RevokeMandate, since
    <3>3. CASE \/ Midnight \/ \E m \in Mandates : Expire(m)
               \/ \E s \in Sentinels : TripHalt(s) \/ ClearHalt(s)
      BY <2>1, <3>3 DEF Midnight, Expire, TripHalt, ClearHalt, since, files, MandateSeen
    <3> QED
      BY <3>1, <3>2, <3>3 DEF Operator
  <2>3. expired \subseteq expired'
    BY DEF Operator, CommitMandate, Expire, RevokeMandate, TripHalt, ClearHalt,
           Midnight, world
  <2> QED
    BY <1>1, <2>1, <2>2, <2>3 DEF MandateSeen, Allowed
<1> QED
  BY <1>2, <1>4, <1>5 DEF Safe

\* A call that begins, one that is refused, one that ends: none is allowed.
LEMMA ReceiveSafe ==
  ASSUME SafeInv, NEW p \in Servers, NEW c \in ToolCalls, ReceiveCall(p, c)
  PROVE  Safe(p)'
<1> DEFINE i == ExtractIntent(c.tool, c.params)
<1> USE DEF SafeInv, TypeInv, TypeOK, ReceiveCall
<1>1. /\ pc'[p] \in {"load", "reload"}
      /\ call'[p].decision # "allow"
  BY ValueAssumption DEF Goto, NoCall
<1>2. /\ held'[p] = halted /\ halted' = halted
      /\ onFile'[p] = {mandate} \ {Null} /\ mandate' = mandate
      /\ stale'[p] = expired /\ expired' = expired
  BY DEF files, world
<1>3. HaltSeen(p)'
  BY <1>1, <1>2 DEF HaltSeen, Allowed, Sentinels, PastGlobal, PastBroker,
     PastExpiry, PastLoad
<1>4. MandateSeen(p)'
  BY <1>1, <1>2 DEF MandateSeen, Allowed, PastLoad, PastExpiry
<1>5. PricedRight(p)'
  BY <1>1 DEF PricedRight, Allowed
<1> QED
  BY <1>3, <1>4, <1>5 DEF Safe

\* A refused call rests on nothing.
LEMMA RefusedSafe ==
  ASSUME SafeInv, NEW p \in Servers, ~At(p, "idle"),
         NEW v \in {"deny", "pause_for_reauth"}, Decide(p, v),
         UNCHANGED <<mandate, halted, expired, held, onFile, stale>>
  PROVE  Safe(p)'
<1>1. pc'[p] = "reload" /\ call'[p].decision = v
  BY DEF SafeInv, TypeInv, TypeOK, Decide, Goto, Call
<1>2. Safe(p) /\ pc[p] # "idle"
  BY DEF SafeInv, At
<1> QED
  BY <1>1, <1>2 DEF Safe, HaltSeen, MandateSeen, PricedRight, Allowed, PastLoad,
     PastExpiry, PastGlobal, PastBroker

\* Neither does a call that is over.
LEMMA FinishSafe ==
  ASSUME SafeInv, NEW p \in Servers, Finish(p)
  PROVE  Safe(p)'
<1>1. /\ pc'[p] = "idle" /\ call'[p].decision = Null
      /\ held'[p] = {} /\ onFile'[p] = {} /\ stale'[p] = {}
  BY DEF SafeInv, TypeInv, TypeOK, Finish, Goto, NoCall
<1> QED
  BY <1>1, ValueAssumption DEF Safe, HaltSeen, MandateSeen, PricedRight, Allowed,
     PastLoad, PastExpiry, PastGlobal, PastBroker

\* Past the gate nothing an allowed call rests on changes.
LEMMA LaterSafe ==
  ASSUME SafeInv, NEW p \in Servers, pc[p] \in PastGate, pc'[p] \in PastGate,
         NEW c \in Call, call'[p] = c,
         /\ c.tool = call[p].tool /\ c.params = call[p].params
         /\ c.loaded = call[p].loaded /\ c.quote = call[p].quote
         /\ c.decision = call[p].decision,
         UNCHANGED <<mandate, halted, expired, held, onFile, stale>>
  PROVE  Safe(p)'
<1>1. Safe(p)
  BY DEF SafeInv
<1>2. pc[p] # "idle" /\ pc'[p] # "idle" /\ pc'[p] \notin PastLoad
  BY DEF PastGate, PastLoad, Gate
<1> QED
  BY <1>1, <1>2 DEF Safe, HaltSeen, MandateSeen, PricedRight, Allowed, PastExpiry,
     PastGlobal, PastBroker, BrokerAccepts, Sent, RequestWithinCaps

\* A check that lets the call through.
LEMMA LoadSafe ==
  ASSUME SafeInv, NEW p \in Servers, LoadMandate(p)
  PROVE  Safe(p)'
<1>0. /\ Safe(p) /\ pc[p] = "load" /\ call[p].decision = Null
      /\ UNCHANGED <<mandate, halted, expired, held, onFile, stale>>
  BY DEF SafeInv, TypeInv, Locals, Gate, LoadMandate, At, files, world, since
<1>1. CASE Decide(p, "deny")
  BY <1>0, <1>1, RefusedSafe DEF At
<1>2. CASE /\ ~(mandate = Null \/ mandate.schema_version # SchemaVersion)
           /\ call' = [call EXCEPT ![p].loaded = mandate]
           /\ Goto(p, "expiry")
  <2>1. /\ pc'[p] = "expiry" /\ call'[p].loaded = mandate
        /\ call'[p].decision = call[p].decision
    BY <1>2 DEF SafeInv, TypeInv, TypeOK, Goto, Call
  <2> QED
    BY <1>0, <1>2, <2>1, ValueAssumption DEF Safe, HaltSeen, MandateSeen,
       PricedRight, Allowed, PastLoad, PastExpiry, PastGlobal, PastBroker
<1> QED
  BY <1>1, <1>2 DEF LoadMandate

\* A call past step 2 rests on a mandate that was current when it began.
LEMMA ExpirySafe ==
  ASSUME SafeInv, NEW p \in Servers, CheckExpiry(p)
  PROVE  Safe(p)'
<1>0. /\ Safe(p) /\ pc[p] = "expiry" /\ call[p].decision = Null
      /\ UNCHANGED <<mandate, halted, expired, held, onFile, stale>>
  BY DEF SafeInv, TypeInv, Locals, Gate, CheckExpiry, At, files, world, since
<1>1. CASE Decide(p, "pause_for_reauth")
  BY <1>0, <1>1, RefusedSafe DEF At
<1>2. CASE call[p].loaded \notin expired /\ Goto(p, "halt_global") /\ UNCHANGED call
  <2>1. pc'[p] = "halt_global"
    BY <1>2 DEF SafeInv, TypeInv, TypeOK, Goto
  <2> QED
    BY <1>0, <1>2, <2>1, ValueAssumption DEF Safe, HaltSeen, MandateSeen,
       PricedRight, Allowed, PastLoad, PastExpiry, PastGlobal, PastBroker
<1> QED
  BY <1>1, <1>2 DEF CheckExpiry

\* A call past the first look has not seen a global halt all along.
LEMMA GlobalHaltSafe ==
  ASSUME SafeInv, NEW p \in Servers, CheckGlobalHalt(p)
  PROVE  Safe(p)'
<1>0. /\ Safe(p) /\ pc[p] = "halt_global" /\ call[p].decision = Null
      /\ UNCHANGED <<mandate, halted, expired, held, onFile, stale>>
  BY DEF SafeInv, TypeInv, Locals, Gate, CheckGlobalHalt, CheckHalt, At, files,
     world, since
<1>1. CASE Decide(p, "deny")
  BY <1>0, <1>1, RefusedSafe DEF At
<1>2. CASE "global" \notin halted /\ Goto(p, "halt_broker") /\ UNCHANGED call
  <2>1. pc'[p] = "halt_broker"
    BY <1>2 DEF SafeInv, TypeInv, TypeOK, Goto
  <2> QED
    BY <1>0, <1>2, <2>1, ValueAssumption DEF Safe, HaltSeen, MandateSeen,
       PricedRight, Allowed, PastLoad, PastExpiry, PastGlobal, PastBroker, Sentinels
<1> QED
  BY <1>1, <1>2 DEF CheckGlobalHalt, CheckHalt

\* A call past the second look has not seen a broker halt all along.
LEMMA BrokerHaltSafe ==
  ASSUME SafeInv, NEW p \in Servers, CheckBrokerHalt(p)
  PROVE  Safe(p)'
<1>0. /\ Safe(p) /\ pc[p] = "halt_broker" /\ call[p].decision = Null
      /\ UNCHANGED <<mandate, halted, expired, held, onFile, stale>>
  BY DEF SafeInv, TypeInv, Locals, Gate, CheckBrokerHalt, CheckHalt, At, files,
     world, since
<1>1. CASE Decide(p, "deny")
  BY <1>0, <1>1, RefusedSafe DEF At
<1>2. CASE "broker" \notin halted /\ Goto(p, "price") /\ UNCHANGED call
  <2>1. pc'[p] = "price"
    BY <1>2 DEF SafeInv, TypeInv, TypeOK, Goto
  <2> QED
    BY <1>0, <1>2, <2>1, ValueAssumption DEF Safe, HaltSeen, MandateSeen,
       PricedRight, Allowed, PastLoad, PastExpiry, PastGlobal, PastBroker, Sentinels
<1> QED
  BY <1>1, <1>2 DEF CheckBrokerHalt, CheckHalt

\* Pricing withdraws nothing of what the call has seen.
LEMMA PriceSafe ==
  ASSUME SafeInv, NEW p \in Servers, NEW quote \in Quotes, Price(p, quote)
  PROVE  Safe(p)'
<1> DEFINE priced == NormalizeIntentNotional(call[p].intent, quote)
<1>0. /\ Safe(p) /\ pc[p] = "price" /\ call[p].decision = Null
      /\ UNCHANGED <<mandate, halted, expired, held, onFile, stale>>
  BY DEF SafeInv, TypeInv, Locals, Gate, Price, At, files, world, since
<1>1. CASE Decide(p, "deny")
  BY <1>0, <1>1, RefusedSafe DEF At
<1>2. CASE /\ call' = [call EXCEPT ![p].intent = priced, ![p].quote = quote]
           /\ Goto(p, "count")
  <2> HIDE DEF priced
  <2>1. /\ pc'[p] = "count" /\ call'[p].decision = call[p].decision
        /\ call'[p].loaded = call[p].loaded
    BY <1>2 DEF SafeInv, TypeInv, TypeOK, Goto, Call
  <2> QED
    BY <1>0, <1>2, <2>1, ValueAssumption DEF Safe, HaltSeen, MandateSeen,
       PricedRight, Allowed, PastLoad, PastExpiry, PastGlobal, PastBroker
<1> QED
  BY <1>1, <1>2 DEF Price

\* The decision: everything an allowed call rests on has been seen.
LEMMA CapsSafe ==
  ASSUME SafeInv, NEW p \in Servers, CheckCaps(p)
  PROVE  Safe(p)'
<1> DEFINE v == CheckMandate(call[p].loaded, call[p].intent, ReadDailyCount)
<1>0. /\ Safe(p) /\ pc[p] = "count" /\ call[p].decision = Null
      /\ UNCHANGED <<mandate, halted, expired, held, onFile, stale>>
  BY DEF SafeInv, TypeInv, Locals, Gate, CheckCaps, At, files, world, since
<1>1. CASE v \in {"deny", "pause_for_reauth"}
  <2>1. Decide(p, v)
    BY DEF CheckCaps
  <2> HIDE DEF v
  <2> QED
    BY <1>0, <1>1, <2>1, RefusedSafe DEF At
<1>2. CASE v = "allow"
  <2> DEFINE c == call[p]
  <2>1. /\ pc'[p] = "forward"
        /\ call'[p].tool = c.tool /\ call'[p].params = c.params
        /\ call'[p].loaded = c.loaded /\ call'[p].quote = c.quote
    <3>1. Decide(p, "allow")
      BY <1>2 DEF CheckCaps
    <3> QED
      BY <3>1 DEF SafeInv, TypeInv, TypeOK, Decide, Goto, Call
  <2>2. HaltSeen(p)' /\ MandateSeen(p)'
    <3>1. held[p] \subseteq {"global", "broker"}
      BY DEF SafeInv, TypeInv, TypeOK, Sentinels
    <3>2. held[p] = {}
      BY <1>0, <3>1 DEF Safe, HaltSeen, PastLoad, PastExpiry, PastGlobal, PastBroker
    <3> QED
      BY <1>0, <2>1, <3>2 DEF Safe, HaltSeen, MandateSeen, PastLoad, PastExpiry,
         PastGlobal, PastBroker
  <2>3. ASSUME c.tool = "place_order", SentQty(c.tool, c.params) \in Int
        PROVE  /\ c.quote \in Int
               /\ ~Exceeds(SentQty(c.tool, c.params) * c.quote, c.loaded.max_order_notional)
               /\ ~Exceeds(SentQty(c.tool, c.params) * c.quote, c.loaded.max_total_exposure)
               /\ ~OverLeverage(c.loaded, SentQty(c.tool, c.params) * c.quote)
               /\ \A s \in c.loaded.exclude_symbols : Fold[s] # Fold[c.params.symbol]
    <3>1. Locals(c, "count")
      BY <1>0 DEF SafeInv, TypeInv
    <3>2. /\ c.params \in Params /\ c.loaded \in Mandate /\ c.intent \in OrderIntent
          /\ c.intent = NormalizeIntentNotional(ExtractIntent(c.tool, c.params), c.quote)
          /\ ExtractIntent(c.tool, c.params) # Null
      BY <3>1, LiveGateAssumption DEF Locals, Intent, Gate, PastLoad
    <3>3. SentQty(c.tool, c.params) = c.params.qty
      BY <2>3 DEF SentQty
    <3> HIDE DEF c
    <3> QED
      BY <1>2, <2>3, <3>2, <3>3, PlaceRules DEF c
  <2>4. PricedRight(p)'
    BY <2>1, <2>3 DEF PricedRight, BrokerAccepts, Sent, RequestWithinCaps
  <2> QED
    BY <2>2, <2>4 DEF Safe
<1> QED
  BY <1>1, <1>2, CheckMandateType

\* Past the gate: the forward and the record.
LEMMA PastGateSafe ==
  ASSUME SafeInv, NEW p \in Servers,
         \/ MakeCoroutine(p) \/ BrokerConfirms(p) \/ BrokerFails(p)
         \/ AnswerLost(p) \/ ForwardRaisesOut(p)
         \/ TakeDate(p) \/ ReadCounter(p) \/ ReplaceCounter(p)
         \/ ReloadMandate(p) \/ AppendLedger(p)
  PROVE  Safe(p)'
<1>c. /\ call[p] \in Call /\ TypeOK
      /\ {"forward", "reload", "append", "today", "read", "write"} \subseteq PastGate
  BY DEF SafeInv, TypeInv, TypeOK, PastGate, Labels, Gate, Recording
<1>t. TypeInv'
  BY ForwardInv, RecordingInv DEF SafeInv
<1>u. call'[p] \in Call
  BY <1>t DEF TypeInv, TypeOK
<1>1. CASE ForwardRaisesOut(p) \/ AppendLedger(p)
  BY <1>1, FinishSafe DEF ForwardRaisesOut, AppendLedger
<1>2. ASSUME NEW r, Returned(p, r), At(p, "forward") PROVE Safe(p)'
  <2>1. /\ call'[p].tool = call[p].tool /\ call'[p].params = call[p].params
        /\ call'[p].loaded = call[p].loaded /\ call'[p].quote = call[p].quote
        /\ call'[p].decision = call[p].decision
    BY <1>2, <1>c DEF Returned, TypeOK, Call
  <2>2. pc[p] \in PastGate /\ pc'[p] \in PastGate
    BY <1>2, <1>c DEF Returned, Goto, At, TypeOK
  <2>3. UNCHANGED <<mandate, halted, expired, held, onFile, stale>>
    BY <1>2 DEF Returned, files, since
  <2> QED
    BY <1>u, <2>1, <2>2, <2>3, LaterSafe
<1>3. CASE \/ MakeCoroutine(p) \/ BrokerConfirms(p) \/ BrokerFails(p)
           \/ AnswerLost(p)
  BY <1>2, <1>3 DEF MakeCoroutine, BrokerConfirms, BrokerFails, AnswerLost, BrokerCall
<1>4. CASE TakeDate(p) \/ ReadCounter(p) \/ ReplaceCounter(p) \/ ReloadMandate(p)
  <2>1. /\ call'[p].tool = call[p].tool /\ call'[p].params = call[p].params
        /\ call'[p].loaded = call[p].loaded /\ call'[p].quote = call[p].quote
        /\ call'[p].decision = call[p].decision
    BY <1>4, <1>c DEF TakeDate, ReadCounter, ReplaceCounter, ReloadMandate, TypeOK, Call
  <2>2. pc[p] \in PastGate /\ pc'[p] \in PastGate
    BY <1>4, <1>c DEF TakeDate, ReadCounter, ReplaceCounter, ReloadMandate, Goto,
       At, TypeOK
  <2>3. UNCHANGED <<mandate, halted, expired, held, onFile, stale>>
    BY <1>4 DEF TakeDate, ReadCounter, ReplaceCounter, ReloadMandate, files,
       world, since
  <2> QED
    BY <1>u, <2>1, <2>2, <2>3, LaterSafe
<1> QED
  BY <1>1, <1>3, <1>4

\* No call has seen anything yet.
LEMMA InitSafe == Init => SafeInv
<1> SUFFICES ASSUME Init PROVE SafeInv
  OBVIOUS
<1>1. ASSUME NEW p \in Servers PROVE Safe(p)
  BY ValueAssumption DEF Init, NoCall, Safe, HaltSeen, MandateSeen, PricedRight,
     Allowed, PastLoad, PastExpiry, PastGlobal, PastBroker
<1> QED
  BY <1>1, InitInv DEF SafeInv

\* The invariant is inductive, given TypeInv.
LEMMA NextSafe == SafeInv /\ [Next]_vars => SafeInv'
<1> SUFFICES ASSUME SafeInv, [Next]_vars PROVE SafeInv'
  OBVIOUS
<1>1. TypeInv'
  BY NextInv DEF SafeInv
<1>2. ASSUME NEW q \in Servers PROVE Safe(q)'
  <2>1. CASE Operator
    BY <2>1, OperatorSafe
  <2>2. ASSUME NEW p \in Servers, Server(p), q # p PROVE Safe(q)'
    BY <2>2, ElsewhereSafe
  <2>3. CASE Server(q)
    <3>1. ASSUME NEW c \in ToolCalls, ReceiveCall(q, c) PROVE Safe(q)'
      BY <3>1, ReceiveSafe
    <3>2. CASE Step(q)
      BY <3>2, LoadSafe, ExpirySafe, GlobalHaltSafe, BrokerHaltSafe, PriceSafe,
         CapsSafe, PastGateSafe DEF Step
    <3>3. CASE CutShort(q)
      BY <3>3, FinishSafe DEF CutShort
    <3> QED
      BY <2>3, <3>1, <3>2, <3>3 DEF Server
  <2>4. CASE UNCHANGED vars
    BY <2>4 DEF vars, files, world, since, SafeInv, Safe, HaltSeen, MandateSeen,
       PricedRight, Allowed, BrokerAccepts, Sent, RequestWithinCaps
  <2> QED
    BY <2>1, <2>2, <2>3, <2>4 DEF Next
<1> QED
  BY <1>1, <1>2 DEF SafeInv

\* In every reachable state, each call has seen no standing halt, stands on a
\* mandate that was on file, and, once allowed, is within its caps.
THEOREM Safety == Spec => []SafeInv
BY InitSafe, NextSafe, PTL DEF Spec

\* The kill switch, for any number of servers and any interleaving with the
\* operator: a sentinel that stays from before a call begins stops the call.
THEOREM KillSwitch == Spec => []HaltBlocks
<1>1. SafeInv => HaltBlocks
  BY DEF SafeInv, Safe, HaltSeen, HaltBlocks
<1> QED
  BY <1>1, Safety, PTL

\* An order rests on one mandate that was on file during the call, was
\* current when the call began and is of the schema the code understands.
THEOREM Authority == Spec => []AuthorizedByMandate
<1>1. SafeInv => AuthorizedByMandate
  BY DEF SafeInv, Safe, MandateSeen, AuthorizedByMandate
<1> QED
  BY <1>1, Safety, PTL

\* H3 and H4 for every mandate, price, quantity and spelling of a symbol:
\* what place_order sends is what the gate priced.
THEOREM Caps == Spec => []PlacedWithinCaps
<1>1. SafeInv => PlacedWithinCaps
  BY DEF SafeInv, Safe, PricedRight, PlacedWithinCaps
<1> QED
  BY <1>1, Safety, PTL
=============================================================================
