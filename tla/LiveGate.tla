------------------------------ MODULE LiveGate ------------------------------
(***************************************************************************)
(* Tool calls through the mandate gate.  Several bybit-mcp servers (one    *)
(* process each; a handler has no await and runs to its end) share the     *)
(* runtime root: the mandate file, the two halt sentinels, the daily       *)
(* counter and the audit ledger.  The operator commits and revokes the     *)
(* mandate and trips and clears the halts at any moment; the clock passes  *)
(* midnight and mandates expire; a server may crash and restart.           *)
(*                                                                         *)
(* One action is one access to something shared.  What a server computes   *)
(* between two accesses belongs to the first of them.                      *)
(***************************************************************************)
EXTENDS OrderTools, FiniteSets

CONSTANTS
  Servers,      \* server processes
  Mandates,     \* the mandates an operator may commit
  ToolCalls,    \* the calls a server may receive: [tool, params]
  Quotes,       \* what quote_lookup may answer; {Null} is a gate without one
  Forwards,     \* "coroutine": forward() only makes a coroutine, as the six
                \*   registered tools do; "call": it calls the broker, as
                \*   _gate_and_forward documents
  MaxCalls,     \* bound on the calls received; Null is no bound
  MaxTally,     \* bound at which the history counters stop; Null is no bound
  MaxDay,       \* bound on the days that pass
  MaxFaults     \* bound on crashes and failed writes

ASSUME LiveGateAssumption ==
  /\ Mandates \subseteq Mandate
  /\ Null \notin Mandates
  /\ ToolCalls \subseteq [tool : Tools, params : Params]
  /\ Forwards \subseteq {"coroutine", "call"}
  /\ MaxDay \in Nat /\ MaxFaults \in Nat
  /\ MaxCalls \in Nat \cup {Null} /\ MaxTally \in Nat \cup {Null}

VARIABLES
  mandate,      \* <root>/live/<broker>/mandate.json; Null when load_mandate
                \*   finds none or none it can parse
  halted,       \* the halt sentinels that exist
  counter,      \* trade_counter.json: [date, count], or Null
  ledger,       \* audit.jsonl: how many lines there are of each kind
  today,        \* the UTC date
  expired,      \* the mandates past their expires_at
  placed,       \* per day, the orders the broker executed
  pc,           \* where each server stands in _gate_and_forward
  call,         \* the local variables of the call it serves
  \* history, read by no action
  accepted,     \* per day, the forwards the server took for a success
  started,      \* calls received
  unrecorded,   \* calls that ended without an audit record
  forgotten,    \* of these, the ones cut off before their count was written
  faults,       \* crashes and failed writes
  held,         \* halts in place ever since the call began
  onFile,       \* mandates on file at some moment of the call
  stale         \* mandates already expired when the call began

files   == <<mandate, halted, counter, ledger>>
world   == <<today, expired, placed, accepted>>
tallies == <<started, unrecorded, forgotten, faults>>
since   == <<held, onFile, stale>>
vars    == <<files, world, tallies, since, pc, call>>

Sentinels == {"global", "broker"}
Days      == 0 .. MaxDay
Lines     == {"order_placed", "order_rejected", "breach", "error"}

CounterFile == [date : Days, count : Nat]

ASSUME FileAssumption == Null \notin CounterFile

\* Labels of a server: where it stands in the gate, past it, and recording.
Gate      == {"load", "expiry", "halt_global", "halt_broker", "price", "count"}
Recording == {"today", "read", "write"}
Labels    == {"idle", "forward", "reload", "append"} \cup Gate \cup Recording

NoCall == [tool |-> Null, params |-> Null, intent |-> Null, loaded |-> Null,
           quote |-> Null, decision |-> Null, result |-> Null,
           day |-> Null, count |-> Null, reloaded |-> Null]

Tally(n) == IF MaxTally # Null => n < MaxTally THEN n + 1 ELSE n
----------------------------------------------------------------------------
(***************************************************************************)
(* The operator and the clock.                                             *)
(***************************************************************************)

CommitMandate(m) ==
  /\ mandate # m
  /\ mandate' = m
  /\ onFile' = [p \in Servers |->
                  IF pc[p] = "idle" THEN onFile[p] ELSE onFile[p] \cup {m}]
  /\ UNCHANGED <<halted, counter, ledger, world, tallies, held, stale, pc, call>>

\* The file is removed, or is caught half-edited: load_mandate answers None.
RevokeMandate ==
  /\ mandate # Null
  /\ mandate' = Null
  /\ UNCHANGED <<halted, counter, ledger, world, tallies, since, pc, call>>

TripHalt(s) ==
  /\ s \notin halted
  /\ halted' = halted \cup {s}
  /\ UNCHANGED <<mandate, counter, ledger, world, tallies, since, pc, call>>

ClearHalt(s) ==
  /\ s \in halted
  /\ halted' = halted \ {s}
  /\ held' = [p \in Servers |-> held[p] \ {s}]
  /\ UNCHANGED <<mandate, counter, ledger, world, tallies, onFile, stale, pc, call>>

Midnight ==
  /\ today < MaxDay
  /\ today' = today + 1
  /\ UNCHANGED <<files, expired, placed, accepted, tallies, since, pc, call>>

Expire(m) ==
  /\ m \notin expired
  /\ expired' = expired \cup {m}
  /\ UNCHANGED <<files, today, placed, accepted, tallies, since, pc, call>>

----------------------------------------------------------------------------
(***************************************************************************)
(* A server: from the call of a tool to the gate's decision.               *)
(***************************************************************************)

At(p, label) == pc[p] = label

Goto(p, label) == pc' = [pc EXCEPT ![p] = label]

\* A refusal returns without its audit.
DecideBug(p, verdict) ==
  /\ call' = [call EXCEPT ![p].decision = verdict]
  /\ Goto(p, IF verdict = "allow" THEN "forward" ELSE "idle")

\* A refusal: nothing is forwarded, only the audit is left to do.
Decide(p, verdict) ==
  /\ call' = [call EXCEPT ![p].decision = verdict]
  /\ Goto(p, IF verdict = "allow" THEN "forward" ELSE "reload")

\* The extractor runs before the gate; a call without an intent is refused
\* unseen by it.
ReceiveCall(p, c) ==
  LET intent == ExtractIntent(c.tool, c.params)
  IN  /\ At(p, "idle")
      /\ MaxCalls # Null => started < MaxCalls
      /\ call' = [call EXCEPT ![p] =
                    [NoCall EXCEPT !.tool = c.tool, !.params = c.params,
                                   !.intent = intent,
                                   !.decision = IF intent = Null THEN "deny" ELSE Null]]
      /\ Goto(p, IF intent = Null THEN "reload" ELSE "load")
      /\ started' = Tally(started)
      /\ held'   = [held EXCEPT ![p] = halted]
      /\ onFile' = [onFile EXCEPT ![p] = {mandate} \ {Null}]
      /\ stale'  = [stale EXCEPT ![p] = expired]
      /\ UNCHANGED <<files, world, unrecorded, forgotten, faults>>

\* The mandate is kept in memory instead of being read again.
LoadMandateBug(p) ==
  /\ At(p, "load")
  /\ \E m \in Mandates : call' = [call EXCEPT ![p].loaded = m]
  /\ Goto(p, "expiry")
  /\ UNCHANGED <<files, world, tallies, since>>

LoadMandate(p) ==
  /\ At(p, "load")
  /\ IF mandate = Null \/ mandate.schema_version # SchemaVersion
     THEN Decide(p, "deny")
     ELSE /\ call' = [call EXCEPT ![p].loaded = mandate]
          /\ Goto(p, "expiry")
  /\ UNCHANGED <<files, world, tallies, since>>

\* expires_at is carried and never compared.
CheckExpiryBug(p) ==
  /\ At(p, "expiry")
  /\ Goto(p, "halt_global")
  /\ UNCHANGED <<files, world, tallies, since, call>>

CheckExpiry(p) ==
  /\ At(p, "expiry")
  /\ IF call[p].loaded \in expired
     THEN Decide(p, "pause_for_reauth")
     ELSE Goto(p, "halt_global") /\ UNCHANGED call
  /\ UNCHANGED <<files, world, tallies, since>>

\* A halted server waits for the halt to be cleared.
CheckHaltBug(p, label, s, next) ==
  /\ At(p, label)
  /\ s \notin halted
  /\ Goto(p, next)
  /\ UNCHANGED <<files, world, tallies, since, call>>

\* halt_flag_set looks at one sentinel, then at the other.
CheckHalt(p, label, s, next) ==
  /\ At(p, label)
  /\ IF s \in halted
     THEN Decide(p, "deny")
     ELSE Goto(p, next) /\ UNCHANGED call
  /\ UNCHANGED <<files, world, tallies, since>>

\* A broker that is not halted globally is not halted.
CheckGlobalHaltBug(p) == CheckHalt(p, "halt_global", "global", "price")
CheckBrokerHaltBug(p) ==
  /\ At(p, "halt_broker")
  /\ Goto(p, "price")
  /\ UNCHANGED <<files, world, tallies, since, call>>

CheckGlobalHalt(p) == CheckHalt(p, "halt_global", "global", "halt_broker")
CheckBrokerHalt(p) == CheckHalt(p, "halt_broker", "broker", "price")

Price(p, quote) ==
  LET priced == NormalizeIntentNotional(call[p].intent, quote)
  IN  /\ At(p, "price")
      /\ IF priced = Null
         THEN Decide(p, "deny")
         ELSE /\ call' = [call EXCEPT ![p].intent = priced, ![p].quote = quote]
              /\ Goto(p, "count")
      /\ UNCHANGED <<files, world, tallies, since>>

ReadDailyCount ==
  IF counter # Null /\ counter.date = today THEN counter.count ELSE 0

CheckCaps(p) ==
  /\ At(p, "count")
  /\ Decide(p, CheckMandate(call[p].loaded, call[p].intent, ReadDailyCount))
  /\ UNCHANGED <<files, world, tallies, since>>

----------------------------------------------------------------------------
(***************************************************************************)
(* Past the gate: the forward, and the broker's side of it.                *)
(***************************************************************************)

\* The handler is over; the next call starts from nothing.
Finish(p) ==
  /\ Goto(p, "idle")
  /\ call'   = [call EXCEPT ![p] = NoCall]
  /\ held'   = [held EXCEPT ![p] = {}]
  /\ onFile' = [onFile EXCEPT ![p] = {}]
  /\ stale'  = [stale EXCEPT ![p] = {}]

Sent(p) == SentQty(call[p].tool, call[p].params)

Raises(p) == ForwardRaises(call[p].tool, call[p].params)

\* An order of no size, or of a size that is not a number, is rejected.
BrokerAccepts(p) == Sent(p) \in Int /\ Sent(p) > 0

Record(orders) == [orders EXCEPT ![today] = Tally(@)]

\* An error of the broker consumes the daily count too (H2).
ReturnedBug(p, result) ==
  /\ call' = [call EXCEPT ![p].result = result]
  /\ Goto(p, "today") /\ accepted' = Record(accepted)
  /\ UNCHANGED <<files, today, expired, tallies, since>>

\* Whatever forward() returns without raising is a success to the server.
Returned(p, result) ==
  /\ call' = [call EXCEPT ![p].result = result]
  /\ IF result = "error"
     THEN Goto(p, "reload") /\ UNCHANGED accepted
     ELSE Goto(p, "today") /\ accepted' = Record(accepted)
  /\ UNCHANGED <<files, today, expired, tallies, since>>

\* forward() of a registered tool: the coroutine is made and never awaited.
MakeCoroutine(p) ==
  /\ At(p, "forward") /\ "coroutine" \in Forwards
  /\ Returned(p, "coroutine")
  /\ UNCHANGED placed

BrokerCall(p) == At(p, "forward") /\ "call" \in Forwards /\ ~Raises(p)

BrokerConfirms(p) ==
  /\ BrokerCall(p) /\ BrokerAccepts(p)
  /\ placed' = Record(placed)
  /\ Returned(p, "ok")

\* A non-zero retCode, a 5xx, or a request that never arrived.
BrokerFails(p) ==
  /\ BrokerCall(p)
  /\ Returned(p, "error")
  /\ UNCHANGED placed

\* The order is executed and its answer is lost: a BybitTransportError.
AnswerLost(p) ==
  /\ BrokerCall(p) /\ BrokerAccepts(p)
  /\ placed' = Record(placed)
  /\ Returned(p, "error")

\* Not a BybitError: _gate_and_forward does not catch it.
ForwardRaisesOut(p) ==
  /\ At(p, "forward") /\ "call" \in Forwards /\ Raises(p)
  /\ Finish(p)
  /\ unrecorded' = Tally(unrecorded)
  /\ UNCHANGED <<files, world, started, forgotten, faults>>

----------------------------------------------------------------------------
(***************************************************************************)
(* record_success, then the audit.  increment_daily_count takes the date,  *)
(* reads the counter (which takes the date again) and replaces the file.   *)
(***************************************************************************)

TakeDate(p) ==
  /\ At(p, "today")
  /\ call' = [call EXCEPT ![p].day = today]
  /\ Goto(p, "read")
  /\ UNCHANGED <<files, world, tallies, since>>

ReadCounter(p) ==
  /\ At(p, "read")
  /\ call' = [call EXCEPT ![p].count = ReadDailyCount + 1]
  /\ Goto(p, "write")
  /\ UNCHANGED <<files, world, tallies, since>>

\* The counter is written and the audit is forgotten.
ReplaceCounterBug(p) ==
  /\ At(p, "write")
  /\ counter' = [date |-> call[p].day, count |-> call[p].count]
  /\ Finish(p)
  /\ UNCHANGED <<mandate, halted, ledger, world, tallies>>

\* The count is written under the date of the moment.
ReplaceCounterLateBug(p) ==
  /\ At(p, "write")
  /\ counter' = [date |-> today, count |-> call[p].count]
  /\ Goto(p, "reload")
  /\ UNCHANGED <<mandate, halted, ledger, world, tallies, since, call>>

ReplaceCounter(p) ==
  /\ At(p, "write")
  /\ counter' = [date |-> call[p].day, count |-> call[p].count]
  /\ Goto(p, "reload")
  /\ UNCHANGED <<mandate, halted, ledger, world, tallies, since, call>>

\* The record names the mandate that is on file now.
ReloadMandate(p) ==
  /\ At(p, "reload")
  /\ call' = [call EXCEPT ![p].reloaded = mandate]
  /\ Goto(p, "append")
  /\ UNCHANGED <<files, world, tallies, since>>

LineOf(p) ==
  CASE call[p].decision = "deny" -> "order_rejected"
    [] call[p].decision = "pause_for_reauth" -> "breach"
    [] call[p].decision = "allow" ->
         IF call[p].result = "error" THEN "error" ELSE "order_placed"

AppendLedger(p) ==
  /\ At(p, "append")
  /\ ledger' = [ledger EXCEPT ![LineOf(p)] = Tally(@)]
  /\ Finish(p)
  /\ UNCHANGED <<mandate, halted, counter, world, tallies>>

----------------------------------------------------------------------------
(***************************************************************************)
(* What goes wrong: the server dies; the counter cannot be written, which  *)
(* raises out of the tool; the ledger cannot, which is swallowed.  Each    *)
(* ends the call without a record, with what it had done so far done.      *)
(***************************************************************************)

CutShort(p) ==
  /\ ~At(p, "idle")
  /\ faults < MaxFaults
  /\ faults' = faults + 1
  /\ unrecorded' = Tally(unrecorded)
  /\ forgotten' = IF pc[p] \in Recording THEN Tally(forgotten) ELSE forgotten
  /\ Finish(p)
  /\ UNCHANGED <<files, world, started>>

----------------------------------------------------------------------------
Init ==
  /\ mandate \in Mandates \cup {Null}
  /\ halted \in SUBSET Sentinels
  /\ counter = Null
  /\ ledger = [l \in Lines |-> 0]
  /\ today = 0
  /\ expired = {}
  /\ placed = [d \in Days |-> 0] /\ accepted = [d \in Days |-> 0]
  /\ pc = [p \in Servers |-> "idle"]
  /\ call = [p \in Servers |-> NoCall]
  /\ started = 0 /\ unrecorded = 0 /\ forgotten = 0 /\ faults = 0
  /\ held = [p \in Servers |-> {}]
  /\ onFile = [p \in Servers |-> {}]
  /\ stale = [p \in Servers |-> {}]

\* The steps a running server takes by itself.
Step(p) ==
  \/ LoadMandate(p) \/ CheckExpiry(p)
  \/ CheckGlobalHalt(p) \/ CheckBrokerHalt(p)
  \/ \E quote \in Quotes : Price(p, quote)
  \/ CheckCaps(p)
  \/ MakeCoroutine(p) \/ BrokerConfirms(p) \/ BrokerFails(p)
  \/ AnswerLost(p) \/ ForwardRaisesOut(p)
  \/ TakeDate(p) \/ ReadCounter(p) \/ ReplaceCounter(p)
  \/ ReloadMandate(p) \/ AppendLedger(p)

Operator ==
  \/ \E m \in Mandates : CommitMandate(m) \/ Expire(m)
  \/ RevokeMandate
  \/ \E s \in Sentinels : TripHalt(s) \/ ClearHalt(s)
  \/ Midnight

Server(p) ==
  \/ \E c \in ToolCalls : ReceiveCall(p, c)
  \/ Step(p)
  \/ CutShort(p)

Next == (\E p \in Servers : Server(p)) \/ Operator

Spec == Init /\ [][Next]_vars

\* A handler has no await and its requests have a timeout: once called, it
\* goes on to its end.
Fairness == \A p \in Servers : WF_vars(Step(p))

FairSpec == Spec /\ Fairness
----------------------------------------------------------------------------
(***************************************************************************)
(* What must hold.                                                         *)
(***************************************************************************)

Call ==
  [tool : Tools \cup {Null}, params : Params \cup {Null},
   intent : OrderIntent \cup {Null}, loaded : Mandates \cup {Null},
   quote : Quotes \cup {Null},
   decision : {"allow", "deny", "pause_for_reauth", Null},
   result : {"ok", "error", "coroutine", Null},
   day : Days \cup {Null}, count : Nat \cup {Null},
   reloaded : Mandates \cup {Null}]

\* Every variable keeps its type: what each step reads was written by a step
\* before it, on every path through the gate and after every crash.
TypeOK ==
  /\ mandate \in Mandates \cup {Null}
  /\ halted \in SUBSET Sentinels
  /\ counter \in CounterFile \cup {Null}
  /\ ledger \in [Lines -> Nat]
  /\ today \in Days
  /\ expired \in SUBSET Mandates
  /\ placed \in [Days -> Nat] /\ accepted \in [Days -> Nat]
  /\ pc \in [Servers -> Labels]
  /\ call \in [Servers -> Call]
  /\ started \in Nat /\ unrecorded \in Nat /\ forgotten \in Nat /\ faults \in Nat
  /\ held \in [Servers -> SUBSET Sentinels]
  /\ onFile \in [Servers -> SUBSET Mandates]
  /\ stale \in [Servers -> SUBSET Mandates]

Allowed(p) == call[p].decision = "allow"

\* The kill switch: while one sentinel stays in place from before a call
\* begins, that call is not allowed, whatever happens to the other sentinel,
\* to the mandate, and in the other servers (halt.py, halt_flag_set).
HaltBlocks ==
  \A p \in Servers : Allowed(p) => held[p] = {}

\* An order is authorized by one mandate that was on file during the call
\* and had not expired when the call began: a revocation or an expiry
\* before the call stops it (guard.py, check).
AuthorizedByMandate ==
  \A p \in Servers : Allowed(p) =>
    /\ call[p].loaded \in onFile[p] \ stale[p]
    /\ call[p].loaded.schema_version = SchemaVersion

\* The request that is sent, priced at the quote, is within the caps and
\* the universe of the mandate that authorized it.
RequestWithinCaps(p) ==
  LET m     == call[p].loaded
      worth == Sent(p) * call[p].quote
  IN  /\ call[p].quote \in Int
      /\ ~Exceeds(worth, m.max_order_notional)
      /\ ~Exceeds(worth, m.max_total_exposure)
      /\ ~OverLeverage(m, worth)
      /\ \A s \in m.exclude_symbols : Fold[s] # Fold[call[p].params.symbol]

\* A quantity can not be carried past the caps by a small notional_usd, nor
\* an excluded symbol by its spelling (guard.py, H3 and H4): what
\* place_order sends is what the gate priced.
PlacedWithinCaps ==
  \A p \in Servers :
    Allowed(p) /\ call[p].tool = "place_order" /\ BrokerAccepts(p)
      => RequestWithinCaps(p)

\* One server: the forwards it takes for a success stay within
\* max_trades_per_day each day, across midnight and a change of mandate;
\* only a call cut short between the forward and the counter is forgotten.
DailyCap ==
  \A d \in Days : accepted[d] > forgotten =>
    \E m \in Mandates : accepted[d] - forgotten <= m.max_trades_per_day

\* What f counts, one by one: f[x] entries for every x.
Entries(f) == UNION {{x} \X (1 .. f[x]) : x \in DOMAIN f}

SumOf(f) == Cardinality(Entries(f))

\* "Incremented only on a confirmed ALLOW whose forwarded result is not an
\* error": the counter never runs ahead of the orders the broker executed.
CounterNeverAhead == counter # Null => counter.count <= SumOf(placed)

\* The counter never shows more than the forwards taken for a success, whatever
\* a forward is and however many servers increment the one file at once
\* (daily_count.py, increment_daily_count).
CounterBacked == counter # Null => counter.count <= SumOf(accepted)

\* With one server the counter that the gate compares with the caps is the one
\* DailyCounter describes, which the files of TradeCounter implement: it grows
\* by one, or belongs to a day that is over, whatever midnight or a crash falls
\* between the three steps of increment_daily_count.
Counter == INSTANCE DailyCounter WITH value <- ReadDailyCount

CountsDaily == Counter!Spec

Quiet == \A p \in Servers : At(p, "idle")

\* Every call leaves exactly one line in the ledger, except those that an
\* exception, a failed write or a crash ended.
CallsRecorded == Quiet => started = SumOf(ledger) + unrecorded

\* An order is never lost to the ledger: without a fault, an accepted
\* forward is one order_placed line.
AcceptedRecorded ==
  Quiet /\ faults = 0 => SumOf(accepted) = ledger["order_placed"]

\* A halt that stays, or a mandate that is gone for good, ends forwarding:
\* the calls in flight drain and no later one gets through.
NoForward == \A p \in Servers : ~At(p, "forward")

KillSwitchQuiesces ==
  \A s \in Sentinels : <>[](s \in halted) => <>[]NoForward

RevocationQuiesces == <>[](mandate = Null) => <>[]NoForward

\* A call that was received is answered.
CallReturns == \A p \in Servers : ~At(p, "idle") ~> At(p, "idle")
----------------------------------------------------------------------------
(***************************************************************************)
(* What the documentation says and the code does not do; each is refuted   *)
(* by a run of its own.                                                    *)
(***************************************************************************)

\* "mandate_snapshot_ref: which mandate authorized the action."
RecordNamesAuthority ==
  \A p \in Servers : At(p, "append") /\ Allowed(p) =>
    call[p].reloaded = call[p].loaded

\* "The forward never placed an order (broker envelope error)."
PlacedOrdersRecorded ==
  Quiet /\ faults = 0 => SumOf(placed) <= ledger["order_placed"]

\* "An amend that increases notional is enforced on the larger of (new
\* notional, new_qty x live price)."
AmendedWithinCaps ==
  \A p \in Servers :
    Allowed(p) /\ call[p].tool = "amend_order" /\ BrokerAccepts(p) /\ ~Raises(p)
      => RequestWithinCaps(p)
=============================================================================
