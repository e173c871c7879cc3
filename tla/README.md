# Verification of bybit-mcp

TLA+ models of bybit-mcp, TLC configurations that check them on small
instances, and theorems the TLA+ proof system checks. The repository holds two
programs: a Python MCP server (`src/bybit_mcp/`) that lets an agent trade under
a mandate, and the Go SDK (`*.go`) it grew out of. Paths below are relative to
the repository; `tools_order.py` and the like are under `src/bybit_mcp/`.

Contents: [the system](#1-the-system), [the models](#2-the-models),
[the runs](#3-the-runs), [fairness](#4-fairness), [proofs](#5-proofs),
[disagreements](#6-where-code-and-documentation-disagree),
[what is left](#7-not-modelled-and-planned).

## 1. The system

### Python: tools behind a mandate

| Part | State | Operations |
|---|---|---|
| Mandate gate: `safety/guard.py`, `mandate.py`, `extractors.py` | none of its own; reads the mandate file, the halt sentinels, the counter | `check`: load the mandate, its expiry, the two sentinels, price the intent, compare with the caps |
| Order tools: `server/tools_order.py` | the local variables of a call | six tools, each builds the arguments the gate judges and the request that is forwarded; `_gate_and_forward` runs the gate, forwards, counts, audits |
| Kill switch: `safety/halt.py` | `live/HALT`, `live/<broker>/HALT` | trip, clear, look (global first, then broker) |
| Daily counter: `safety/daily_count.py` | `trade_counter.json` and its temporary file | read (0 on any miss), increment (read, write a temporary file, rename) |
| Audit ledger: `safety/audit.py`, `redaction.py` | `audit.jsonl`, appended under an advisory lock | one record per decision |
| REST client: `client/rest.py`, `auth.py` | time offset, connection pool | sign, send, raise on an error envelope, a 5xx or a transport error |
| Read tools and start-up: `server/*.py` | none | one request per tool; a new gate and a new client per call |

All state that matters is in files, shared by every server process and by the
operator, who commits and revokes the mandate and trips the halts from outside.
`_gate_and_forward` has no `await`, so inside one server calls run one after
another. Between processes nothing is ordered: each looks at the files one at a
time while the others, the operator and midnight (UTC) change them.

What makes it correct: no order without a mandate that is on file, of the
right version and not expired; none past a halt; none larger than the caps,
however its size is spelled; no more a day than the mandate allows, across
midnight, crashes and errors of the broker; a ledger that tells what happened;
and a kill switch that actually stops what is under way.

### Go: an SDK

| Part | State | Operations |
|---|---|---|
| REST client: `client.go`, `time_service.go`, `response.go` | credentials, base URL, time offset; copied by value behind `V5()` and `Derivative()`, each copy with its own response check | builders (`WithAuth`, `WithAuthRSA`, `WithBaseURL`), `SyncServerTime`, seven helpers that sign and send, `Request`, which turns a reply into a result or an error |
| endpoints, v5: `v5_*_service.go` | none | 51 functions: checks of the parameter, one request, decoding of the result |
| endpoints, legacy: `spot_v1.go`, `future_*.go`, `derivative_*.go` | none | 83 functions, the same; GETs and DELETEs in the query, POSTs as a form or as JSON |
| v5 websocket services: `v5_ws_*.go` | handler maps (one per stream), one connection, the write lock | subscribe, the function it returns to unsubscribe, `Login`, orders, `Start` (a reader goroutine, pings every 20 s, cancellation), `Run`, `Ping`, `Close` |
| spot v1 websocket services: `ws_spot_v1*.go` | the same maps, no lock and no deadline | the same, without a close of the connection |
| websocket client: `client_web_socket.go` | base URL, credentials | `Start` over several executors, the login message |
| enums and types: `enum*.go`, `v5_enum.go` | none | |

A REST call is a straight line: check, read the credentials and the clock of
the handle, sign, send, decode. What is hard is what it rests on. The owner
configures one `Client` and takes handles from it that are copies, in any order;
three generations of the API answer in two envelopes, and each handle reads
one; one helper signs a text it prints a second time; a result is decoded after
the server has acted, some of its rows by hand. What makes it correct: success
means the server did it; the errors that may come after it did are told apart from
those that mean it did not; a request is signed by what the owner configured and
stamped with the server's time.

Application goroutines subscribe and unsubscribe on the websocket services while
a reader looks handlers up and `Start` pings. The write lock of the v5 services
covers the connection; nothing covers the maps, and the spot services have no
lock. What makes them correct: writes exclude each other; what a handler gets
was meant for it; a topic the server streams has a handler until the server has
been asked to stop, for a message without one ends the reader; a refused login
does not go unnoticed; and `Start` returns when cancelled and leaves no goroutine
behind.

The hazards, each at the line where it bites, and the properties aimed at it
are listed in `PROJECT.json` under "hazards".

## 2. The models

| Module | Models | Used by |
|---|---|---|
| `MandateGate` | the arithmetic of the gate: extractors, pricing, `_check_mandate`; operators only | `OrderTools` |
| `OrderTools` | the six tools: what the gate is shown, what is sent | `LiveGate` |
| `LiveGate` | servers, operator, clock and broker over the shared files | `MCLiveGate`, `LiveGate_proofs`, `LiveGate_counts` |
| `TradeCounter` | the counter's files: names, open files, truncation, rename, crash | `MCTradeCounter`, `TradeCounter_proofs` |
| `DailyCounter` | what the counter promises; refined by `TradeCounter` and by `LiveGate` with one server | `TradeCounter`, `LiveGate` |
| `WsService` | one v5 websocket service: application, reader, `Start`, network, server | `MCWsService`, `WsService_proofs` |
| `WsRouter` | the six websocket services: topics, keys, logins, replies, the dispatch of `Run` | `MCWsRouter`, `WsRouter_proofs` |
| `WsExecutors` | `Start` over several services, v5 and spot, behind one reader | `MCWsExecutors`, `WsExecutors_proofs` |
| `EndpointKinds` | what a REST function is: its checks, its helper, its decoder; operators only | the two tables, `RestClient` |
| `V5Endpoints`, `LegacyEndpoints` | the tables: a record per function | `MCRestClient` |
| `RestClient` | a `Client`, its handles, its clock, and callers that run the functions of the tables | `MCRestClient`, `MCRestClock`, `RestClient_proofs` |
| `LiveGate_proofs`, `LiveGate_counts`, `TradeCounter_proofs`, `WsService_proofs`, `WsExecutors_proofs`, `RestClient_proofs`, `WsRouter_proofs` | theorems and proofs about these modules | |
| `MC...` | the small values of the constants; `MCRestClock` also the facts about the tables that three theorems need | the runs |

A definition named `...Bug` is no part of a model. It is the definition below
it with a plausible mistake, and some property must fail once it takes its
place (`PROJECT.json`, "mutants").

### LiveGate

One action is one access to something shared; what a server computes between
two accesses belongs to the first of them.

| Code | Action, and `pc` before it |
|---|---|
| a tool is called; `intent_extractor(tool_args)` | `ReceiveCall`, idle |
| `load_mandate`, schema version | `LoadMandate`, load |
| `_is_expired` | `CheckExpiry`, expiry |
| `halt_flag_set`: two `exists()` | `CheckGlobalHalt`, `CheckBrokerHalt`, halt_global, halt_broker |
| `_normalize_intent_notional` | `Price`, price |
| `read_daily_count`, `_check_mandate` | `CheckCaps`, count |
| `forward()` | `MakeCoroutine`, or `BrokerConfirms`, `BrokerFails`, `AnswerLost`, `ForwardRaisesOut`, forward |
| `record_success`: `_utc_today`, `read_daily_count`, rename | `TakeDate`, `ReadCounter`, `ReplaceCounter`, today, read, write |
| `load_mandate` again, for the record | `ReloadMandate`, reload |
| `audit_decision` | `AppendLedger`, append |
| the process dies, or a write raises, anywhere | `CutShort` |

`mandate`, `halted`, `counter` and `ledger` are the files; `call[p]` holds the
local variables of the handler. `held`, `onFile` and `stale` remember what was
so during the call and are read by no action; `placed` is what the broker did,
`accepted` what the servers believed. `MaxTally` stops the history counters where
a run does not ask about them; it is `Null` in the runs that do, and the counters
then count everything. A sum over days or lines is the number of `Entries` of the
function, one for each order or line.

The counter's file is one variable here, read and replaced at once:
`TradeCounter` is where the file operations are. What ties the two together is
`DailyCounter`: with one writer the file operations implement it (`Refines`), and
with one server so does the count this model's gate compares (`CountsDaily`).

Two constants choose between what the code does and what it documents.
`Forwards = {"coroutine"}` is the code as registered: every tool passes an
`async def _forward`, and `_gate_and_forward` calls it without awaiting, so
`forward()` only makes a coroutine. `Forwards = {"call"}` is the contract of
`tools_order.py:93`, "zero-arg callable that actually calls the broker"; what
follows the forward is reachable in the code only by a caller that honours it.
`Quotes = {Null}` is the gate `make_gate` builds (`state.py:41-43`), which has
no `quote_lookup`, so an order with a quantity is always denied; other values
are a gate constructed with one. The runs use both, and say which.

Money, prices and quantities are integers; the code's floats add rounding that
no rule depends on. Text that is no number is one of `Empty`, `Junk`, and a
cap may be `NaN`. A mandate carries the numeric caps, its version, its universe
and a `tag` that tells two mandates with equal caps apart. Order types, prices,
flags and the wording of refusals are left out, for no rule reads them.

### TradeCounter and DailyCounter

A path names a file, or none; a process that opened a file keeps it whatever
becomes of its name. `write_text` truncates what the temporary path names, then
writes; `replace` moves the name. The model lets `Crash` fall between any two
of these and `Midnight` too. `DailyCounter` is a number that grows by one at a
time and starts again at midnight; the refinement maps it to what
`read_daily_count` would answer now.

### WsService

| Code | Actions |
|---|---|
| `subscribeKlines`: for each key, `addParamKlineFunc`, then one write | `Begin`, `CheckKey`, `AddKey`, `UserLocks`, `Subscribed`, `SubscribeFails` |
| the function it returns | `Withdraw`, `UserLocks`, `Unsubscribed`, `UnsubscribeFails`, `RemoveKey` |
| the goroutine of `Start`: `Run` until an error, then the error handler, `connection.Close`, `close(done)` | `Receive`, `ReadFails`, `ReadTimesOut`, `LookUp`, `Handle`, `ReportError`, `CloseConnection`, `CloseDone` |
| `Start`'s select, `Ping`, `Close`, the last second | `OnDone`, `OnTick`, `OnCancel`, `StarterLocks`, `Pinged`, `PingFails`, `CloseSent`, `CloseFails`, `StopWaiting` |
| two goroutines in a map, one writing: the runtime may abort | `ConcurrentMapAccess` |
| context, clock, network, server | `Cancel`, `DeadlinePasses`, `LoseConnection`, `Serve`, `Stream`, `ServerCloses` |

The kline file is the one translated line by line; the ticker file has the same
shape, and the other topics subscribe to a single key (`WsRouter` has them all). A message is its topic;
a pong, an acknowledgement or any message without a topic is `"pong"`, which
`Run` ignores. A write fails when the connection is closed here, after a close
frame or an earlier failure, when the peer is gone, or at its deadline with the
buffers full; after that gorilla fails every write. The connection, gorilla and
the server are external and modelled from how the services use them.

### WsRouter

`WsService` is about goroutines; `WsRouter` is about what is said. A behaviour
runs one of the six services: v5 public, private and trade, spot public v1 and
v2, spot private. A step of the application, of the server or of the reader is
atomic, and the connection stays up.

| Code | Actions |
|---|---|
| `addParam...Func` and the subscription; the function it returns | `Subscribe`, `Unsubscribe` |
| `RegisterFuncOutboundAccountInfo`, which sends nothing | `RegisterFunc` |
| `Subscribe` of the private services, `Login`: `buildAuthParam` | `Login` |
| `CreateOrder`, `CancelOrder` of the trade service | `SendOrder` |
| `Ping` of the v5 services | `Ping` |
| `Run`: parse, `judgeTopic`, retrieve the handler, call it | `Run`; one `Run...` operator per service |
| a message `judgeTopic` cannot unmarshal | `RunGarbled` |
| the server | `Serve` (`Grant` or `Refuse`), `Publish` |

A topic is the sequence of the parts between its dots, a key what the handler
map is indexed by; `Topic` and `Key` translate the functions of those names, with
the zero key for a topic that has not the stream's shape. `JudgePublic` finds a
stream the way `judgeTopic` does, by looking for its name anywhere in the topic,
in that order. A message is its type, its topic, the `success` it reports and,
on the private spot service, the number of events in its array. What differs
between the services is kept: v5 public looks at no reply; v5 private and trade end
on a reply without success; spot v1 hands any message with a topic to a handler,
v2 all but the reply to a subscription; the private spot service insists on
one event to a message.

A message need not fit the types it is read into. `Run` takes each in one of three
`Forms`: it fits; its data do not, so that `parseResponse` fails; or it lacks the
text that `judgeTopic` asserts of a refusal (`ret_msg`) or of a private spot event
(`e`), and the assertion panics. A message that is no JSON object at all waits in no
queue: it may be the next the reader takes at any time (`RunGarbled`). Once the
reader has ended the server's steps are of no consequence and stop. The server is
external: its refusal of a login or a subscription carries `success`, as
`v5_ws_private.go:95` and `v5_ws_trade.go:59` read it, and its answer to an order
does not.

### WsExecutors

`Start` of `client_web_socket.go` runs any number of services behind one reader
goroutine, which calls `Run` of each in turn and waits for its message before it
goes to the next.

| Code | Actions |
|---|---|
| the goroutine: `for { for each executor { Run } }` | `Read` (and `NextTurn`), `ReadFails` |
| the select: `done`, the ticker, `ctx.Done()` | `OnDone`, `OnTick`, `OnCancel` |
| `Ping` of each, `Close` of each, in the order of the list | `BeginWrite`, then `Pinged`, `PingFails`, `Closed`, `CloseFails` |
| the last second | `StopWaiting` |
| a goroutine that subscribes | `Subscribe`, `Subscribed` |
| servers and network | `Send`, `Stall`, `Resume`, `ServerCloses`, `Lose` |

A write is in two steps, so that another may begin in between. On a v5 service
(`Locked`) the second waits for the lock; on a spot service it enters, and
gorilla may notice and panic (`aborted`). A v5 write to a server that reads
nothing fails at its deadline; a spot write waits. There is no read deadline here
and nobody closes a connection.

### RestClient and the endpoint tables

A row of `V5Endpoints` or `LegacyEndpoints` is a function of the SDK as its caller
meets it: the categories it accepts, the facts about its parameter it requires
or forbids, the helper it sends through, its path, how it decodes its result and for
which categories the result type is right, whether its JSON body carries numbers,
and by which names it addresses an order. `Accepts` and `DecodeResult` give these
their meaning; `Params` and `Shapes` are what a caller may pass and what a server
may make of the result.

Decoders follow `encoding/json`. Every result can fail: a value of another JSON type
than its field, such as a text for an int (`future_inverse_future.go:305`) or a
time in another format (`v5_user_service.go:145`), is an error, and null or nothing
in its place leaves the zero value. Results that choose a type by the category they
name fail on another category. Rows decoded by hand differ: where elements are
asserted to be texts, null or a number panics; where they are unmarshalled to
strings, a number is an error and null is `""`; and where nobody counts, a short
row panics and a long one passes.

| Code | Actions |
|---|---|
| `WithAuth`, `WithAuthRSA`, `WithBaseURL` | the same names |
| `V5()`, `Derivative()`: a copy, with another response check | `V5`, `Derivative` |
| a function up to the request: its checks, `hasAuth`, the URL, timestamp and signature | `Call`: `Stop` or `Send` |
| `SyncServerTime` | `SyncServerTime`, `ReceiveTime` |
| the rest of `Request`: status, response check, decoding | `Receive`, or `Fail` when the transport does |
| the call returns; a panic ends the process | `Return`, `Restart` |
| the server; its clock, the local clock | `Serve`; `Tick`, `ClockStep` |

`client[h]` is the `Client` behind a handle, and `"none"` a handle not yet made.
`request` is what a caller has under way, with the credentials and the time it
was built from. A number is its decimal exponent, which is all that decides
whether `encoding/json` and `%v` print it alike. `synced` and three fields of
`request` remember when the offset was taken, and for which handles; no action's
guard reads them. A service keeps the handle it was made with, so a
later builder call on the base does not reach it; the copies are made from the
base only, as `V5()` and `Derivative()` are called in the repository.
The server is external: it verifies the signature over what it received and
answers with any status, any code, any shape of result. A reply remembers whether
the server did what it was asked (`done`). Assumed of it: an envelope with a code
other than zero, and the statuses 400, 401, 403 and 404, mean that it did not; any
other status may mean either; and a 200 with a body that is not JSON may come after
the fact too.

## 3. The runs

Every property of a passing run has a mutant of the code that violates it under
the same configuration. States are distinct states.

### Passing

| Run | Checks | Bounds, and why they are enough |
|---|---|---|
| `LiveGate_inputs` | `TypeOK`, `PlacedWithinCaps` | One server, files unchanged during a call. Spellings that fold to the same symbol and the empty one; quantities and notionals that are zero, negative, empty, not numbers, below, at and above each cap; quotes missing, zero, not a number; one mandate for each rule that can bind first. The counter keeps every value a call can leave. |
| `LiveGate_operator` | `HaltBlocks`, `AuthorizedByMandate`, `KillSwitchQuiesces`, `RevocationQuiesces`, `CallReturns` | One server with any number of calls (a call reads no other server's locals), three mandates (one renewed, one of another version), both sentinels, the clock; no history counters, so the graph is complete. |
| `LiveGate_two_servers` | `CounterNeverAhead`, `AcceptedRecorded` | Two servers, two calls, two days, forwards that call the broker: the least in which two increments overlap, and midnight falls between them. |
| `LiveGate_daily_cap` | `DailyCap`, `CallsRecorded`, `CountsDaily` | One server, three calls, two days, one crash or failed write, caps of 0 and 2, forwards that call the broker: a call more than the cap, one on the next day, one forgotten, and a count of yesterday that a careless date would carry into today. |
| `TradeCounter_one_writer` | `WholeFiles`, `ImplementsDailyCounter` | A writer and a reader, three files (live, temporary, and one still open under no name), three days, counts to 3. |
| `WsService_keys` | `TypeOK`, `StreamHasHandler`, `MissExplained` | One goroutine, lists of one and of two keys that overlap; one request and one message under way, so that both buffers fill. |
| `WsService_lifecycle` | `OneWriter`, `CleanReturn`, `CancelReturns`, `ReaderEnds` | One key; cancellation, loss, closing and deadline at every point. |
| `WsRouter` | `TypeOK`, `OwnHandler`, `EndExplained`, `AuthVerifies`, `RefusalSurfaces` | The six services; sixteen channels: one of every stream, and order books that differ in depth only, spot channels that differ in the symbol. Two subscriptions, logins or orders, and two messages under way each way, of every form: a reply overtaken by a second subscription, a message behind an unsubscription, a refusal behind data. Every credential one or two of `WithAuth` and `WithAuthRSA` leave. |
| `WsExecutors` | `TypeOK`, `PanicNeedsSpot`, `CancelReturns`, `TakesTurns`, `ReaderEnds` | One v5 and one spot executor, one subscribing goroutine beside `Start`: every pair of writers there is. Two messages may wait at each, so that one is held up while another arrives. |
| `RestClient_calls` | `TypeOK`, `SuccessMeansExecuted`, `SignatureVerifies`, `ExecutedReported`, `RateLimitTyped`, `IdentifiedOrder`, `LayoutMatches`, `MalformedRefused` | One caller (a call reads no other's variables, only the client) with all 134 functions and every parameter their checks tell apart, after up to three builder calls in any order: the least in which both kinds of credentials are set before a handle is taken. Exponents on both sides of each threshold of the two ways to print a number; every status the code names and one it does not; both rate limits and another code; every shape of result a decoder tells apart. Clocks agree: this run asks nothing of time. |
| `RestClient_clock` | `StampBounded` | Two callers that synchronise and send concurrently, one private function of the base and one of the v5 handle, two ticks of the server's clock, one step of the local clock either way, two builder calls. Every reply is a 200 without a code: what `StampBounded` reads of a reply is its time. |

What they show:

* `PlacedWithinCaps`: what `place_order` sends, priced at the quote, is within
  the order, exposure and leverage caps of the mandate that authorized it and
  its symbol is not excluded. A small `notional_usd` beside a large `qty`, or a
  symbol in another spelling, carries nothing past (the repository's H3, H4).
* `HaltBlocks`: a call during all of which one sentinel stays in place is not
  allowed. "One" matters: two looks at two files do not make one look, see
  section 6.
* `AuthorizedByMandate`: an allowed order rests on one mandate that was on file
  at some moment of the call and had not expired when it began. More does not
  hold: after `load_mandate` the file is not looked at again.
* `KillSwitchQuiesces`, `RevocationQuiesces`: a halt that stays, or a mandate
  that stays away, ends all forwarding, calls in flight included.
* `DailyCap`: one server never takes more forwards for successes in a day than
  some mandate allows, plus those whose count a crash cut off before it was
  written. The date is taken twice; the run shows midnight between the two does
  no harm.
* `CountsDaily`: with one server the count the gate compares with the cap is the
  abstract counter of `DailyCounter`: up by one at a time, zero again at midnight.
* `CounterNeverAhead`: with forwards that call the broker, the count on file is
  at most what the broker executed, whatever two servers race on.
* `CallsRecorded`, `AcceptedRecorded`: with no call under way, calls equal
  lines plus the calls an exception, a failed write or a crash ended; and
  accepted forwards are exactly the `order_placed` lines.
* `ImplementsDailyCounter`, `WholeFiles`: with one writer the file operations
  implement the abstract counter, and a reader never meets a torn file, also
  after a crash that left a truncated temporary file.
* `StreamHasHandler`: with one subscribing goroutine, a streamed topic has its
  handler or the request to stop is under way. It holds through lists whose
  second key is taken, writes that fail, and functions called twice. With two
  goroutines it does not hold: see section 6.
* `MissExplained`: only a topic somebody unsubscribed from can be missed.
* `OneWriter`, `CleanReturn`: pings, subscriptions and close frames exclude each
  other; when `Start` returns because the reader ended, the error handler has
  returned and the connection is closed.
* `CancelReturns`, `ReaderEnds`: a cancelled `Start` returns, whatever the
  server does, and however it returned the reader ends, by its read deadline if
  by nothing else.
* `OwnHandler`: a handler gets what was sent for the channel it is registered
  for, in every part of the topic, and it gets data. Two exceptions, both
  stated: spot v1 hands it any reply that has a topic, spot v2 the reply to a
  cancellation, which reaches it when the application has subscribed again.
* `EndExplained`: each way a reader can end has one of a few causes, so an
  application can tell what happened from the error; a message that was
  under way at an unsubscription is the one it cannot avoid. A message that cannot
  be decoded ends it too, if it is of a stream of the service or is no JSON; a panic
  takes a refusal without its text, or a private spot event without its name.
* `AuthVerifies`: whatever the two `WithAuth`s left behind, a login that leaves is
  signed with the credential configured last.
* `RefusalSurfaces`: where there is a login, a refused login or subscription ends
  the reader, whatever is queued before it.
* `PanicNeedsSpot`: v5 writes never overlap, also behind the common `Start`; a
  panic of gorilla takes two writers on a spot service, and there it happens.
* `CancelReturns` (of `WsExecutors`): `Start` returns although the reader is blocked
  on a silent executor, provided the servers of spot services read what is
  written to them; without a write deadline that has to be assumed.
* `TakesTurns`: a message is read when each other executor goes on to
  receive; the converse hazard, a silent executor blocking the others, is why
  this has to be assumed.
* `ReaderEnds` (of `WsExecutors`): when `Start` gives up waiting after a second it
  has closed every executor, and the reader it leaves behind ends when the
  servers answer.
* `SuccessMeansExecuted`: no error means that the server carried the call out,
  whatever was configured in whichever order. Two exceptions, both in the code
  and stated: `GetServerTime` through a base client, and `postForm` with a URL
  that does not parse.
* `ExecutedReported`: when the server carried out a private call, its caller is told
  so or gets one of three errors: the reply was lost; a status the code does not
  name; or a decoder's, of a reply that does not fit its type, in which case the order
  exists and the caller sees an error (`client.go:183`). Every other error means
  that nothing was done, and no decoder of a private result panics.
* `RateLimitTyped`: the codes each handle takes for a rate limit, exactly, of every
  reply that is JSON.
* `SignatureVerifies`: exactly when the server can verify a request. It can,
  but for the helpers before v5 under RSA credentials, and JSON bodies before v5
  with a number that `%v` prints in another way.
* `IdentifiedOrder`: a request that changes one order names it, but for five
  legacy functions that do not look (the constant `Unnamed`).
* `LayoutMatches`: a result is decoded by the type of its category.
* `MalformedRefused`: a result that does not fit is an error or a panic, with three
  exceptions, which are handed on as data: null or nothing in the place of a value;
  null in a row whose elements are unmarshalled to strings (order books,
  `v5_market_service.go:548`, `spot_v1.go:100`); and a row too long for the decoder
  that does not count.
* `TypeOK` (of `RestClient`): also that no two handles share a response check.
* `StampBounded`: after a synchronisation, a request on a handle that has its
  offset is stamped at most as much behind the server's clock as the reply took
  to arrive, and never ahead of it, though clocks differ and calls overlap.

The websocket runs turn deadlock checking off because the program may stop:
when the runtime or gorilla aborts it, or the reader has ended and `Start` has
returned.

### A violation

It refutes a sentence of the repository; see "findings".

| Run | Property | What happens |
|---|---|---|
| `LiveGate_counts_coroutine` | `CounterNeverAhead` | The code as registered: `forward()` returns a coroutine, which is taken for a result; the count is consumed, `order_placed` is recorded, and nothing was sent. |

### Further instances

Four configurations beside the runs show disagreements TLC finds in the same way.
Each is checked by hand, for example with
`tlc -config LiveGate_amend_qty.cfg MCLiveGate`, and ends in a counterexample.

| Configuration, module | Property | What happens | What the repository says |
|---|---|---|---|
| `LiveGate_amend_qty`, `MCLiveGate` | `AmendedWithinCaps` | The gate judges `new_qty` (`tools_order.py:306`), the request sends `qty or new_qty` (`:321`). | `tools_order.py:283`: "an amend that increases notional is enforced on the LARGER of (new notional, new_qty × live price)" |
| `LiveGate_snapshot_ref`, `MCLiveGate` | `RecordNamesAuthority` | The mandate is loaded again after the forward (`tools_order.py:154`); when it was replaced meanwhile the record names the new one. | `audit.py:89`: "Which mandate authorized the action." |
| `LiveGate_lost_answer`, `MCLiveGate` | `PlacedOrdersRecorded` | The order is executed, the answer is lost (`tools_order.py:135`), the ledger says rejected. | `tools_order.py:136`: "The forward never placed an order (broker envelope error)" |
| `TradeCounter_torn`, `MCTradeCounter` | `WholeFiles` | Two writers share one temporary file (`daily_count.py:53`); one renames it while the other has truncated it. | `daily_count.py:44`: "(atomic write)" |

`LiveGate_amend_qty` and `LiveGate_lost_answer` assume a forward that calls the
broker, and the former a gate with a quote.

## 4. Fairness

`LiveGate`: weak fairness of each server's `Step`. A handler has no `await`, its
file accesses do not block, and the client's requests have a timeout, so a call
that began goes on. Nothing is assumed of the operator, the clock, the arrival
of calls or crashes.

`WsService`: weak fairness of the reader's steps, of each call's steps and of
`Start`'s writes (they have deadlines) and last second (`time.After`): goroutines
run, and handlers return. Strong fairness of `Start`'s select choosing a ready
case and of `Start` obtaining the lock: Go chooses at random among ready cases,
and its mutex starves no waiter. Weak fairness of the read deadline once `Start`
has returned, for then nobody pings, pongs end and 60 seconds pass. Nothing is
assumed of the server, the network or the application.

`WsRouter`: weak fairness of `Serve` and `Run`: the server answers what it gets
and the reader goes on reading. Nothing is assumed of the application, and a
server need publish nothing.

`WsExecutors`: weak fairness of the goroutines and of the reader; of writes that
come back, which those of a v5 service do by their deadline, and those of a
spot service while its server reads; of the last second. Strong fairness of `Start`
choosing a ready case, of its obtaining a lock, for the reasons above. Weak
fairness of a server's answer to a close frame, which a server that stalls
does not owe. What `CancelReturns`, `TakesTurns` and `ReaderEnds` need of servers
beyond that is a premise of the property, where the reader sees it.

`RestClient` states no liveness: a REST call has no deadline of the SDK's own
(section 6).

## 5. Proofs

The theorems hold for every value of the constants that meets the named
assumptions; each component's theorems are in a module of their own.

### LiveGate

`LiveGate_proofs` proves, for any servers, mandates, tool calls, quotes and
bounds, from the named assumptions about the constants (`FoldAssumption`:
folding a symbol is idempotent; `ValueAssumption`, `IntentAssumption`: markers
such as `Null` are not numbers, symbols or intents; `LiveGateAssumption`: the
sets hold what their names say):

| Theorem | States |
|---|---|
| `TypeCorrect` | `Spec => []TypeOK` |
| `KillSwitch` | `Spec => []HaltBlocks` |
| `Authority` | `Spec => []AuthorizedByMandate` |
| `Caps` | `Spec => []PlacedWithinCaps` |

The argument. `TypeOK` is not inductive: that `Price` finds an intent, or
`ReplaceCounter` a date, depends on where the server stands. `Locals` says what
each label implies about the local variables, in particular that the intent the
gate works on is the one extracted from the call's own parameters, and from
"count" on that intent priced at the quote. `TypeInv` is `TypeOK` with `Locals`
for every server and is preserved by each action (one lemma per group of
actions; `MovesInv` and `LocalInv` cover all that change one server's label and
locals only). On it rest three more parts:

* `HaltSeen`: behind the look at a sentinel, that sentinel is not among those in
  place ever since the call began. An operator's trip adds nothing to `held`,
  and a clearing only removes, so a look that found nothing stays valid.
* `MandateSeen`: a mandate on file during a call is in `onFile`; behind
  `LoadMandate` the loaded one is there and has the right version; behind
  `CheckExpiry` it was not expired at the start, since mandates never unexpire.
* `PricedRight`: at the step that allows an order, the notional compared with
  the caps is at least the quantity sent times the quote, so what passes the
  caps is within them. This is where `NormalizeIntentNotional` taking the larger
  of the two, and the folding of symbols on both sides, are used.

`LiveGate_counts` proves what `LiveGate` counts, from the same assumptions and
`FileAssumption` (`Null` is no counter file). Each hypothesis of a theorem names
a case the code has: `Counting` (`MaxTally = Null`) that the history counters
count without a bound, `OneServer` that one process serves.

| Theorem | Under | States |
|---|---|---|
| `Recorded` | `Counting` | `Spec => []CallsRecorded` |
| `SuccessesRecorded` | `Counting` | `Spec => []AcceptedRecorded` |
| `CountsSuccesses` | `Counting` | `Spec => []CounterBacked` |
| `WithinDailyCap` | `Counting`, `OneServer` | `Spec => []DailyCap` |
| `CountsToday` | `OneServer` | `Spec => CountsDaily` |

`CounterBacked` bounds the count on file by the forwards taken for a success. It
holds of the forward the tools register, where a coroutine is taken for one, as well
as of one that calls the broker; no run checks it, but TLC was run on it by hand with
two servers, both kinds of forward and a crash. What the run `LiveGate_two_servers`
checks, `CounterNeverAhead`, is its corollary (`NeverAhead`) where a forward calls the
broker, for there a success is an executed order; of the registered forward it is
false, and `LiveGate_counts_coroutine` is the counterexample. `OneServer` is
needed: two servers may read the same count (section 6).

The argument. An order or a line is one entry of a set (`Entries`), so a sum is a
cardinality and a step adds one element; no induction over data is called for.
`Finite` says the sets are finite.

* `LedgerInv`: a call received is a line, is among the unrecorded, or is under way
  (`Busy`); a success taken is an `order_placed` line or is owed one by a server
  that stands between its forward and its line (`Owed`). `LedgerStep` is that
  balance for one step, `LedgerBalance` adds it up.
* `AheadInv`: the count on file leaves room below the successes taken for each
  one that is not yet counted (`Uncounted`), and a count about to be
  written leaves room for the others. A count that another server overwrites is
  lost, which only adds room.
* `DayInv`: with one server, today's successes are at most those forgotten, those
  `read_daily_count` answers now, and the one not yet counted; at the forward, one
  more is within the cap of the mandate that was loaded; a count whose day is over
  finds no success of today to lose.
* `FileInv`: the file is of no day later than the one a call has taken, which is
  not later than today; while that is today, the count about to be written is the
  next one. A write is then the abstract increment or, its day being over, changes
  nothing the gate reads; midnight leaves only a file of a day gone by.

### TradeCounter

`TradeCounter_proofs` proves, from `TradeCounterAssumption`, for any files, days,
readers and bounds, `TypeCorrect` (`Spec => []TypeOK`, for any number of writers:
its invariant `Opened` adds that whoever is about to write has a file open) and,
when one process writes (`Single`):

| Theorem | States |
|---|---|
| `AtomicWrite` | `Single => (Spec => []WholeFiles)` |
| `Refines` | `Single => (Spec => ImplementsDailyCounter)` |

The assumption is needed: `TradeCounter_torn` is the counterexample with two.
The argument. `Apart`: the live and the temporary path never name one file, so
truncating the one leaves the other alone. `WriterOwns`: between `OpenTmp` and
the rename the temporary path names the writer's own file, which after the
write is whole and holds the next count. `WriterKnows`: the date the writer took
is not in the future, and if it still is today then so is the count it read.
With these a rename is the abstract increment (or, the day having passed in
between, changes nothing a reader sees), midnight is the abstract midnight, and
every other step a stutter.

### WsService

`WsService_proofs` proves, from `WsAssumption`, for any goroutines, topics, lists
of keys and buffer sizes:

| Theorem | States |
|---|---|
| `TypeCorrect` | `Spec => []TypeOK` |
| `Exclusion` | `Spec => []OneWriter` |
| `Misses` | `Spec => []MissExplained` |
| `Handled` | `OneUser => (Spec => []StreamHasHandler)` |
| `Clean` | `Spec => []CleanReturn` |

The argument. `TypeOK` is inductive here. `Exclusive` adds that whoever writes,
or pings, is the one the lock names. `Explained` follows a topic on its way, from a
subscription in the call (`CallBacked`), through the requests and messages under
way (`WireBacked`), to the reader's lookup (`ReaderBacked`): at each of these it
is registered or was withdrawn. The set of such topics never shrinks
(`BackedGrows`), so only the step that moves a topic on has anything to show.
`Settled`, for one goroutine, is stronger: a topic that is streamed, requested or
held by the call is still registered unless an unsubscription for it is under
way, behind which no other request waits; what is lost with the connection is
asked for no more. `OneUser` is needed: section 6 says what two goroutines can
do to one key. `Deferred`, for `Clean`: the reader closes the connection before it
is done, a connection that is closed stays closed, and `Start` takes `done` only
from a reader that is.

### WsRouter

`WsRouter_proofs` proves, for any of the six services, any channels and any
bounds:

| Theorem | States |
|---|---|
| `TypeCorrect` | `Spec => []TypeOK` |
| `Own` | `Spec => []OwnHandler` |
| `Explained` | `Spec => []EndExplained` |
| `Verifiable` | `Spec => []AuthVerifies` |

The assumptions: `ServicesAssumption`, the services are those of the repository;
`RouterAssumption`, the bounds are numbers; `ChannelsAssumption`, a channel has a
stream of `Streams`, as many parameters as it asks for, and no parameter called
like a stream. The last is what the code relies on: `judgeTopic` looks for a name
anywhere in the topic, so that a symbol called `kline` would be judged by it.
Bybit's symbols and intervals are upper case or digits.

`Forms`, what a message may be like, is a definition and no assumption.

The argument. `IInv` is the type of every variable (`TypeInv`), what is on its way
(`WireInv`), `OwnHandler` and `EndExplained`. `WireInv` traces every topic on its
way, in a request or in a message, to a channel that is registered or was
(`Known`), says which service a message of each type can be meant for, and that a
message without success is of a refusal. Then the reader's step is a matter of
the dispatch alone: `TopicContains` and `PublicOrder` show that the order in which
`judgeTopic` tries the names finds the stream of the topic, `KeyOfTopic` that its
key is the channel's, and `RunOutcome` gathers what a service does with a message:
ignores it, hands it to that handler, or ends with one of the causes of
`EndExplained`. One lemma per action carries `IInv` through the rest.

### RestClient

`RestClient_proofs` proves, for any callers, functions, numbers, replies and
bounds:

| Theorem | Hypothesis | States |
|---|---|---|
| `TypeCorrect` | | `Spec => []TypeOK` |
| `Success` | | `Spec => []SuccessMeansExecuted` |
| `Signed` | | `Spec => []SignatureVerifies` |
| `Limited` | | `Spec => []RateLimitTyped` |
| `Refused` | | `Spec => []MalformedRefused` |
| `Stamped` | | `Spec => []StampBounded` |
| `Reported` | `Quiet(f)` for all functions | `Spec => []ExecutedReported` |
| `Matched` | `Fits(f)` for all functions | `Spec => []LayoutMatches` |
| `Identified` | `Identifies(f)` for all but those of `Unnamed` | `Spec => []IdentifiedOrder` |

The assumptions: `FunctionAssumption`, a function has a helper, a handle and a
decoder of `EndpointKinds`; `ServerTimeAssumption`, `GetServerTime` is public and
of the base client; `OwnerAssumption`, the owner has one HMAC secret or none;
`RefusalAssumption`, a refusal has a code other than zero; `NumberAssumption` and
`BoundAssumption`, exponents, times and bounds are integers. The three hypotheses
are facts about the rows of the tables: a private function has no decoder that
asserts or indexes (its result may still fail to decode, and `Reported` says what the
caller sees then), a function lets through the categories its type fits, and makes
the caller name the order. `TablesAssumption` of `MCRestClock` states them of all 134
functions, and TLC evaluates it: the tables are finite, so nothing is left out.

The argument. `IInv` gives a handle the checker of the builder that made it and the
key of the kind of credentials it uses (`ClientInv`), and each call one of four
states (`CallInv`): idle; a request that passed the checks, with what decides
whether it verifies and how its stamp lies (`IsRequest`); a reply that answers it
(`IsReply`); or an outcome that is the `Verdict` of that reply by the handle's
checker, or of a call that never left. `client` changes under a call that is under
way, so `IInv` keeps what a request was built from and not the client it was built
from; that a handle's checker never changes (`CheckerOf`) is why the verdict can
be stated by the handle. `ClockInv` ties the offset of a handle in step to what the
last synchronisation took, while the local clock was not set; it needs that
`synced.steps` is never ahead of `steps`, without which a later setting of the
clock could bring a handle back in step.

### WsExecutors

`WsExecutors_proofs` proves, from `ExecutorsAssumption`, for any list of executors, v5
or spot, any number of goroutines and any bound on what waits:

| Theorem | States |
|---|---|
| `TypeCorrect` | `Spec => []TypeOK` |
| `Exclusion` | `Spec => []PanicNeedsSpot` |
| `Closing` | `Spec => []AllClosed` |

The argument. `TypeOK` and `PanicNeedsSpot` are inductive together. `EnterAlone` is
the heart of the latter: to enter a v5 service is to find nobody there, and to
make gorilla panic on a spot service is to find somebody. `AllClosed` (when `Start`
gives up waiting, every executor has its close frame) is the safety half of
`ReaderEnds`; it rests on `ClosedInOrder`, that those before the executor at hand
are closed, and on `SentStays`, that no step takes a close frame back.

### Only model-checked

Every safety property of the passing runs is a theorem, `CounterNeverAhead` under the
hypothesis of its run. TLC alone checks:

* what holds under `FairSpec`: `KillSwitchQuiesces`, `RevocationQuiesces` and
  `CallReturns`; `CancelReturns` and `ReaderEnds` of both websocket modules,
  `TakesTurns`, `RefusalSurfaces`. Liveness and ENABLED are out of TLAPS's reach;
  `AllClosed` of `WsExecutors` is the safety half of one of them;
* the facts about the tables (`TablesAssumption`), on every row;
* that no action is left out: each fires in some run, and deadlock is absent where
  the program can not stop.

No module with a theorem reaches a RECURSIVE operator.

## 6. Where code and documentation disagree

Beyond those of section 3, met while modelling and visible in the definitions.

The Python server:

* `make_gate` passes no `quote_lookup` (`state.py:41-43`), so every order with a
  quantity is denied for want of a price; amendments of the price only have
  no notional and are denied too (`guard.py:299`, `extractors.py:125`).
* `cancel_order` hands the gate no side, and the extractor refuses an intent
  without one: every cancellation is refused (`tools_order.py:365`). The same
  holds of `set_leverage` and `set_trading_stop`.
* A cap of NaN is never exceeded (`mandate.py:130`, `guard.py:304`), although
  `guard.py:10` calls the gate fail-closed.
* A `ValueError` of the client leaves no record (`rest.py:441`); `README.md:123`
  says every decision writes one.
* When the operator moves a halt from the broker's sentinel to the global one,
  a call can look at the global before and at the broker's after
  (`halt.py:91`), although a halt was in place throughout.
* Two servers may read the same count: together they can exceed
  `max_trades_per_day` (`daily_count.py:50`), and the second rename may find no
  temporary file and raise (`daily_count.py:59`).

The Go SDK:

* `NewClient` uses an HTTP client without a timeout (`client.go:62`) and no
  helper takes a context: a call may wait for ever.
* A handle is a copy (`client.go:134`): `SyncServerTime` or `WithAuth` after `V5()`
  has no effect on v5 calls of that handle.
* The helpers before v5 sign with the HMAC secret whatever was configured
  (`client.go:220`, `:236`); `client_rsa_test.go:91` says of `WithAuthRSA` that "The
  client will automatically use RSA signatures instead of HMAC".
* `GetServerTime` of a base client does not read the envelope it is answered in, so a
  refusal passes for success with a zero time; `SyncServerTime` checks for it.
* The text that `populateSignatureForBody` signs prints numbers with `%v`: 1e+06
  where the body says 1000000 (`client.go:342`).
* `postForm` returns nil when the base URL does not parse (`client.go:527`).
* A result is unmarshalled after the server has acted (`client.go:183`): a field of
  another type than expected turns an order that exists into an error, and nothing in
  the error says so.
* Null in a row of an order book becomes an empty price or size
  (`v5_market_service.go:548`, `spot_v1.go:100`, `derivative_common.go:35`); a short
  row of the last panics (`derivative_common.go:43`).
* A 400 is wrapped with `%v` (`client.go:190`), so `errors.Is` does not find
  `ErrBadRequest`, as it does its three siblings.
* `CancelAllOrders` of spot orders reports failure as `"success": "0"` in the
  result (`v5_order_service.go:369`), which the SDK hands on as a success; the tag
  of `ReduceOnly` is `reduce_only` among siblings in camel case
  (`v5_order_service.go:47`).
* A login with RSA credentials never leaves unless an HMAC secret is set too:
  `hasAuth` of the websocket client asks for it (`client_web_socket.go:132`), where
  `client_rsa_test.go:127` says "The client will automatically use RSA signatures
  for authentication".
* A refusal without `ret_msg` panics in the goroutine of the reader
  (`v5_ws_private.go:98`), and with it the process.
* The v5 public service looks at no reply, so a refused subscription leaves a
  handler that never runs (`judgeTopic`, `v5_ws_public.go:117`); the trade service does not look
  at the code of a refused order.
* `Start` of `client_web_socket.go` with no executors spins; with several, one that
  is silent blocks the others; a `Close` that fails leaves those after it
  open, and a spot server that stops reading can hold `Start` in a ping.
* `WsService`: a message on its way when its topic is unsubscribed ends the
  reader; the handler maps are unguarded, and of two goroutines that subscribe
  to one key both may pass the check; after an error or a timeout `Start`
  returns while the reader lives on until its deadline.

## 7. Not modelled, and planned

Not modelled: `paths.py`, data declarations, enums and empty services; the wording
and redaction of records; command-line parsing; signing and time
synchronisation in the Python client, whose calls appear by their outcomes
(`auth.py`, `rest.py`: hazards without a property); `check_with_state`
(`guard.py`), which has no caller; of the Go SDK the reading of a key file
(`rsa_helper.go`), the dialer, the logger, the referer header, and the test
clients. The fields of results and of parameters that no check, signature or
decoder reads are abstracted away. `PROJECT.json` lists every component.

The order of work, most important behaviour first:

1. Done: the gate and its files (`MandateGate`, `OrderTools`, `LiveGate`), the
   counter (`TradeCounter` implementing `DailyCounter`), the websocket service
   (`WsService`), and their theorems.
2. Done: the other websocket services, the common `Start` (`WsRouter`,
   `WsExecutors`), the REST client and all its functions (`RestClient`,
   `V5Endpoints`, `LegacyEndpoints`); theorems of
   `WsExecutors`.
3. Done: theorems of `RestClient`, of `WsRouter` and of what `LiveGate` counts,
   `CleanReturn`, and `LiveGate` with one server implementing `DailyCounter`.
4. Left: the facts about the tables as theorems, so that `Reported`, `Matched`
   and `Identified` need no evaluation; what remains of the cap with several servers
   (one more per server than the count shows); `WsService` as one executor of
   `WsExecutors`.
