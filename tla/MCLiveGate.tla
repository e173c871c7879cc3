----------------------------- MODULE MCLiveGate -----------------------------
(***************************************************************************)
(* Small instances of LiveGate.                                            *)
(***************************************************************************)
EXTENDS LiveGate

CONSTANTS p1, p2, crypto, equity, null, empty, junk, nan

MCRawSymbols == {"", "BTC", " btc", "XRP", "xrp "}
MCFold == [s \in MCRawSymbols |->
             CASE s = " btc" -> "BTC" [] s = "xrp " -> "XRP" [] OTHER -> s]

\* A mandate that lets one order of 6 through per day and excludes XRP.
Base ==
  [tag |-> 1, schema_version |-> 1, account_funding |-> 10,
   max_order_notional |-> 6, max_total_exposure |-> 8, max_leverage |-> 1,
   max_trades_per_day |-> 1, allowed_instruments |-> {crypto},
   asset_classes |-> {crypto, equity}, exclude_symbols |-> {"xrp "}]

Renewed   == [Base EXCEPT !.tag = 2]
\* One mandate for each rule that can be the first to bind.
Exposed   == [Base EXCEPT !.tag = 4, !.max_order_notional = 20]
Leveraged == [Base EXCEPT !.tag = 5, !.max_total_exposure = 20,
                          !.max_order_notional = 20, !.account_funding = 4]
Unfunded  == [Base EXCEPT !.tag = 6, !.account_funding = 0]
NoCrypto  == [Base EXCEPT !.tag = 7, !.asset_classes = {equity}]
Unlisted  == [Base EXCEPT !.tag = 8, !.allowed_instruments = {equity}]
OldSchema == [Base EXCEPT !.tag = 9, !.schema_version = 2]
NoTrades  == [Base EXCEPT !.tag = 10, !.max_trades_per_day = 0]
Twice     == [Base EXCEPT !.tag = 11, !.max_trades_per_day = 2]

InputMandates == {Base, Exposed, Leveraged, Unfunded, NoCrypto, Unlisted,
                  OldSchema, NoTrades}

Blank == [symbol |-> "BTC", side |-> "buy", qty |-> null, new_qty |-> null,
          notional_usd |-> null, has_id |-> TRUE]

PlaceParams ==
  [symbol : MCRawSymbols, side : Sides, qty : {0, 1, 2, empty, junk},
   new_qty : {null}, notional_usd : {null, -1, 3, 9, junk}, has_id : {TRUE}]

AmendParams ==
  [symbol : {"BTC", "xrp "}, side : {"sell", "other"}, qty : {null, empty, 1, 9},
   new_qty : {null, 1, 2}, notional_usd : {null}, has_id : BOOLEAN]

Calls(tool, ps) == {[tool |-> tool, params |-> x] : x \in ps}

Place(n)  == [tool |-> "place_order", params |-> [Blank EXCEPT !.qty = n]]
Notional  == [tool |-> "place_order",
              params |-> [Blank EXCEPT !.qty = empty, !.notional_usd = 3]]
Cancel    == [tool |-> "cancel_order", params |-> Blank]

InputCalls ==
  Calls("place_order", PlaceParams) \cup Calls("amend_order", AmendParams)
    \cup Calls("cancel_all_orders", {Blank, [Blank EXCEPT !.symbol = ""]})
    \cup UNION {Calls(t, {Blank}) : t \in PositionTools}

PlaceCalls  == Calls("place_order", PlaceParams)
AmendCalls  == Calls("amend_order", AmendParams)
RaceCalls   == {Place(1), Cancel}
OneCall     == {Place(1)}
\* What gets through the gate the servers construct, which has no quotes.
QuotelessCalls == {Place(1), Notional}

OneQuote    == {2}
InputQuotes == {null, 0, 2, 5, junk}
NoQuotes    == {null}

OnlyBase  == {Base}
Succession == {Base, Renewed, OldSchema}
TwoCaps   == {Twice, NoTrades}

\* The files stay as they were when the call began.
InputSpec == Init /\ [][\E p \in Servers : Server(p)]_vars
=============================================================================
