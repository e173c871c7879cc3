----------------------------- MODULE OrderTools -----------------------------
(***************************************************************************)
(* The six order-writing tools (server/tools_order.py): the arguments each *)
(* hands to the gate, the extractor it names, and the request its forward  *)
(* would send to the broker.  The gate judges the first, the broker        *)
(* receives the last; nothing but these definitions ties them together.    *)
(*                                                                         *)
(* Parameters no rule reads (order type, price, time in force, take        *)
(* profit, ...) are left out.                                              *)
(***************************************************************************)
EXTENDS MandateGate

SizedTools    == {"place_order", "amend_order"}
PositionTools == {"cancel_order", "cancel_all_orders",
                  "set_leverage", "set_trading_stop"}
Tools         == SizedTools \cup PositionTools

\* What the caller of a tool supplies.  "has_id": an order_id or an
\* order_link_id was given.
Params ==
  [symbol : RawSymbols \cup {Null}, side : Sides,
   qty : Numerals, new_qty : Numerals, notional_usd : Numerals,
   has_id : BOOLEAN]

NoArgs == [symbol |-> Null, side |-> Null, qty |-> Null,
           new_qty |-> Null, notional_usd |-> Null]

\* The tool_args dictionary each handler builds; Null is a missing key.
ToolArgs(tool, p) ==
  CASE tool = "place_order" ->
         [symbol |-> p.symbol, side |-> p.side, qty |-> p.qty,
          new_qty |-> Null, notional_usd |-> p.notional_usd]
    [] tool = "amend_order" ->
         [NoArgs EXCEPT !.symbol = p.symbol, !.side = p.side,
                        !.new_qty = IF p.new_qty # Null THEN p.new_qty ELSE p.qty]
    [] tool = "cancel_all_orders" ->
         [NoArgs EXCEPT !.symbol = IF p.symbol = NoSymbol THEN Null ELSE p.symbol]
    [] OTHER -> [NoArgs EXCEPT !.symbol = p.symbol]

\* Only amend_order names the amend extractor.
ExtractIntent(tool, p) ==
  IF tool = "amend_order"
  THEN ExtractAmendOrderIntent(ToolArgs(tool, p))
  ELSE ExtractPlaceOrderIntent(ToolArgs(tool, p))

\* The quantity in the body of the forwarded request.
SentQty(tool, p) ==
  CASE tool = "place_order" -> p.qty
    [] tool = "amend_order" -> Or(p.qty, p.new_qty)
    [] OTHER -> Null

\* The client refuses, with a ValueError, to amend or cancel no order.
ForwardRaises(tool, p) == tool \in {"amend_order", "cancel_order"} /\ ~p.has_id
=============================================================================
