--------------------------- MODULE MCTradeCounter ---------------------------
(***************************************************************************)
(* Small instances of TradeCounter: one writer and two, beside a reader.   *)
(***************************************************************************)
EXTENDS TradeCounter

CONSTANTS w1, w2, r1, f1, f2, f3, f4
=============================================================================
