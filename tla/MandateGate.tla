---------------------------- MODULE MandateGate ----------------------------
(***************************************************************************)
(* The arithmetic and the rules of the mandate gate: how an order intent   *)
(* is read out of the arguments of a tool (safety/extractors.py), how it   *)
(* is priced (guard.py, _normalize_intent_notional) and how it is compared *)
(* with the mandate (guard.py, _check_mandate).  There is no state here:   *)
(* LiveGate runs these rules step by step against the shared files.        *)
(*                                                                         *)
(* Money, prices and quantities are integers; the code uses floats.  A     *)
(* number that arrives as text is a "numeral": an integer, or one of three *)
(* values that stand for what is not a number.                             *)
(*                                                                         *)
(* In every module a definition named ...Bug is not part of the model: it  *)
(* is the definition below it with a plausible mistake, kept to show that  *)
(* the properties notice.                                                  *)
(***************************************************************************)
EXTENDS Integers

CONSTANTS
  RawSymbols,   \* spellings of symbols, as a caller or a mandate writes them
  Fold,         \* Fold[s] is s.strip().upper()
  NoSymbol,     \* the empty string
  Crypto,       \* the instrument type and the asset class of every intent
  OtherKinds,   \* the other members of InstrumentType and of AssetClass
  Null,         \* None, or a missing key
  Empty,        \* ""
  Junk,         \* text that float() refuses, or that it reads as NaN
  NaN           \* a cap the mandate file spells NaN

ASSUME FoldAssumption ==
  /\ Fold \in [RawSymbols -> RawSymbols]
  /\ \A s \in RawSymbols : Fold[Fold[s]] = Fold[s]
  /\ NoSymbol \in RawSymbols /\ Fold[NoSymbol] = NoSymbol

ASSUME ValueAssumption ==
  /\ {Null, Empty, Junk, NaN} \cap Int = {}
  /\ Null \notin RawSymbols
  /\ Null \notin {Empty, Junk, NaN} /\ Empty # Junk
  /\ Null \notin {"allow", "deny", "pause_for_reauth"}

Numerals == Int \cup {Null, Empty, Junk}
Cap      == Int \cup {NaN}
Sides    == {"buy", "sell", "other"}

\* The mandate file, its numeric caps and its universe.  "tag" names the
\* consent that committed it (consent_token_sha256).
Mandate ==
  [tag : Nat, schema_version : Nat,
   account_funding : Cap, max_order_notional : Cap, max_total_exposure : Cap,
   max_leverage : Cap, max_trades_per_day : Int,
   allowed_instruments : SUBSET ({Crypto} \cup OtherKinds),
   asset_classes : SUBSET ({Crypto} \cup OtherKinds),
   exclude_symbols : SUBSET RawSymbols]

SchemaVersion == 1

OrderIntent ==
  [symbol : RawSymbols, side : {"buy", "sell"},
   notional : Int \cup {Null}, quantity : Int \cup {Null}]

ASSUME IntentAssumption == Null \notin OrderIntent

----------------------------------------------------------------------------
(***************************************************************************)
(* safety/extractors.py.                                                   *)
(***************************************************************************)

OptFloat(v) == IF v \in Int THEN v ELSE Null

\* Python's "a or b" on text: the empty string and None are false.
Or(a, b) == IF a \in {Null, Empty} THEN b ELSE a

NonPositive(v) == v # Null /\ v <= 0

\* The side is taken as it comes.
IntentOfBug(symbol, side, quantity, notional) ==
  IF \/ symbol = Null \/ Fold[symbol] = NoSymbol
     \/ NonPositive(quantity) \/ NonPositive(notional)
  THEN Null
  ELSE [symbol |-> Fold[symbol], side |-> side,
        notional |-> notional, quantity |-> quantity]

\* The common part of the two extractors: the symbol is folded, and an
\* intent that has no symbol, no side or a size that is not positive is
\* refused.
IntentOf(symbol, side, quantity, notional) ==
  IF \/ symbol = Null \/ Fold[symbol] = NoSymbol
     \/ side \notin {"buy", "sell"}
     \/ NonPositive(quantity) \/ NonPositive(notional)
  THEN Null
  ELSE [symbol |-> Fold[symbol], side |-> side,
        notional |-> notional, quantity |-> quantity]

ExtractPlaceOrderIntent(args) ==
  IntentOf(args.symbol, args.side, OptFloat(args.qty), OptFloat(args.notional_usd))

ExtractAmendOrderIntent(args) ==
  IntentOf(args.symbol, args.side,
           OptFloat(Or(args.new_qty, args.qty)), OptFloat(args.notional_usd))

----------------------------------------------------------------------------
(***************************************************************************)
(* Step 5: one authoritative notional.  "quote" is what quote_lookup       *)
(* answers; Null is a gate without a lookup, a lookup that raised, and a   *)
(* lookup that found nothing.                                              *)
(***************************************************************************)

QuotePrice(quote) == IF quote \in Int /\ quote > 0 THEN quote ELSE Null

Larger(a, b) == IF a >= b THEN a ELSE b

\* An explicit notional is taken at its word (the H3 bypass).
NormalizeIntentNotionalBug(intent, quote) ==
  IF intent.quantity = Null \/ intent.notional # Null THEN intent
  ELSE IF QuotePrice(quote) = Null THEN Null
  ELSE [intent EXCEPT !.notional = intent.quantity * QuotePrice(quote)]

NormalizeIntentNotional(intent, quote) ==
  LET price    == QuotePrice(quote)
      explicit == IF intent.notional = Null THEN 0 ELSE intent.notional
  IN  CASE intent.quantity = Null -> intent
        [] intent.quantity # Null /\ price = Null -> Null
        [] OTHER -> [intent EXCEPT !.notional =
                       Larger(explicit, intent.quantity * price)]

----------------------------------------------------------------------------
(***************************************************************************)
(* Step 6: the rules of the mandate.  A comparison with a NaN cap is       *)
(* false in Python, so a NaN cap is never exceeded.  All the structural    *)
(* rules (kind "universe" or "instrument") are tried before the first      *)
(* quantitative one.                                                       *)
(***************************************************************************)

Exceeds(x, cap) == cap \in Int /\ x > cap

Structural(m, intent) ==
  /\ intent.symbol \notin {Fold[s] : s \in m.exclude_symbols}
  /\ Crypto \in m.allowed_instruments
  /\ Crypto \in m.asset_classes
  /\ intent.notional # Null /\ intent.notional > 0

\* exposure / funding > max_leverage, without the division
OverLeverage(m, exposure) ==
  \/ m.account_funding \in Int /\ m.account_funding <= 0
  \/ /\ m.account_funding \in Int /\ m.max_leverage \in Int
     /\ exposure > m.max_leverage * m.account_funding

\* The count before the order is compared, not the count with it.
QuantitativeBug(m, intent, count) ==
  /\ ~Exceeds(intent.notional, m.max_order_notional)
  /\ ~Exceeds(intent.notional, m.max_total_exposure)
  /\ ~OverLeverage(m, intent.notional)
  /\ ~Exceeds(count, m.max_trades_per_day)
  /\ ~(intent.side = "buy" /\ Exceeds(intent.notional, m.account_funding))

Quantitative(m, intent, count) ==
  /\ ~Exceeds(intent.notional, m.max_order_notional)
  /\ ~Exceeds(intent.notional, m.max_total_exposure)
  /\ ~OverLeverage(m, intent.notional)
  /\ ~Exceeds(count + 1, m.max_trades_per_day)
  /\ ~(intent.side = "buy" /\ Exceeds(intent.notional, m.account_funding))

CheckMandate(m, intent, count) ==
  IF ~Structural(m, intent) THEN "deny"
  ELSE IF ~Quantitative(m, intent, count) THEN "pause_for_reauth"
  ELSE "allow"
=============================================================================
