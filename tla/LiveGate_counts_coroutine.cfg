SPECIFICATION Spec
CONSTANTS
  p1 = p1
  p2 = p2
  crypto = crypto
  equity = equity
  null = null
  empty = empty
  junk = junk
  nan = nan
  Crypto = crypto
  OtherKinds = {equity}
  Null = null
  Empty = empty
  Junk = junk
  NaN = nan
  RawSymbols <- MCRawSymbols
  Fold <- MCFold
  NoSymbol = ""
  Servers = {p1}
  Mandates <- OnlyBase
  ToolCalls <- QuotelessCalls
  Quotes <- NoQuotes
  Forwards = {"coroutine"}
  MaxCalls = 1
  MaxTally = null
  MaxDay = 0
  MaxFaults = 0
INVARIANT CounterNeverAhead
