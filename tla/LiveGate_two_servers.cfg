SPECIFICATION Spec
CONSTANTS
  p1 = p1
  p2 = p2
  crypto = crypto
  equity = equity
  null = null
  empty = empty
  junk = junk
  nan = nan
  Crypto = crypto
  OtherKinds = {equity}
  Null = null
  Empty = empty
  Junk = junk
  NaN = nan
  RawSymbols <- MCRawSymbols
  Fold <- MCFold
  NoSymbol = ""
  Servers = {p1, p2}
  Mandates <- OnlyBase
  ToolCalls <- OneCall
  Quotes <- OneQuote
  Forwards = {"call"}
  MaxCalls = 2
  MaxTally = null
  MaxDay = 1
  MaxFaults = 0
INVARIANT CounterNeverAhead
INVARIANT AcceptedRecorded
