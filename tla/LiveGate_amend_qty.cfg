SPECIFICATION InputSpec
CONSTANTS
  p1 = p1
  p2 = p2
  crypto = crypto
  equity = equity
  null = null
  empty = empty
  junk = junk
  nan = nan
  Crypto = crypto
  OtherKinds = {equity}
  Null = null
  Empty = empty
  Junk = junk
  NaN = nan
  RawSymbols <- MCRawSymbols
  Fold <- MCFold
  NoSymbol = ""
  Servers = {p1}
  Mandates <- InputMandates
  ToolCalls <- AmendCalls
  Quotes <- OneQuote
  Forwards = {"call"}
  MaxCalls = null
  MaxTally = 0
  MaxDay = 0
  MaxFaults = 0
INVARIANT AmendedWithinCaps
