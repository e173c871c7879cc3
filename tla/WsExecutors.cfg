SPECIFICATION FairSpec
CONSTANTS
  u1 = u1
  N = 2
  Locked <- MCLocked
  Users = {u1}
  MaxInbox = 2
CHECK_DEADLOCK FALSE
INVARIANT TypeOK
INVARIANT PanicNeedsSpot
PROPERTY CancelReturns
PROPERTY TakesTurns
PROPERTY ReaderEnds
