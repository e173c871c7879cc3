SPECIFICATION FairSpec
CONSTANTS
  u1 = u1
  start = start
  none = none
  Users = {u1}
  Topics <- OneTopic
  Calls <- OneList
  None = none
  Starter = start
  MaxUp = 1
  MaxDown = 1
CHECK_DEADLOCK FALSE
INVARIANT OneWriter
INVARIANT CleanReturn
PROPERTY CancelReturns
PROPERTY ReaderEnds
