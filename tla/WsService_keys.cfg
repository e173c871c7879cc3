SPECIFICATION Spec
CONSTANTS
  u1 = u1
  start = start
  none = none
  Users = {u1}
  Topics <- TwoTopics
  Calls <- TwoLists
  None = none
  Starter = start
  MaxUp = 1
  MaxDown = 1
CHECK_DEADLOCK FALSE
INVARIANT TypeOK
INVARIANT StreamHasHandler
INVARIANT MissExplained
