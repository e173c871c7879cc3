SPECIFICATION FairSpec
CONSTANTS
  Services <- AllServices
  Channels <- MCChannels
  MaxCalls = 2
  MaxQueue = 2
CHECK_DEADLOCK FALSE
INVARIANT TypeOK
INVARIANT OwnHandler
INVARIANT EndExplained
INVARIANT AuthVerifies
PROPERTY RefusalSurfaces
