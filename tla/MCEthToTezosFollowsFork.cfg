CONSTANTS
  MaxPending = 2
  Lead = 2
  MaxReorgs = 1
  MaxReorgDepth = 2
  MaxInterrupts = 0
  MaxErrors = 0
  MaxMishaps = 2
SPECIFICATION FairSpec
PROPERTIES
  ClientFollowsChain
