CONSTANTS
  MaxPending = 2
  Lead = 1
  MaxReorgs = 1
  MaxReorgDepth = 2
  MaxInterrupts = 2
  MaxErrors = 1
  MaxMishaps = 2
SPECIFICATION FairSpec
INVARIANTS
  ClientIsAChain
  LocksOnce
PROPERTIES
  MintIsProvenWithoutFork
  EventuallyTransferred
  ClientFollowsGrowth
