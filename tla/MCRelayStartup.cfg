CONSTANTS
  k1 = k1
  k2 = k2
  k3 = k3
  e1 = e1
  e2 = e2
  e3 = e3
  e4 = e4
  h1 = h1
  h2 = h2
  h3 = h3
  h4 = h4
  h5 = h5
  NoAccount = NoAccount
  None = None
  Junk = Junk
  NoHash = NoHash
  NoEpoch = NoEpoch
  NoBps = NoBps
  LockEthAmount = 1
  LockDuration = 1
  ReplaceDuration = 1
  MaxTime = 0
  Accounts = {}
  InitBlocks = {}
  InitialValidators = {}
  Keys <- MCKeys
  Hashes <- MCHashes
  Epochs <- MCEpochs
  Blocks <- MCBlocks
  Finalized <- MCBlocks
  Validators <- MCValidators
  Chain <- MCChain
  MaxAttempts = 2
  MaxMishaps = 3
SPECIFICATION FairStartSpec
INVARIANTS
  ValidatorsNotAhead
  LoopNeedsHead
PROPERTIES
  EventuallyStarted
CHECK_DEADLOCK FALSE
