CONSTANTS
  r = r
  s = s
  k1 = k1
  k2 = k2
  k3 = k3
  e1 = e1
  e2 = e2
  e3 = e3
  hg = hg
  h2 = h2
  h3 = h3
  hx = hx
  NoAccount = NoAccount
  None = None
  Junk = Junk
  NoHash = NoHash
  NoEpoch = NoEpoch
  NoBps = NoBps
  LockEthAmount = 1
  ReplaceDuration = 3
  RelayAccount = r
  Submitter = s
  Accounts <- MCAccounts
  Keys <- MCKeys
  Hashes <- MCHashes
  Epochs <- MCEpochs
  Blocks <- MCBlocks
  InitBlocks <- MCInitBlocks
  InitialValidators <- MCInitialValidators
  Finalized <- MCFinalized
  Validators <- MCValidators
  Chain <- MCChain
  WatchdogDelay = 0
  WatchdogErrorDelay = 0
  WatchdogIteration = 0
  RelayMinDelay = 1
  RelayMaxDelay = 1
  RelayErrorDelay = 1
  RelayIteration = 0
  LockDuration = 1
  MaxTime = 0
  MaxSubmissions = 1
  MaxErrors = 2
  Prices = {1, 2}
  GasMultiplier = 1
  MaxGasPrice = 4
SPECIFICATION FairSharedSpec
INVARIANTS
  FewChallenges
PROPERTIES
  LateChallengeSparesRelay
  EventuallyRightPending
CHECK_DEADLOCK FALSE
