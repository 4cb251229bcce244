CONSTANTS
  r = r
  s = s
  k1 = k1
  k2 = k2
  k3 = k3
  e1 = e1
  e2 = e2
  e3 = e3
  hg = hg
  h2 = h2
  h3 = h3
  hx = hx
  NoAccount = NoAccount
  None = None
  Junk = Junk
  NoHash = NoHash
  NoEpoch = NoEpoch
  NoBps = NoBps
  LockEthAmount = 1
  ReplaceDuration = 3
  RelayAccount = r
  Submitter = s
  Accounts <- MCAccounts
  Keys <- MCKeys
  Hashes <- MCHashes
  Epochs <- MCEpochs
  Blocks <- MCBlocks
  InitBlocks <- MCInitBlocks
  InitialValidators <- MCInitialValidators
  Finalized <- MCFinalized
  Validators <- MCValidators
  Chain <- MCChain
  WatchdogDelay = 1
  WatchdogErrorDelay = 0
  WatchdogIteration = 1
  RelayMinDelay = 1
  RelayMaxDelay = 3
  RelayErrorDelay = 1
  RelayIteration = 1
  LockDuration = 6
  MaxTime = 28
  MaxSubmissions = 1
  MaxErrors = 1
SPECIFICATION FairSysSpec
INVARIANTS
  SysTypeOK
  OnlyFinalTrusted
  RelayReadsTrusted
PROPERTIES
  RelayKeepsBond
  EventuallyCaughtUp
CHECK_DEADLOCK FALSE
