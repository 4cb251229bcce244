CONSTANTS
  a1 = a1
  a2 = a2
  k1 = k1
  k2 = k2
  k3 = k3
  e1 = e1
  e2 = e2
  e3 = e3
  hg = hg
  h2 = h2
  h3 = h3
  h4 = h4
  hx = hx
  NoAccount = NoAccount
  None = None
  Junk = Junk
  NoHash = NoHash
  NoEpoch = NoEpoch
  NoBps = NoBps
  NoCandidate = NoCandidate
  LockEthAmount = 3
  LockDuration = 2
  ReplaceDuration = 2
  MaxTime = 7
  Accounts <- MCAccounts
  Keys <- MCKeys
  Hashes <- MCHashes
  Epochs <- MCEpochs
  Blocks <- MCBlocks
  InitBlocks <- MCInitBlocks
  InitialValidators <- MCInitialValidators
  Finalized <- MCFinalized
  Validators <- MCValidators
SPECIFICATION Spec
INVARIANTS
  TypeOK
  BondBacked
  Solvent
  PendingHasQuorum
  EpochProducers
PROPERTIES
  HonestKeepsBond
  ImplementsOptimisticChain
