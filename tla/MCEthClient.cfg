CONSTANTS
  Headers <- MCHeaders
  Number <- MCNumber
  Parent <- MCParent
  Difficulty <- MCDifficulty
  Valid <- MCValid
  ZeroHash = "0"
  FirstHeader = "m1"
  Callers = {"relay"}
  NoSigner = NoSigner
  trusted_signer = NoSigner
  hashes_gc_threshold = 6
  finalized_gc_threshold = 4
  num_confirmations = 1
SPECIFICATION Spec
INVARIANTS
  BestIsHeaviest
  CanonicalIsBestBranch
  StorageIsBounded
  SafeHashIsBuried
CHECK_DEADLOCK FALSE
