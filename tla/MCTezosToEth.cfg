CONSTANTS
  first = first
  second = second
  relay = relay
  Callers = {first, second, relay}
  Attempts = {first, second}
  GasPrice = 1
  MaxGasPrice = 4
  MaxBreaks = 1
  FixedPrice <- MCFixedPrice
  RetrySendTx = 2
  MaxMishaps = 2
  MaxHeight = 14
SPECIFICATION FairSysSpec
INVARIANTS
  UnlocksOnce
  ProofStaysValid
  TwiceOnlyAfterThrow
  ResendsReplace
PROPERTIES
  StartedCallsEnd
  EventuallyUnlocked
CHECK_DEADLOCK FALSE
