CONSTANTS
  relay = relay
  watchdog = watchdog
  Callers = {relay, watchdog}
  GasPrice = 1
  MaxGasPrice = 4
  MaxBreaks = 1
  FixedPrice <- MCNoFixedPrice
SPECIFICATION Spec
INVARIANTS
  ExecutedOnce
CHECK_DEADLOCK FALSE
