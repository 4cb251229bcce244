CONSTANTS
  MaxPending = 2
  Lead = 2
  MaxReorgs = 0
  MaxReorgDepth = 2
  MaxInterrupts = 1
  MaxErrors = 0
  MaxMishaps = 2
SPECIFICATION Spec
INVARIANTS
  MintsOnce
