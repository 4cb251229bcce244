CONSTANTS
  Terminals = {t1, t2}
  t1 = t1
  t2 = t2
  Prover = "0x6006"
  Params <- MCParams
  Address <- MCAddress
  Texts <- MCTexts
  Default <- MCDefault
  Arguments <- MCArguments
  Environments <- MCEnvironments
  OldFiles <- MCOldFiles
  Repertoire <- MCRepertoire
  MaxCommands <- MCMaxCommands
  Running <- MCRunning
  Bounds <- MCBounds
  Window = 2
  NumBlocks = 2
  MaxHead = 4
SYMMETRY TerminalSymmetry
SPECIFICATION Spec
INVARIANTS
  RecordedWasDeployed
  WiredToRecorded
  ArgumentsStick
  DumpsAreComplete
CHECK_DEADLOCK FALSE
