CONSTANTS
  Published <- MCKernel
  Requests <- MCWanted
  Blocks <- MCBlocks1
  FullTail = {}
  BlockIds = 4
  TriesLimit = 2
  MaxRounds = 1
  MaxLosses = 1
  Faults <- FaultKinds
SPECIFICATION Spec
INVARIANTS ReceiveIsTimed
CHECK_DEADLOCK FALSE
