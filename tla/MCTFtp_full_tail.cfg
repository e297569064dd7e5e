CONSTANTS
  Published <- MCNames
  Requests <- MCNames
  Blocks <- MCBlocks2
  FullTail <- MCNames
  BlockIds = 4
  TriesLimit = 2
  MaxRounds = 1
  MaxLosses = 0
  Faults <- NoFaults
SPECIFICATION Spec
INVARIANTS TrueMeansDelivered
CHECK_DEADLOCK FALSE
