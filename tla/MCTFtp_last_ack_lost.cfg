CONSTANTS
  Published <- MCNames
  Requests <- MCNames
  Blocks <- MCBlocks2
  FullTail = {}
  BlockIds = 4
  TriesLimit = 2
  MaxRounds = 1
  MaxLosses = 1
  Faults <- NoFaults
SPECIFICATION FairSpec
PROPERTIES RunReturns
CHECK_DEADLOCK FALSE
