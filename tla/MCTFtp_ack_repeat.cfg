CONSTANTS
  Published <- MCNames
  Requests <- MCNames
  Blocks <- MCBlocks2
  FullTail = {}
  BlockIds = 4
  TriesLimit = 2
  MaxRounds = 1
  MaxLosses = 0
  Faults <- Retransmits
SPECIFICATION Spec
INVARIANTS TransferFaithful
CHECK_DEADLOCK FALSE
