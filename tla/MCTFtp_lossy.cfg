CONSTANTS
  Published <- MCNames
  Requests <- MCNames
  Blocks <- MCBlocks2
  FullTail = {}
  BlockIds = 3
  TriesLimit = 2
  MaxRounds = 2
  MaxLosses = 3
  Faults <- NoFaults
SPECIFICATION FairSpec
INVARIANTS TypeOK NoDeadSession 
PROPERTIES PromiseKept ClientServed
CHECK_DEADLOCK FALSE
