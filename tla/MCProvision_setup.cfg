CONSTANTS
  Jobs <- MCJobs
  Password = TRUE
  Capacity = 3
  MaxBoards = 3
  MaxLate = 1
  StandPanel = StandPanel
  DefaultEnv <- MCDefaultEnv
  MaxComplaints = 2
  MaxRefused = 1
  Refusable <- MCRefusable
  MaxStarts = 2
SPECIFICATION FairSpec
INVARIANTS TypeOK  RegisteredHasAddress  FirstFailureIsOwn
PROPERTIES RegistryKept 
CHECK_DEADLOCK FALSE
