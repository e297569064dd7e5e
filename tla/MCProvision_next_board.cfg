CONSTANTS
  Jobs <- MCNorJobs
  Password = TRUE
  Capacity = 3
  MaxBoards = 2
  MaxLate = 0
  StandPanel = StandPanel
  DefaultEnv <- MCDefaultEnv
  MaxComplaints = 0
  MaxRefused = 0
  Refusable <- MCRefusable
  MaxStarts = 1
SPECIFICATION Spec
INVARIANTS FailureIsOwn
CHECK_DEADLOCK FALSE
