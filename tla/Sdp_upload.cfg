CONSTANTS
  Pairs = 1
  ImageLen = 2
  MaxTries = 2
  MaxRepeats = 2
  MaxLost = 2
SPECIFICATION FairSpec
INVARIANTS TypeOK NeverSpins AnswerIsOwn ImageUnbroken TrueMeansRunning
PROPERTIES UploadEnds
CHECK_DEADLOCK FALSE
