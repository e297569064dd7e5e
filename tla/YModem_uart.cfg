CONSTANTS
  Frames = 6
  Numbers = 4
  Waits = 3
  MaxNoise = 4
  MaxAsks = 2
  MaxGarbled = 2
SPECIFICATION FairSpec
INVARIANTS TypeOK NoSplice TrueMeansReceived 
PROPERTIES SendFileEnds
CHECK_DEADLOCK FALSE
