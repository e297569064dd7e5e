CONSTANTS
  Pages = {p1, p2}
  Parts = 2
  QueueMax = 1
  Tries = 2
  Patience = 2
  MaxAsks = 3
  MaxInputs = 2
  MaxStops = 1
SPECIFICATION FairSpec
INVARIANTS TypeOK ColoursShown BodyIsOneCapture AtMostOneBehind
PROPERTIES EveryRequestEnds
CHECK_DEADLOCK FALSE
