CONSTANTS
  Act <- MCAct
  Tries = 3
  Limit = 3
SPECIFICATION FairSpec
INVARIANTS TypeOK AnswerIsOwn NothingLost TimelyIsHeard
PROPERTIES FailsAfterSilence ActEnds
CHECK_DEADLOCK FALSE
