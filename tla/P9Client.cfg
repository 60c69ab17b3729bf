SPECIFICATION LiveSpec
CONSTANTS
  LengthModulus = 8
  Asks <- TagAsks
  Answers <- SomeAnswers
  TagModulus = 3
  MaxStrays = 2
INVARIANTS TypeOK NeverBackInStep CutStatsAreRefused
PROPERTIES KeepsPromise CallsReturn
CHECK_DEADLOCK FALSE
