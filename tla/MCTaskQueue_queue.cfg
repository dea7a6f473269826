CONSTANTS
  TaskCount = 2
  Workers = 2
  MaxKills = 1
SPECIFICATION FairSpec
INVARIANT TableAgrees
INVARIANT ResultExpected
INVARIANT LeftOnlyByReset
PROPERTY CompletedKept
PROPERTY Answered
PROPERTY ShutdownHeeded
CHECK_DEADLOCK FALSE
