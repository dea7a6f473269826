CONSTANTS
  TaskCount = 2
  Workers = 2
  MaxKills = 1
SPECIFICATION FairSpec
CHECK_DEADLOCK FALSE
PROPERTY Recovered
