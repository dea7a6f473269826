CONSTANTS
  s1 = s1
  c1 = c1
  c2 = c2
  Server = {s1}
  Client = {c1, c2}
  Interval = 3
  Commands <- Asked
  MaxRuns <- Starts
SPECIFICATION FairSpec
INVARIANTS TypeOK OnlyOwnAnswers
PROPERTIES MissedNarrowly Answered
