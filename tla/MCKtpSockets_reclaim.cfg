CONSTANTS
  p1 = p1
  p2 = p2
  Proc = {p1, p2}
  NoProc = NoProc
  N = 1
  Careless = FALSE
  MaxKills = 1
  KillInside = FALSE
SPECIFICATION FairSpec
PROPERTY Reclaimed
CHECK_DEADLOCK FALSE
