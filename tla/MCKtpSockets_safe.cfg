CONSTANTS
  p1 = p1
  p2 = p2
  Proc = {p1, p2}
  NoProc = NoProc
  N = 2
  Careless = TRUE
  MaxKills = 1
  KillInside = TRUE
SPECIFICATION Spec
INVARIANT EntryKept
INVARIANT TokenBalance
PROPERTY ImplementsEntries
CHECK_DEADLOCK FALSE
