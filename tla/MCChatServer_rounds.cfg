CONSTANTS
  u1 = u1
  u2 = u2
  u3 = u3
  u4 = u4
  Users = {u1, u2, u3, u4}
  MAX_CLIENTS = 3
  Digits = {1}
  MaxUnread = 2
  MaxRound = 1
SYMMETRY Symmetry
SPECIFICATION Spec
INVARIANTS TypeOK Asked NobodyForgotten StallsOnlyByLeaving
PROPERTIES PassServesAll FirstNumberStands ResultIsLargest
CHECK_DEADLOCK FALSE
