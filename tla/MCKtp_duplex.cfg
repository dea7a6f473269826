CONSTANTS
  Sock <- Pair
  Peer <- Crossed
  W = 2
  MaxSeq = 4
  Limit <- Duplex41
  NetCap = 3
  MaxLosses = 0
  Reordering = FALSE
SPECIFICATION Spec
INVARIANT SpaceAccounting
INVARIANT TakenIsBuffered
INVARIANT SendBookkeeping
CHECK_DEADLOCK FALSE
