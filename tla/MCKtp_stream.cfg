CONSTANTS
  Sock <- Pair
  Peer <- Crossed
  W = 3
  MaxSeq = 8
  Limit <- Simplex4
  NetCap = 3
  MaxLosses = 1
  Reordering = TRUE
SPECIFICATION Spec
INVARIANT TypeOK
INVARIANT NoLoss
INVARIANT InOrderDelivery
INVARIANT AckReleasesQueued
CHECK_DEADLOCK FALSE
