CONSTANTS
  Sock <- Pair
  Peer <- Crossed
  W = 3
  MaxSeq = 8
  Limit <- Simplex4
  NetCap = 3
  MaxLosses = 0
  Reordering = FALSE
SPECIFICATION FairSpec
PROPERTY DeliveryLive
CHECK_DEADLOCK FALSE
