CONSTANTS
  N = 3
  Files <- MCFiles
  Modulus = 2
  MaxLost = 1
  Room = 4
SPECIFICATION FairSpec
INVARIANTS TypeOK
PROPERTIES ImplementsAtLeastOnce Transferred BothClose
