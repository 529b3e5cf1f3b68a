CONSTANTS
  n1 = n1
  n2 = n2
  n3 = n3
  n4 = n4
  Nodes = {n1, n2, n3, n4}
  View <- SameView
  Score <- Scores
  CopiesAt <- ThreeThenTwo
  MaxTime = 1
  MaxLosses = 2
  Places = 7
  Copies = {1, 2, 3}
  Widening = 2
  MaxJoins = 3
  Cids = {1, 2, 3, 4, 5}
  Size = 2
  MaxRestarts = 1
  Prefix = 2
  MaxMessage = 3
  Excess = 2
SPECIFICATION PlacementSpec
INVARIANTS LastCopyKept HoldersAsked
PROPERTIES HandoverKeepsPolicy PolicyIsReached SweepComplete ExchangeSound
CHECK_DEADLOCK FALSE
