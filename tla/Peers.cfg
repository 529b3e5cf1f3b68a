CONSTANTS
  CheckpointInterval = 2
  MaxCheckpointAge = 1
  StorageMaxAge = 1
  RepairMaxAge = 1
  ClockTolerance = 1
  SkewTolerance = 1
  Skews = {0, 3}
  MaxTime = 3
  MaxRollbacks = 1
  MaxFaults = 1
  MaxRestarts = 1
  MaxReports = 2
  c1 = c1
  c2 = c2
SPECIFICATION PeersSpec
INVARIANTS HealthHonest
PROPERTIES PeersServed
CHECK_DEADLOCK FALSE
