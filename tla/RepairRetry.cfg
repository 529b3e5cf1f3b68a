CONSTANTS
  Cids = {1, 2, 3}
  BatchSize = 1
  MaxCatchUpRounds = 1
  MaxConsecutiveFailures = 2
  MaxChanges = 0
  MaxFaults = 1
  MaxRestarts = 0
SPECIFICATION Spec
PROPERTIES PublishedCoversAll
CHECK_DEADLOCK FALSE
