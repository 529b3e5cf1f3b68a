CONSTANTS
  Cids = {1, 2, 3}
  BatchSize = 1
  MaxCatchUpRounds = 1
  MaxConsecutiveFailures = 2
  MaxChanges = 2
  MaxFaults = 2
  MaxRestarts = 1
SPECIFICATION MCSpec
INVARIANTS CycleOwned
PROPERTIES PublishedIsTrue EvidenceRenewed
\* a driver that is stopped stays stopped
CHECK_DEADLOCK FALSE
