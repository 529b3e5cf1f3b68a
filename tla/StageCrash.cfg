CONSTANTS
  Cids = {c1}
  Requests = {}
  Txs = {t1}
  Rejected = {t1}
  Legacy = {}
  ConfirmationRequired = FALSE
  Strict = TRUE
  Calls = {}
  Jobs = {}
  FaultyWrites = {}
  MaxFaults = 0
  MaxCrashes = 1
  NoReq = NoReq
SPECIFICATION Spec
PROPERTIES ConfirmedOnlyByDecision
CHECK_DEADLOCK FALSE
