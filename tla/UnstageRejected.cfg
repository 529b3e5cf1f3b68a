CONSTANTS
  Cids = {c1}
  Requests = {}
  Txs = {t1}
  Rejected = {}
  Legacy = {}
  ConfirmationRequired = FALSE
  Strict = TRUE
  Calls = {}
  Jobs = {"gc"}
  FaultyWrites = {"gcStage"}
  MaxFaults = 1
  MaxCrashes = 0
  NoReq = NoReq
SPECIFICATION Spec
INVARIANTS Protected
