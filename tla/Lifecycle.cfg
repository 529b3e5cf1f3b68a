CONSTANTS
  c1 = c1
  c2 = c2
  r1 = r1
  r2 = r2
  t1 = t1
  t2 = t2
  t3 = t3
  NoReq = NoReq
  Cids = {c1, c2}
  Requests = {r1, r2}
  Txs = {t1, t2, t3}
  Rejected = {t2, t3}
  Legacy = {c1}
  ConfirmationRequired = FALSE
  Strict = TRUE
  Calls = {"confirm", "release", "store", "adopt", "disconnect"}
  Jobs = {"gc", "repair"}
  FaultyWrites = {"confirm", "store", "release", "stage", "admit", "guard", "demote", "gcRelease", "finalize", "settle"}
  MaxFaults = 1
  MaxCrashes = 2
SPECIFICATION Scenarios
SYMMETRY Symmetry
INVARIANTS TypeOK OwnershipExclusive RepairStable StoresAgree StagesStayAborted
PROPERTIES DurableOnlyByDecision ConfirmedRightly RefusedLeaveNoTrace CollectSpares
