CONSTANTS
  Txs = {t1, t2}
  Peers = {p1, p2}
  Holders = {}
  Strangers = {}
  Restarting = {p2}
  Recoverable = {}
  Crashing = {}
  SelfIsHolder = FALSE
  AckQuorum = 2
SPECIFICATION Spec
SYMMETRY SymmetricUploads
INVARIANTS QuorumOnSuccess DurableOnlyByDecision CleanRejection
PROPERTIES SharedStageSurvives
CHECK_DEADLOCK FALSE
