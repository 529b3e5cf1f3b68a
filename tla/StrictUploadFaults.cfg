CONSTANTS
  Txs = {t1}
  Peers = {p1, p2, p3}
  Holders = {}
  Strangers = {p3}
  Restarting = {p1}
  Recoverable = {p1, p2}
  Crashing = {t1}
  SelfIsHolder = TRUE
  AckQuorum = 3
SPECIFICATION LiveSpec
PROPERTIES ImplementsDecision UploadsSettle
CHECK_DEADLOCK FALSE
