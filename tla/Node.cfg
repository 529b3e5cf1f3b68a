CONSTANTS
  r1 = r1
  r2 = r2
  r3 = r3
  c1 = c1
  c2 = c2
  f1 = f1
  f2 = f2
  f3 = f3
  b1 = b1
  b2 = b2
  b3 = b3
  b4 = b4
  u1 = u1
  u2 = u2
  collect = collect
  repair = repair
  plain = plain
  int = int
  term = term
  Requests = {r1, r2, r3}
  Clients = {c1, c2}
  ClientOf <- TwoAndOne
  MaxDownloads = 2
  MaxPerClient = 1
  Chunks = 2
  CollectRequests = {collect}
  RepairRequests = {repair}
  PlainRequests = {plain}
  Signals = {int, term}
SPECIFICATION NodeSpec
INVARIANTS SlotsMatch PassesWithinUptime
PROPERTIES DownloadsSound EvictionJust CollectorWorks StartsAndStops
\* downloads end, and so does the process
CHECK_DEADLOCK FALSE
