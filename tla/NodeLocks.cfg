CONSTANTS
  Clients = {c1, c2, c3, c4}
  Ops = {o1, o2, o3}
  Cids = {1, 2, 3}
  None = None
  c1 = c1
  r1 = r1
  r2 = r2
  NoReq = NoReq
SPECIFICATION LocksOfNode
INVARIANTS EntriesMatchUse
PROPERTIES ImplementsRWLease ImplementsMutex EveryoneServed HandlersEnd
