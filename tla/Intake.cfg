CONSTANTS
  u1 = u1
  u2 = u2
  k1 = k1
  s1 = s1
  s2 = s2
  b1 = b1
  b2 = b2
  None = None
  p1 = p1
  p2 = p2
  p3 = p3
  total = total
  i1 = i1
  i2 = i2
  i3 = i3
  Peers = {p1, p2, p3}
  Total = total
  Window = 4
  Bucket = 2
  PerPeerBytes = 2
  PerPeerRequests = 2
  TotalBytes = 3
  TotalRequests = 2
  MaxCost = 2
  MaxTime = 8
  MaxReservations = 3
  Readers = {i1, i2, i3}
  MaxBlock = 2
  Limit = 7
  Uploads = {u1, u2}
  Copies = {k1}
  MaxUploads = 2
  MaxCopies = 1
  MaxRequest = 2
  CopyClaim = 2
  Capacity = 4
  Reserve = 1
  Sessions = {s1, s2}
  Puts = {1, 2}
  Blocks = {b1, b2}
  Contents <- Overlapping
  SlowDelete = FALSE
SPECIFICATION IntakeSpec
INVARIANTS AdmissionExact CleanupSpares IntakePaid
\* requests, transfers and imports end
CHECK_DEADLOCK FALSE
