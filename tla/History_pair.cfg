CONSTANTS
  Users = {u1, u2}
  NoUser = NoUser
  Requests = {t1, t2}
  Limit = 1
  Batches = {1, 2}
  MaxBatch = 2
  MaxClock = 1
  MaxSeq = 4
SPECIFICATION Spec
SYMMETRY Symmetry
INVARIANTS CountBound NewestKept
PROPERTIES ImplementsFeed
