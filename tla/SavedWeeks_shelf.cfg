CONSTANTS
  Users = {u1, u2}
  NoUser = NoUser
  WeekIds = {w1, w2, w3}
  NoWeek = NoWeek
  Requests = {r1, r2}
  Limit = 1
  WeekLength = 2
SPECIFICATION Spec
SYMMETRY Symmetry
INVARIANTS WholeWeeks ShownWholeOrGone ShelfBound
