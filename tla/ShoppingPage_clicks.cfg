CONSTANTS
  Weeks = {w1}
  Week = w1
  Names = {a, b}
  Derived = {a}
  Puts = {p1, p2, p3}
  Requests = {r1, r2}
  None = None
  MaxManual = 1
SPECIFICATION PageSpec
SYMMETRY Symmetry
INVARIANTS NothingOlder ManualBound ClicksKept
CHECK_DEADLOCK FALSE
