CONSTANTS
  UserIds = {u1, u2}
  Ips = {}
  NoSubject = NoSubject
  Requests = {r1, r2}
  TotalLimit = 2
  UserLimit = 1
  AnonLimit = 2
  MaxCalls = 3
  MaxDay = 1
  MaxLost = 1
  Ingredients = {1}
  Words = {"one", "ichi", "alias"}
  Texts = {{"ichi", "alias"}}
  NameOf <- Names
  KanaOf <- Kanas
  NoWord = "-"
  FirstMaster = {}
  Missing = Missing
  Unasked = Unasked
SPECIFICATION SpecResolve
SYMMETRY Symmetry
CHECK_DEADLOCK FALSE
INVARIANTS TotalBound OwnBound CallsCounted EveryWordOnce MissAfterPurge
PROPERTIES FailureNotKept
