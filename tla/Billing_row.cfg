CONSTANTS
  NoStripeSub = NoStripeSub
  StripeSubs = {s1, s2}
  Handlers = {h1}
  Period = 2
  Trial = 1
  Grace = 1
  MaxTime = 2
  MaxVersion = 2
  MaxSessions = 2
  MaxGrants = 1
SPECIFICATION SpecBilling
SYMMETRY Symmetry
INVARIANTS PremiumIsOwed DoubleOnlyIfBlind
PROPERTIES LinkKept ProtectedUnlessRaced
