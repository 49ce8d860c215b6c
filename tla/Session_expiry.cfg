CONSTANTS
  Users = {ann, ben}
  NoUser = NoUser
  Calls = {k1, k2}
SPECIFICATION SpecSession
INVARIANTS ExpiryIsNoLogout
